SPECIFICATION Spec
CONSTANTS
  Campaigns <- FullProfile
  Sites <- OneMachine
INVARIANT FamiliesAreNeverRejoined
CHECK_DEADLOCK FALSE
