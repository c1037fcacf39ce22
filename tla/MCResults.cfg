SPECIFICATION Spec
CONSTANTS
  Campaigns <- SeparateFamilies
  Sites <- AllSites
INVARIANTS TypeOK EveryServedRunIsReported CoresAreTheRowsOwn ThrottlingIsSaid SharedMachineIsSaid
CHECK_DEADLOCK FALSE
