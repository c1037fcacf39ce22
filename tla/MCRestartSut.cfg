SPECIFICATION FairSpec
CONSTANTS
  Uids = {u1, u2, u3, u4}
  Replicas = 1
  MaxPolls = 2
INVARIANTS TypeOK SuccessIsFresh
PROPERTIES ReplacementsAreSpared KeepsPromise ScriptEnds
CHECK_DEADLOCK FALSE
