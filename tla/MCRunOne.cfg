SPECIFICATION FairSpec
CONSTANTS
  MaxCalls = 2
  MaxDeaths = 1
INVARIANTS TypeOK FilesAreThisRuns DeltaCountsTheRun
PROPERTIES NothingComesLater RunEnds
CHECK_DEADLOCK FALSE
