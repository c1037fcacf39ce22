SPECIFICATION FairSpec
CONSTANTS
  METHODS <- Echo
  CONCURRENCY_LEVELS <- OneLevel
  GHZ_CONNECTION_MODES <- TwiceTheSame
  RATE_LEVELS <- OneRate
  REPEATS = 1
  OPEN_LOOP_CONCURRENCY = 2
  Match = Match
  Family = "all"
  Restarts = {"jar", "command", "none"}
  ReadsStdin = FALSE
  MaxFaults = 1
  MaxBooting = 1
INVARIANTS TypeOK PlanIsRun FreshOrWarned
PROPERTIES KeepsOrder ScriptEnds
CHECK_DEADLOCK FALSE
