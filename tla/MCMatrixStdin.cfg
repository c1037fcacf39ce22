SPECIFICATION Spec
CONSTANTS
  METHODS <- Echo
  CONCURRENCY_LEVELS <- OneLevel
  GHZ_CONNECTION_MODES <- MatchOnly
  RATE_LEVELS <- OneRate
  REPEATS = 1
  OPEN_LOOP_CONCURRENCY = 2
  Match = Match
  Family = "closed"
  Restarts = {"command"}
  ReadsStdin = TRUE
  MaxFaults = 0
  MaxBooting = 1
INVARIANT PlanIsRun
CHECK_DEADLOCK FALSE
