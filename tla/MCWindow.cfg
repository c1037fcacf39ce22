SPECIFICATION Spec
CONSTANTS
  Workers = {w1, w2}
  Warmup = 1
  Measure = 2
  Interval = 1
  MaxStartup = 1
  MaxLatency = 2
  MaxFailures = 1
SYMMETRY WorkerSymmetry
INVARIANTS TypeOK DriftIsAccountedFor AchievedConcurrencyIsBounded LoadCoversAllButStartup
CHECK_DEADLOCK FALSE
