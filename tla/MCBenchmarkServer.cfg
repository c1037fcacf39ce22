SPECIFICATION FairSpec
CONSTANTS
  Calls = {c1, c2}
  Connections = {k1}
  Requests <- AllRequests
  Threads = 1
  SignBit = 4
  MaxPayload = 3
CONSTRAINT OneOrder
INVARIANTS TypeOK AtMostOneClose GaugesAccount AnsweredIsCounted OkIsWhole
  LeakIsExact
PROPERTIES EveryCallEnds HandlerReleases
CHECK_DEADLOCK FALSE
