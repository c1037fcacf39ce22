SPECIFICATION Spec
CONSTANTS
  Calls = {c1, c2}
  Connections = {k1}
  Requests <- LoadRequests
  Threads = 1
  SignBit = 4
  MaxPayload = 3
INVARIANT GaugesReturnToZero
CHECK_DEADLOCK FALSE
