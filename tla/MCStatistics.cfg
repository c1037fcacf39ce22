SPECIFICATION Spec
CONSTANTS
  Digits = 3
  Milli = 10
  Arrivals <- AroundASecond
  MaxLen = 7
INVARIANTS TypeOK NearestRank OneRepeatDoesNotDecide FaithfulWithinResolution
CHECK_DEADLOCK FALSE
