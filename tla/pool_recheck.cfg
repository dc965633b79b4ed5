SPECIFICATION Spec
CONSTANTS
  N = 3
  pA = pA
  pB = pB
  Paths = {pA}
  PathOf <- OnePath
  Hashed = {pA}
  Sessions = {1, 2}
  MaxTask = 1
  TryTimes = 1
  FilterFirst = TRUE
  FirstCapacity = 2
INVARIANT CleanReturn
INVARIANT NothingDiscarded
CHECK_DEADLOCK FALSE
