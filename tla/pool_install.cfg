SPECIFICATION FairSpec
CONSTANTS
  N = 3
  pA = pA
  pB = pB
  Paths = {pA, pB}
  PathOf <- SharedPath
  Hashed = {pA, pB}
  Sessions = {1}
  MaxTask = 2
  TryTimes = 2
  FilterFirst = FALSE
  FirstCapacity = 1
INVARIANT TypeOK
INVARIANT ListTrue
PROPERTY SessionEnds
CHECK_DEADLOCK FALSE
