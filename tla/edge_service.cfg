SPECIFICATION FairSpec
CONSTANTS
  MaxStarts = 2
  MaxStops = 2
  NoSocket = TRUE
INVARIANT TypeOK
INVARIANT EdgeOwned
INVARIANT StopEffective
INVARIANT LastStopWins
PROPERTY ResetReturns
CHECK_DEADLOCK FALSE
