SPECIFICATION FairSpec
CONSTANTS
  MaxStarts = 1
  MaxStops = 1
  NoSocket = FALSE
PROPERTY StopReturns
CHECK_DEADLOCK FALSE
