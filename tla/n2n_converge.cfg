SPECIFICATION FairSpec
CONSTANTS
  Edges = {"a", "b"}
  Supernodes = {"s1"}
  Port <- OnePort
  Ring <- OneRing
  Flaky = {}
  Restricted = TRUE
  Faults = {"stop"}
  MaxFaults = 1
  MaxNet = 1
  SupAttempts = 1
  Cookies = {1, 2, 3}
  Broadcasts = FALSE
  MaySkip = FALSE
  a = a
  b = b
PROPERTY DirectAgain
CHECK_DEADLOCK FALSE
