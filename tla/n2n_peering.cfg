SPECIFICATION Spec
CONSTANTS
  Edges = {a, b}
  Supernodes = {"s1"}
  Port <- OnePort
  Ring <- OneRing
  Flaky = {"s1"}
  Restricted = TRUE
  Faults <- AllFaults
  MaxFaults = 1
  MaxNet = 1
  SupAttempts = 1
  Cookies = {1, 2}
  Broadcasts = TRUE
  MaySkip = FALSE
  a = a
  b = b
INVARIANT TypeOK
INVARIANT PeersApart
INVARIANT KnownProven
INVARIANT AckFresh
SYMMETRY TwoEdges
CHECK_DEADLOCK FALSE
