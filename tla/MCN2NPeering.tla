---------------------------- MODULE MCN2NPeering ----------------------------
EXTENDS N2NPeering, TLC

CONSTANTS a, b

TwoEdges == Permutations({a, b})

\* One supernode, or two on different ports
AllFaults == FaultKinds
OneRing == <<"s1">>
OnePort == [s \in {"s1"} |-> 7654]
TwoRing == <<"s1", "s2">>
TwoPorts == [s \in {"s1", "s2"} |-> IF s = "s1" THEN 7654 ELSE 10086]
=============================================================================
