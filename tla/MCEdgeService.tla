--------------------------- MODULE MCEdgeService ---------------------------
(* Instances of EdgeService for model checking. *)
EXTENDS EdgeService
=============================================================================
