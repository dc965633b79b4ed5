--------------------------- MODULE MCDownloadPool ---------------------------
(* Instances of DownloadPool for model checking: three list entries, the    *)
(* first two naming the same file (two assets with one hash).               *)
EXTENDS DownloadPool

CONSTANTS pA, pB

SharedPath == [e \in 1..3 |-> IF e = 3 THEN pB ELSE pA]
OnePath == [e \in 1..3 |-> pA]
=============================================================================
