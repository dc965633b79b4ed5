---------------------------- MODULE EventChannel ----------------------------
(***************************************************************************)
(* What the input path of a running game promises: events put in by the    *)
(* Android side come out on the game side once each, in the order in which *)
(* they were accepted.  An event may be refused, never lost or reordered   *)
(* after it was accepted.                                                  *)
(***************************************************************************)
EXTENDS Sequences

CONSTANT Events

VARIABLES
  chan,   \* accepted and not yet delivered
  out     \* delivered, oldest first

Init == chan = <<>> /\ out = <<>>

Put(e) == chan' = Append(chan, e) /\ UNCHANGED out

Get ==
  /\ chan # <<>>
  /\ out' = Append(out, Head(chan))
  /\ chan' = Tail(chan)

Next == Get \/ \E e \in Events : Put(e)

Spec == Init /\ [][Next]_<<chan, out>>
=============================================================================
