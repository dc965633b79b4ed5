-------------------------- MODULE MCBoatEventQueue --------------------------
(* Instances of BoatEventQueue for model checking. *)
EXTENDS BoatEventQueue
=============================================================================
