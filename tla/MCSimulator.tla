---------------------------- MODULE MCSimulator ----------------------------
(* Small instances of Simulator for TLC. *)
EXTENDS Simulator

(* A line may come before the one it follows, at the same time, or late    *)
(* enough for frames to be repeated.                                       *)
MCSteps == {-1, 0, 3}
=============================================================================
