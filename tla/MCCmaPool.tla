---------------------------- MODULE MCCmaPool ----------------------------
(* Small instances of CmaPool for TLC. *)
EXTENDS CmaPool

(* The ids are interchangeable; used in runs without liveness only.       *)
Ids == Permutations(BufId)
=============================================================================
