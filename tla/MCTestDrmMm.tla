--------------------------- MODULE MCTestDrmMm ---------------------------
(* Small instances of TestDrmMm for TLC. *)
EXTENDS TestDrmMm

(* The buffers are interchangeable; used in runs without liveness only.    *)
Names == Permutations(Node)
=============================================================================
