--------------------------- MODULE MCIntervalTree ---------------------------
(* Small instances of IntervalTree for TLC. *)
EXTENDS IntervalTree

(* Intervals of two points with one between them; the last node has the    *)
(* interval of the fourth.                                                 *)
MCStart == [n \in Node |-> IF n = Cardinality(Node) THEN 12 ELSE 3 * n]
MCLast == [n \in Node |-> MCStart[n] + 1]
=============================================================================
