----------------------------- MODULE MCHoleTree -----------------------------
(* Small instances of HoleTree for TLC. *)
EXTENDS HoleTree

MCLast == [n \in Node |-> 0]

(* Up to three holes of one size, with space between them; the last node   *)
(* may take over the hole of the one before.                               *)
MCSizes == [n \in Node |-> 1 + n \div 3]
MCPlaces == [n \in Node |-> 6 * IF n = Cardinality(Node) - 1 THEN n - 1 ELSE n]
=============================================================================
