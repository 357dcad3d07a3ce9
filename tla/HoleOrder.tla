----------------------------- MODULE HoleOrder -----------------------------
(***************************************************************************)
(* The order in which the two trees of holes keep their nodes.             *)
(***************************************************************************)
EXTENDS Lists

(* insert_hole_size and RB_INSERT on holes_addr: m goes behind every hole  *)
(* whose key, in the function given, is not on the far side of its own.    *)
(* Mistaken: a new hole always becomes the first.                          *)
InsertInFront(s, m, key) == ListPrepend(s, m)

InsertBySize(s, m, key) ==
  InsertAt(s, 1 + Cardinality({k \in 1..Len(s) : key[s[k]] >= key[m]}), m)
InsertByAddr(s, m, key) ==
  InsertAt(s, 1 + Cardinality({k \in 1..Len(s) : key[s[k]] <= key[m]}), m)
=============================================================================
