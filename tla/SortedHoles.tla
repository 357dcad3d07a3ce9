---------------------------- MODULE SortedHoles ----------------------------
(***************************************************************************)
(* What drm_mm expects of a tree of holes, and all that DrmMm takes it     *)
(* for: a sequence in the order of HoleOrder.                              *)
(***************************************************************************)
EXTENDS HoleOrder

CONSTANTS
  Node,
  HoleSize, HoleStart  \* of each node, as long as it is in the sequence

VARIABLES
  order,
  by_size  \* TRUE: holes_size; FALSE: holes_addr

Init == order = <<>> /\ by_size \in BOOLEAN

Insert(n) ==
  /\ ~InList(order, n)
  /\ order' = IF by_size THEN InsertBySize(order, n, HoleSize)
                         ELSE InsertByAddr(order, n, HoleStart)

Erase(n) == InList(order, n) /\ order' = ListRemove(order, n)

Replace(old, new) ==
  InList(order, old) /\ ~InList(order, new) /\ order' = ListReplace(order, old, new)

Next ==
  /\ \/ \E n \in Node : Insert(n) \/ Erase(n)
     \/ \E old, new \in Node : Replace(old, new)
  /\ UNCHANGED by_size

Spec == Init /\ [][Next]_<<order, by_size>>
=============================================================================
