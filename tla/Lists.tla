------------------------------- MODULE Lists -------------------------------
(***************************************************************************)
(* The list operations of the two programs, on sequences: Python lists in  *)
(* cma-pool-log.py, and the intrusive lists of linux/list.h, where an item *)
(* is in a list at most once.                                              *)
(***************************************************************************)
EXTENDS Integers, Sequences, SequencesExt

InList(s, x) == \E k \in 1..Len(s) : s[k] = x

(* An x comes before a y. *)
Before(s, x, y) == \E j, k \in 1..Len(s) : j < k /\ s[j] = x /\ s[k] = y

(* No item is in the list twice. *)
Distinct(s) == \A j, k \in 1..Len(s) : j # k => s[j] # s[k]

(* The place of the first x of a list that has one. *)
ListIndex(s, x) == Min({k \in 1..Len(s) : s[k] = x})

(* list.remove(x) in Python, list_del in C. *)
ListRemove(s, x) == RemoveAt(s, ListIndex(s, x))

(* list.insert(0, x) in Python, list_add in C. *)
ListPrepend(s, x) == <<x>> \o s

(* An item of a list takes the place of another (list_replace). *)
ListReplace(s, x, y) == [k \in 1..Len(s) |-> IF s[k] = x THEN y ELSE s[k]]

(* Walking a list by the links of its items; end is what stands for the    *)
(* list's head, where every walk ends.                                     *)
ListFirst(s, end) == IF s = <<>> THEN end ELSE s[1]
ListLast(s, end) == IF s = <<>> THEN end ELSE s[Len(s)]
ListNext(s, x, end) ==
  IF ListIndex(s, x) = Len(s) THEN end ELSE s[ListIndex(s, x) + 1]
ListPrev(s, x, end) ==
  IF ListIndex(s, x) = 1 THEN end ELSE s[ListIndex(s, x) - 1]
=============================================================================
