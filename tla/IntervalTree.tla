---------------------------- MODULE IntervalTree ----------------------------
(***************************************************************************)
(* The interval tree of drm_mm.c: the allocated nodes by their start, each *)
(* with the largest end of an interval at or below it.                     *)
(*                                                                         *)
(* The intervals of allocated nodes do not overlap (NoOverlap in DrmMm),   *)
(* and each is added with the node in front of its hole, which is its      *)
(* neighbour (hole below, or Nil for the head node).  The interval         *)
(* of a node is a constant; nodes of one interval are one node that comes  *)
(* and goes under several addresses.  No size is 0: insertion and          *)
(* reservation refuse it.                                                  *)
(***************************************************************************)
EXTENDS RbTree

CONSTANT START  \* the start of the interval of each node

ASSUME IntervalTreeConstants ==
  /\ START \in [Node -> Int]
  /\ \A n \in Node : START[n] <= LAST[n]

(* n lies behind hole, or the head node, and in front of the next one. *)
Follows(hole, n) ==
  /\ hole # Nil => InTree(hole) /\ LAST[hole] < START[n]
  /\ \A m \in Linked \ {hole} :
       LAST[n] < START[m] \/ (hole # Nil /\ START[m] < START[hole])

SideFor(n, m) == IF START[n] < START[m] THEN "left" ELSE "right"

(* The way down from m for a new node. *)
Descent(t, m, n) == WayDown(t, m, [k \in Node |-> SideFor(n, k)])

(* The end of a new node is passed on to every node on the way down, and   *)
(* from hole upwards to every one up to the first that is far enough.      *)
(* Mistaken: only on the way down.                                         *)
RaiseBelow(t, path, hole, n) ==
  [t EXCEPT !.last = [m \in Node |-> IF m \in ToSet(path)
                                       THEN Max({@[m], LAST[n]}) ELSE @[m]]]

Raise(t, path, hole, n) ==
  LET above == Upwards(t, hole, Nil)
      enough == {k \in 1..Len(above) : t.last[above[k]] >= LAST[n]}
      short == IF enough = {} THEN ToSet(above)
               ELSE ToSet(SubSeq(above, 1, Min(enough) - 1))
  IN  [t EXCEPT !.last = [m \in Node |-> IF m \in short \cup ToSet(path)
                                           THEN Max({@[m], LAST[n]}) ELSE @[m]]]

(* drm_mm_interval_tree_add_node *)
Add(hole, n) ==
  /\ pc = "idle" /\ ~InTree(n) /\ Follows(hole, n)
  /\ LET top == IF hole = Nil THEN tree.root ELSE tree.child["right"][hole]
         path == Descent(tree, top, n)
         p == IF path = <<>> THEN hole ELSE path[Len(path)]
         d == IF path = <<>> THEN "right" ELSE SideFor(n, p)
         leftmost == hole = Nil /\ \A k \in 1..Len(path) : SideFor(n, path[k]) = "left"
     IN  /\ tree' = Link(Raise(tree, path, hole, n), n, p, d, leftmost)
         /\ Fixup("insert", n, p)

(* drm_mm_replace_node: the new node is a copy of the old one. *)
Replace(old, new) ==
  /\ START[old] = START[new] /\ LAST[old] = LAST[new]
  /\ ReplaceNode(old, new)

Next ==
  \/ \E hole \in Node \cup {Nil}, n \in Node : Add(hole, n)
  \/ \E n \in Node : Erase(n)
  \/ \E old, new \in Node : Replace(old, new)
  \/ Rebalance

Spec == RbInit /\ [][Next]_rbVars

-----------------------------------------------------------------------------
(* drm_mm_interval_tree_subtree_search and _iter_first                     *)

SubtreeSearch(top, start, last) ==
  LET search[n \in Node] ==
        LET l == tree.child["left"][n]
            r == tree.child["right"][n]
        IN  IF l # Nil /\ start <= tree.last[l] THEN search[l]
            ELSE IF START[n] > last THEN Nil
            ELSE IF start <= LAST[n] THEN n
            ELSE IF r # Nil /\ start <= tree.last[r] THEN search[r]
            ELSE Nil
  IN  search[top]

IterFirst(start, last) ==
  IF \/ tree.root = Nil \/ tree.last[tree.root] < start
     \/ START[tree.leftmost] > last
  THEN Nil ELSE SubtreeSearch(tree.root, start, last)

-----------------------------------------------------------------------------
(* The end kept with each node is that of the last interval at or below    *)
(* it, through every rotation, whatever left the tree, and although the    *)
(* walks up stop early.                                                    *)
AugmentExact ==
  LET below[n \in Node \cup {Nil}] ==
        IF n = Nil THEN {}
        ELSE {n} \cup below[tree.child["left"][n]] \cup below[tree.child["right"][n]]
  IN  \A n \in Linked : tree.last[n] = Max({LAST[m] : m \in below[n]})

(* A search by interval, which trusts the ends and the cached leftmost     *)
(* node, finds the first node that meets it, if any does: for ranges that  *)
(* just meet and just miss an interval, on either side.                    *)
IterFirstIsRight ==
  pc = "idle" =>
    \A start \in UNION {{LAST[n], LAST[n] + 1} : n \in Node},
       last \in UNION {{START[n] - 1, START[n]} : n \in Node} :
      start <= last =>
        LET found == {n \in Linked : START[n] <= last /\ start <= LAST[n]}
        IN  IterFirst(start, last) =
              IF found = {} THEN Nil
              ELSE CHOOSE n \in found : \A m \in found : START[n] <= START[m]
=============================================================================
