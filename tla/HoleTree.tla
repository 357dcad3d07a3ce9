------------------------------ MODULE HoleTree ------------------------------
(***************************************************************************)
(* The trees of holes of drm_mm.c, holes_size (largest first, several of   *)
(* one size, leftmost cached) and holes_addr: how add_hole, rm_hole and    *)
(* drm_mm_replace_node use them, and the searches that go down them.       *)
(*                                                                         *)
(* The size and place of a hole do not change while it is in the trees:    *)
(* they are constants of a node here, and the run has nodes enough for the *)
(* holes that come and go.                                                 *)
(***************************************************************************)
EXTENDS RbTree

CONSTANTS
  HoleSize, HoleStart  \* of the hole behind each node

ASSUME HoleTreeConstants ==
  /\ HoleSize \in [Node -> Nat \ {0}]
  /\ HoleStart \in [Node -> Nat]

VARIABLE by_size  \* which tree this is: TRUE, holes_size; FALSE, holes_addr

holeVars == <<rbVars, by_size>>

HoleInit == RbInit /\ by_size \in BOOLEAN

(* Mistaken: a hole goes in front of those of its own size. *)
GoesLeftOfEquals(n, m) ==
  IF by_size THEN HoleSize[n] >= HoleSize[m] ELSE HoleStart[n] <= HoleStart[m]

GoesLeft(n, m) ==
  IF by_size THEN HoleSize[n] > HoleSize[m] ELSE HoleStart[n] < HoleStart[m]

(* The way down for a new node, from the root. *)
HoleSide(n, m) == IF GoesLeft(n, m) THEN "left" ELSE "right"
HoleDescent(t, n) == WayDown(t, t.root, [m \in Node |-> HoleSide(n, m)])

(* No two holes overlap. *)
Clear(n, m) ==
  HoleStart[n] + HoleSize[n] <= HoleStart[m] \/ HoleStart[m] + HoleSize[m] <= HoleStart[n]

(* insert_hole_size, RB_INSERT *)
InsertHole(n) ==
  /\ pc = "idle" /\ ~InTree(n)
  /\ \A m \in Linked : Clear(n, m)
  /\ LET path == HoleDescent(tree, n)
         p == IF path = <<>> THEN Nil ELSE path[Len(path)]
     IN  /\ tree' = Link(tree, n, p, IF p = Nil THEN "left" ELSE HoleSide(n, p),
                         \A k \in 1..Len(path) : GoesLeft(n, path[k]))
         /\ Fixup("insert", n, p)
  /\ UNCHANGED by_size

(* rm_hole *)
RmHole(n) == Erase(n) /\ UNCHANGED by_size

(* A node takes over the hole of another as it is. *)
ReplaceHole(old, new) ==
  /\ HoleSize[old] = HoleSize[new] /\ HoleStart[old] = HoleStart[new]
  /\ ReplaceNode(old, new)
  /\ UNCHANGED by_size

Recolour == Rebalance /\ UNCHANGED by_size

HoleNext ==
  \/ \E n \in Node : InsertHole(n) \/ RmHole(n)
  \/ \E old, new \in Node : ReplaceHole(old, new)
  \/ Recolour

HoleSpec == HoleInit /\ [][HoleNext]_holeVars

-----------------------------------------------------------------------------
(* best_hole, which is only called when some hole is large enough.         *)
(* Mistaken: the wrong way on when the size is just right. *)
BestHoleAbove(x) ==
  LET down[m \in Node \cup {Nil}] ==
        [best \in Node \cup {Nil} |->
           IF m = Nil THEN best
           ELSE IF x < HoleSize[m] THEN down[tree.child["right"][m]][m]
                ELSE down[tree.child["left"][m]][best]]
  IN  down[tree.root][Nil]

(* down[m][best] is the outcome at m with the best hole so far.            *)
BestHole(x) ==
  LET down[m \in Node \cup {Nil}] ==
        [best \in Node \cup {Nil} |->
           IF m = Nil THEN best
           ELSE IF x <= HoleSize[m] THEN down[tree.child["right"][m]][m]
                ELSE down[tree.child["left"][m]][best]]
  IN  down[tree.root][Nil]

(* find_hole *)
FindHole(addr) ==
  LET down[m \in Node] ==
        LET below == IF addr < HoleStart[m] THEN tree.child["left"][m]
                     ELSE IF addr > HoleStart[m] + HoleSize[m] THEN tree.child["right"][m]
                     ELSE Nil
        IN  IF below = Nil THEN m ELSE down[below]
  IN  IF tree.root = Nil THEN Nil ELSE down[tree.root]

(* A search for the best hole ends at the smallest hole that is large      *)
(* enough, and at the last of these in the tree, from where the walk to    *)
(* larger holes (next_hole) leaves none out.                               *)
BestHoleIsLast ==
  LET s == InOrder(tree)
  IN  \A x \in {HoleSize[n] : n \in Linked} :
        BestHole(x) = s[Max({k \in 1..Len(s) : HoleSize[s[k]] >= x})]

(* A search for an address finds a hole that has it inside or at an end,   *)
(* if there is one, and otherwise stops next to the address, in the order  *)
(* of the tree: the callers go on from there.                              *)
FindHoleIsNear ==
  LET inside(n, addr) == HoleStart[n] <= addr /\ addr <= HoleStart[n] + HoleSize[n]
  IN  \A addr \in UNION {0..HoleStart[n] + HoleSize[n] + 1 : n \in Node} :
        IF \E n \in Linked : inside(n, addr) THEN inside(FindHole(addr), addr)
        ELSE Linked # {} =>
               LET n == FindHole(addr)
                   d == IF HoleStart[n] < addr THEN "right" ELSE "left"
                   m == Neighbour(tree, n, d)
               IN  m # Nil => (HoleStart[m] < addr <=> d = "left")

(* Wherever its shape leads it, a search in either tree comes out at a     *)
(* hole from which the callers can go on.                                  *)
SearchesEndRight == pc = "idle" => IF by_size THEN BestHoleIsLast ELSE FindHoleIsNear

Sorted == INSTANCE SortedHoles WITH order <- InOrder(tree)

(* Linking in, taking out and replacing do to the order of the nodes what  *)
(* the sequence does, and no step of a rebalancing changes it.             *)
ImplementsSortedHoles == Sorted!Spec
=============================================================================
