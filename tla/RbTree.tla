------------------------------- MODULE RbTree -------------------------------
(***************************************************************************)
(* The red-black trees of rbtree.c and linux/rbtree.h, which drm_mm uses   *)
(* for its holes (HoleTree) and for its allocated nodes (IntervalTree).    *)
(*                                                                         *)
(* tree is a struct rb_root_cached with the rb_node of every node.  black  *)
(* is the low bit of __rb_parent_color; last is the augmented field.       *)
(* Linking a node in and taking one out are one action each; what          *)
(* __rb_insert and ____rb_erase_color then do to the colours is a sequence *)
(* of steps, one for each round of their loops, or for a case of it:       *)
(*                                                                         *)
(*   idle     between two calls                                            *)
(*   insert   at the head of the loop of __rb_insert                       *)
(*   erase    at the head of the loop of ____rb_erase_color                *)
(*                                                                         *)
(* node and parent are the variables of these loops.  The code has each    *)
(* case twice, with left and right exchanged; here d is the side on which  *)
(* node (or its parent) is, and Other(d) the opposite one.  The fields of  *)
(* a node that is in no tree are not read before rb_link_node sets them,   *)
(* and are reset.                                                          *)
(*                                                                         *)
(* An operator headed "Mistaken" is a plausible error in the definition    *)
(* that follows it, put in its place to see that a property notices.       *)
(***************************************************************************)
EXTENDS Integers, Sequences, FiniteSets, SequencesExt, FiniteSetsExt

CONSTANTS
  Node, Nil,  \* the nodes, and NULL
  LAST,       \* the end of the interval of each node
  Augmented   \* TRUE: with the callbacks of the interval tree; FALSE: dummy

ASSUME RbTreeConstants ==
  /\ Nil \notin Node
  /\ LAST \in [Node -> Int]
  /\ Augmented \in BOOLEAN

VARIABLES tree, pc, node, parent

rbVars == <<tree, pc, node, parent>>

Side == {"left", "right"}
Other(d) == IF d = "left" THEN "right" ELSE "left"

EmptyTree ==
  [root |-> Nil, leftmost |-> Nil,
   child |-> [d \in Side |-> [n \in Node |-> Nil]],
   parent |-> [n \in Node |-> Nil],
   black |-> [n \in Node |-> FALSE],
   last |-> [n \in Node |-> 0]]

RbInit == tree = EmptyTree /\ pc = "idle" /\ node = Nil /\ parent = Nil

InTree(n) == n = tree.root \/ tree.parent[n] # Nil
Linked == {n \in Node : InTree(n)}

-----------------------------------------------------------------------------
(* Walking a tree *)

(* The end of the path that keeps to one side. *)
Outermost(t, n, d) ==
  LET walk[m \in Node] == IF t.child[d][m] = Nil THEN m ELSE walk[t.child[d][m]]
  IN  walk[n]

(* rb_next, for "right", and rb_prev, for "left". *)
Neighbour(t, n, d) ==
  LET up[m \in Node] ==
        LET p == t.parent[m]
        IN  IF p # Nil /\ m = t.child[d][p] THEN up[p] ELSE p
  IN  IF t.child[d][n] # Nil THEN Outermost(t, t.child[d][n], Other(d)) ELSE up[n]

(* The nodes from n up to the root, or to stop, which is not one of them.  *)
Upwards(t, n, stop) ==
  LET up[m \in Node \cup {Nil}] ==
        IF m \in {Nil, stop} THEN <<>> ELSE <<m>> \o up[t.parent[m]]
  IN  up[n]

(* The nodes from m down to one that has no child on the side given for    *)
(* it: how a place is found for a new node.                                *)
WayDown(t, m, side) ==
  LET down[k \in Node \cup {Nil}] ==
        IF k = Nil THEN <<>> ELSE <<k>> \o down[t.child[side[k]][k]]
  IN  down[m]

(* The nodes from left to right. *)
InOrder(t) ==
  LET walk[m \in Node \cup {Nil}] ==
        IF m = Nil THEN <<>>
        ELSE walk[t.child["left"][m]] \o <<m>> \o walk[t.child["right"][m]]
  IN  walk[t.root]

-----------------------------------------------------------------------------
(* The augmented field *)

(* RBCOMPUTE: the largest end of an interval at or below n. *)
ComputeMax(t, n) ==
  Max({LAST[n]} \cup {t.last[t.child[d][n]] : d \in {e \in Side : t.child[e][n] # Nil}})

(* propagate: up from n, until one need not change. *)
Propagate(t, n, stop) ==
  LET recompute(acc, m) ==
        IF acc.settled \/ acc.tree.last[m] = ComputeMax(acc.tree, m)
        THEN [acc EXCEPT !.settled = TRUE]
        ELSE [acc EXCEPT !.tree.last[m] = ComputeMax(acc.tree, m)]
  IN  IF Augmented
      THEN FoldLeft(recompute, [tree |-> t, settled |-> FALSE], Upwards(t, n, stop)).tree
      ELSE t

Copy(t, old, new) == IF Augmented THEN [t EXCEPT !.last[new] = t.last[old]] ELSE t

(* Mistaken: the node that came down keeps what it had. *)
RotateCopyOnly(t, old, new) == Copy(t, old, new)

Rotate(t, old, new) ==
  LET u == Copy(t, old, new)
  IN  IF Augmented THEN [u EXCEPT !.last[old] = ComputeMax(u, old)] ELSE u

-----------------------------------------------------------------------------
(* The links of a node *)

SetParent(t, n, p) == IF n = Nil THEN t ELSE [t EXCEPT !.parent[n] = p]
Blacken(t, n) == IF n = Nil THEN t ELSE [t EXCEPT !.black[n] = TRUE]

(* __rb_change_child *)
ChangeChild(t, old, new, p) ==
  IF p = Nil THEN [t EXCEPT !.root = new]
  ELSE [t EXCEPT !.child[IF t.child["left"][p] = old THEN "left" ELSE "right"][p] = new]

(* __rb_rotate_set_parents: the new head of a subtree takes over the place *)
(* and the colour of the old one.                                          *)
RotateSetParents(t, old, new, black) ==
  LET p == t.parent[old]
  IN  ChangeChild([t EXCEPT !.parent = [@ EXCEPT ![new] = p, ![old] = new],
                            !.black = [@ EXCEPT ![new] = t.black[old], ![old] = black]],
                  old, new, p)

(* The pointers of every rotation to side d: below, the child of n on the  *)
(* other side, gets n for a child and leaves n the one it had there.       *)
(* Mistaken: that one still has below for its parent.                      *)
SwingDown(t, d, n, below) ==
  LET inner == t.child[d][below]
  IN  [t EXCEPT !.child = [@ EXCEPT ![Other(d)][n] = inner, ![d][below] = n]]

Swing(t, d, n, below) ==
  LET inner == t.child[d][below]
  IN  SetParent([t EXCEPT !.child = [@ EXCEPT ![Other(d)][n] = inner, ![d][below] = n]],
                inner, n)

(* rb_link_node, and rb_leftmost as the callers set it before they go on   *)
(* to the colours.                                                         *)
Link(t, n, p, d, leftmost) ==
  LET u == [t EXCEPT !.parent[n] = p, !.black[n] = FALSE,
                     !.child = [e \in Side |-> [@[e] EXCEPT ![n] = Nil]],
                     !.last[n] = IF Augmented THEN LAST[n] ELSE 0,
                     !.leftmost = IF leftmost THEN n ELSE @]
  IN  IF p = Nil THEN [u EXCEPT !.root = n] ELSE [u EXCEPT !.child[d][p] = n]

Unlink(t, n) ==
  [t EXCEPT !.child = [e \in Side |-> [@[e] EXCEPT ![n] = Nil]],
            !.parent[n] = Nil, !.black[n] = FALSE, !.last[n] = 0]

Idle == pc' = "idle" /\ node' = Nil /\ parent' = Nil
Fixup(loop, n, p) == pc' = loop /\ node' = n /\ parent' = p

-----------------------------------------------------------------------------
(* __rb_insert *)

Red(n) == n # Nil /\ ~tree.black[n]
SideOf(p, n) == IF n # tree.child["right"][p] THEN "left" ELSE "right"

InsertAtRoot ==
  /\ pc = "insert" /\ parent = Nil
  /\ tree' = Blacken(tree, node)
  /\ Idle

InsertUnderBlack ==
  /\ pc = "insert" /\ parent # Nil /\ tree.black[parent]
  /\ Idle
  /\ UNCHANGED tree

GParent == tree.parent[parent]
Uncle == tree.child[Other(SideOf(GParent, parent))][GParent]

(* Case 1, the uncle is red: the grandparent is the next node.             *)
InsertFlip ==
  /\ pc = "insert" /\ Red(parent) /\ Red(Uncle)
  /\ tree' = [tree EXCEPT !.black = [@ EXCEPT ![Uncle] = TRUE, ![parent] = TRUE,
                                              ![GParent] = FALSE]]
  /\ Fixup("insert", GParent, tree.parent[GParent])

(* Case 2: node takes the place of its parent if it is the inner child.    *)
InnerCase(d) ==
  IF node = tree.child[Other(d)][parent]
  THEN LET inner == tree.child[d][node]
           turned == Blacken(Swing(tree, d, parent, node), inner)
           linked == [turned EXCEPT !.parent[parent] = node, !.black[parent] = FALSE]
       IN  [tree |-> Rotate(linked, parent, node), top |-> node]
  ELSE [tree |-> tree, top |-> parent]

(* Case 3, after case 2 if need be: the grandparent turns to the far side. *)
InsertTurn ==
  /\ pc = "insert" /\ Red(parent) /\ ~Red(Uncle)
  /\ LET g == GParent
         d == SideOf(g, parent)
         t == InnerCase(d).tree
         top == InnerCase(d).top
         turned == Blacken(Swing(t, Other(d), g, top), t.child[Other(d)][top])
     IN  tree' = Rotate(RotateSetParents(turned, g, top, FALSE), g, top)
  /\ Idle

-----------------------------------------------------------------------------
(* __rb_erase_augmented: what is left without n, and where black nodes are *)
(* now missing.                                                            *)

(* Case 1: n has at most one child, which takes its place and its colour.  *)
EraseOuter(n) ==
  LET p == tree.parent[n]
      below == IF tree.child["left"][n] = Nil THEN tree.child["right"][n]
                                              ELSE tree.child["left"][n]
      t == SetParent(ChangeChild(tree, n, below, p), below, p)
  IN  [tree |-> Propagate(IF below = Nil THEN t
                          ELSE [t EXCEPT !.black[below] = tree.black[n]], p, Nil),
       rebalance |-> IF below = Nil /\ tree.black[n] THEN p ELSE Nil]

(* Cases 2 and 3: the next node, s, leaves its child c2 behind, if it is   *)
(* not itself the child of n, and takes the place of n.                    *)
Leave(t, n, s, p, c2) ==
  LET r == t.child["right"][n]
  IN  IF s = r THEN Copy(t, n, s)
      ELSE Propagate(Copy([t EXCEPT !.child["left"][p] = c2, !.child["right"][s] = r,
                                    !.parent[r] = s], n, s), p, s)

EraseInner(n) ==
  LET s == Outermost(tree, tree.child["right"][n], "left")
      p == IF s = tree.child["right"][n] THEN s ELSE tree.parent[s]
      c2 == tree.child["right"][s]
      l == tree.child["left"][n]
      q == tree.parent[n]
      t == ChangeChild([Leave(tree, n, s, p, c2) EXCEPT !.child["left"][s] = l,
                                                        !.parent[l] = s], n, s, q)
      u == [Blacken(SetParent(t, c2, p), c2) EXCEPT !.parent[s] = q,
                                                   !.black[s] = tree.black[n]]
  IN  [tree |-> Propagate(u, s, Nil),
       rebalance |-> IF c2 = Nil /\ tree.black[s] THEN p ELSE Nil]

LeftmostWithout(n) ==
  IF tree.leftmost = n THEN Neighbour(tree, n, "right") ELSE tree.leftmost

(* rb_erase_cached, rb_erase_augmented_cached *)
Erase(n) ==
  /\ pc = "idle" /\ InTree(n)
  /\ LET outer == \E d \in Side : tree.child[d][n] = Nil
         result == IF outer THEN EraseOuter(n) ELSE EraseInner(n)
     IN  /\ tree' = [Unlink(result.tree, n) EXCEPT !.leftmost = LeftmostWithout(n)]
         /\ IF result.rebalance = Nil THEN Idle
                                      ELSE Fixup("erase", Nil, result.rebalance)

-----------------------------------------------------------------------------
(* ____rb_erase_color *)

(* node, which is Nil at first, is on side d of parent. *)
D == IF node # tree.child["right"][parent] THEN "left" ELSE "right"
Sibling == tree.child[Other(D)][parent]
Far == tree.child[Other(D)][Sibling]
Near == tree.child[D][Sibling]

(* Case 1, the sibling is red: it turns up, and the loop goes on with its  *)
(* inner child for a sibling.                                              *)
EraseSibling ==
  /\ pc = "erase" /\ Red(Sibling)
  /\ LET turned == Blacken(Swing(tree, D, parent, Sibling), Near)
     IN  tree' = Rotate(RotateSetParents(turned, parent, Sibling, FALSE), parent, Sibling)
  /\ UNCHANGED <<pc, node, parent>>

(* Case 2, no red nephew: the sibling turns red, and what is missing below *)
(* parent is made good by parent, or missing below its own parent.         *)
(* Mistaken: the loop ends although the parent is black. *)
EraseFlipOnce ==
  /\ pc = "erase" /\ ~Red(Sibling) /\ ~Red(Far) /\ ~Red(Near)
  /\ tree' = [tree EXCEPT !.black = [@ EXCEPT ![Sibling] = FALSE, ![parent] = TRUE]]
  /\ Idle

EraseFlip ==
  /\ pc = "erase" /\ ~Red(Sibling) /\ ~Red(Far) /\ ~Red(Near)
  /\ tree' = [tree EXCEPT !.black = [@ EXCEPT ![Sibling] = FALSE, ![parent] = TRUE]]
  /\ IF Red(parent) \/ tree.parent[parent] = Nil
       THEN Idle ELSE Fixup("erase", parent, tree.parent[parent])

(* Case 3: a red nephew on the near side comes between parent and sibling. *)
NearCase ==
  IF Red(Far) THEN [tree |-> tree, sibling |-> Sibling, far |-> Far]
  ELSE LET inner == tree.child[Other(D)][Near]
           turned == Blacken(Swing(tree, Other(D), Sibling, Near), inner)
           linked == [turned EXCEPT !.child[Other(D)][parent] = Near]
       IN  [tree |-> Rotate(linked, Sibling, Near), sibling |-> Near, far |-> Sibling]

(* Case 4, after case 3 if need be: parent turns to the side of node.      *)
EraseTurn ==
  /\ pc = "erase" /\ ~Red(Sibling) /\ (Red(Far) \/ Red(Near))
  /\ LET s == NearCase.sibling
         turned == Swing(NearCase.tree, D, parent, s)
         far == [turned EXCEPT !.parent[NearCase.far] = s, !.black[NearCase.far] = TRUE]
     IN  tree' = Rotate(RotateSetParents(far, parent, s, TRUE), parent, s)
  /\ Idle

-----------------------------------------------------------------------------
(* rb_replace_node_cached *)
ReplaceNode(old, new) ==
  /\ pc = "idle" /\ InTree(old) /\ ~InTree(new)
  /\ LET l == tree.child["left"][old]
         r == tree.child["right"][old]
         copied == [tree EXCEPT
                      !.child = [d \in Side |-> [@[d] EXCEPT ![new] = tree.child[d][old]]],
                      !.parent[new] = tree.parent[old],
                      !.black[new] = tree.black[old],
                      !.last[new] = tree.last[old],
                      !.leftmost = IF @ = old THEN new ELSE @]
         moved == SetParent(SetParent(copied, l, new), r, new)
     IN  tree' = Unlink(ChangeChild(moved, old, new, tree.parent[old]), old)
  /\ UNCHANGED <<pc, node, parent>>

Rebalance ==
  \/ InsertAtRoot \/ InsertUnderBlack \/ InsertFlip \/ InsertTurn
  \/ EraseSibling \/ EraseFlip \/ EraseTurn

-----------------------------------------------------------------------------
(* Invariants *)

(* Each way out of the tree, <<n, d>> with no child of n on side d, the    *)
(* length of the path to it, and the number of black nodes on that path.   *)
Exits == {e \in Linked \X Side : tree.child[e[2]][e[1]] = Nil}
Depth(e) == Len(Upwards(tree, e[1], Nil))
Blacks(e) == Cardinality({m \in ToSet(Upwards(tree, e[1], Nil)) : tree.black[m]})

Same(values) == Cardinality(values) <= 1
RedInOrder(n) == Red(n) => n # tree.root /\ tree.black[tree.parent[n]]

(* rb_next and rb_prev, which find their way by the parent pointers, visit *)
(* every node of the tree in order, from either end.                       *)
WalksAgree ==
  LET s == InOrder(tree)
  IN  \A k \in 1..Len(s) :
        /\ Neighbour(tree, s[k], "right") = IF k = Len(s) THEN Nil ELSE s[k + 1]
        /\ Neighbour(tree, s[k], "left") = IF k = 1 THEN Nil ELSE s[k - 1]

(* Every node but the root is a child of the node its parent pointer has,  *)
(* on one side only, and all can be reached from the root: what the        *)
(* pointers of rotations and erasures must not lose, in the middle of a    *)
(* rebalancing too (rbtree.c: "we must not inadvertently cause (temporary) *)
(* loops in the tree structure").  So walks by parents and by children     *)
(* agree, and rb_leftmost, which is kept up to date without looking at the *)
(* tree again, is the first node.                                          *)
LinksAgree ==
  /\ tree.root # Nil => tree.parent[tree.root] = Nil
  /\ \A n \in Linked, d \in Side :
       tree.child[d][n] # Nil => /\ tree.parent[tree.child[d][n]] = n
                                 /\ tree.child[d][n] # tree.child[Other(d)][n]
  /\ \A n \in Linked \ {tree.root} : \E d \in Side : tree.child[d][tree.parent[n]] = n
  /\ \A n \in Linked : tree.root \in ToSet(Upwards(tree, n, Nil))
  /\ WalksAgree
  /\ tree.leftmost = IF tree.root = Nil THEN Nil ELSE InOrder(tree)[1]

(* The rules at the head of rbtree.c, 2, 4 and 5, between any two calls,   *)
(* and the bound on the length of a path that follows from them.           *)
Rules ==
  pc = "idle" =>
    /\ tree.root # Nil => tree.black[tree.root]
    /\ \A n \in Linked : RedInOrder(n)
    /\ Same({Blacks(e) : e \in Exits})
    /\ LET depths == {Depth(e) : e \in Exits}
       IN  depths # {} => Max(depths) <= 2 * Min(depths)

(* The loop invariant of __rb_insert: node is red; and it is the only node *)
(* that may break a rule, by a red parent or by being the root.            *)
InsertLoop ==
  pc = "insert" =>
    /\ Red(node) /\ parent = tree.parent[node]
    /\ \A n \in Linked \ {node} : RedInOrder(n)
    /\ Same({Blacks(e) : e \in Exits})

(* The loop invariants of ____rb_erase_color: node is black (or NULL), it  *)
(* is not the root, and the paths through it, and no others, are one black *)
(* node short.  So the sibling, of which the code reads the colour and the *)
(* children without a test, exists, and so do the children of a red one.   *)
EraseLoop ==
  LET short(e) == IF node = Nil THEN e = <<parent, D>>
                  ELSE node \in ToSet(Upwards(tree, e[1], Nil))
  IN  pc = "erase" =>
        /\ ~Red(node) /\ (node # Nil => parent = tree.parent[node])
        /\ parent # Nil /\ Sibling # Nil
        /\ Red(Sibling) => Near # Nil /\ Far # Nil
        /\ \A n \in Linked : RedInOrder(n)
        /\ Same({Blacks(e) + (IF short(e) THEN 1 ELSE 0) : e \in Exits})

(* The tree keeps the rules of red-black trees between two calls, and the  *)
(* invariants that rbtree.c states for its loops in every round of them.   *)
RedBlack == Rules /\ InsertLoop /\ EraseLoop
=============================================================================
