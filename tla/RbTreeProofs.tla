---------------------------- MODULE RbTreeProofs ----------------------------
(***************************************************************************)
(* For any set of nodes: no step of an insertion, an erasure or of the     *)
(* rebalancing after them loses a node or leaves a pointer behind, and the *)
(* rules of red-black trees and the invariants of the loops hold.          *)
(*                                                                         *)
(* What the properties say of paths is defined by recursion over the tree. *)
(* Shape and Paths say it locally, with two witnesses: the nodes below     *)
(* each node, and the number of black nodes on every path down from it.    *)
(***************************************************************************)
EXTENDS RbTree, ListsProofs


(* The fields of a tree, and what they may hold.                           *)
Trees ==
  [root : Node \cup {Nil}, leftmost : Node \cup {Nil},
   child : [Side -> [Node -> Node \cup {Nil}]], parent : [Node -> Node \cup {Nil}],
   black : [Node -> BOOLEAN], last : [Node -> Int]]

-----------------------------------------------------------------------------
(* What the operations on links do, field by field                         *)

(* There are two sides, each the other of the other.                       *)
LEMMA Sides ==
  /\ Side = {"left", "right"} /\ \A d \in Side : Other(d) \in Side /\ Other(d) # d
  /\ \A d, e \in Side : e = d \/ e = Other(d)
BY DEF Side, Other

(* Only the parent of n is another, p.                                     *)
ParentSet(t, u, n, p) ==
  /\ u \in Trees /\ u.root = t.root /\ u.leftmost = t.leftmost
  /\ u.child = t.child /\ u.black = t.black /\ u.last = t.last
  /\ \A m \in Node : u.parent[m] = IF m = n THEN p ELSE t.parent[m]

(* rb_set_parent, which does nothing to NULL.                              *)
LEMMA SetParentFields ==
  ASSUME NEW t \in Trees, NEW n \in Node \cup {Nil}, NEW p \in Node \cup {Nil}
  PROVE  ParentSet(t, SetParent(t, n, p), n, p)
BY Zenon, RbTreeConstants DEF Trees, SetParent, ParentSet

(* Only n has become black.                                                *)
Blackened(t, u, n) ==
  /\ u \in Trees /\ u.root = t.root /\ u.leftmost = t.leftmost
  /\ u.child = t.child /\ u.parent = t.parent /\ u.last = t.last
  /\ \A m \in Node : u.black[m] = (m = n \/ t.black[m])

(* rb_set_black, which does nothing to NULL.                               *)
LEMMA BlackenFields ==
  ASSUME NEW t \in Trees, NEW n \in Node \cup {Nil}
  PROVE  Blackened(t, Blacken(t, n), n)
BY Zenon, RbTreeConstants DEF Trees, Blacken, Blackened

(* The pointer to old, at p or at the root, goes to new.                   *)
ChildChanged(t, u, old, new, p) ==
  /\ u \in Trees /\ u.root = (IF p = Nil THEN new ELSE t.root)
  /\ u.leftmost = t.leftmost
  /\ u.parent = t.parent /\ u.black = t.black /\ u.last = t.last
  /\ \A e \in Side, m \in Node :
       u.child[e][m] = IF m = p /\ e = (IF t.child["left"][p] = old THEN "left" ELSE "right")
                       THEN new ELSE t.child[e][m]

(* __rb_change_child.                                                      *)
LEMMA ChangeChildFields ==
  ASSUME NEW t \in Trees, NEW old \in Node, NEW new \in Node \cup {Nil},
         NEW p \in Node \cup {Nil}
  PROVE  ChildChanged(t, ChangeChild(t, old, new, p), old, new, p)
BY Zenon, RbTreeConstants DEF Trees, ChangeChild, Side, ChildChanged

(* n and b have turned to side d; nothing above them knows.                *)
Swung(t, u, d, n, b) ==
  /\ u \in Trees /\ u.root = t.root /\ u.leftmost = t.leftmost
  /\ u.black = t.black /\ u.last = t.last
  /\ \A e \in Side, m \in Node :
       u.child[e][m] = IF e = Other(d) /\ m = n THEN t.child[d][b]
                       ELSE IF e = d /\ m = b THEN n ELSE t.child[e][m]
  /\ \A m \in Node : u.parent[m] = IF m = t.child[d][b] THEN n ELSE t.parent[m]

(* The pointers between n, its child b and the subtree that changes hands. *)
LEMMA SwingFields ==
  ASSUME NEW t \in Trees, NEW d \in Side, NEW n \in Node, NEW b \in Node
  PROVE  Swung(t, Swing(t, d, n, b), d, n, b)
<1> DEFINE inner == t.child[d][b]
           w == [t EXCEPT !.child = [@ EXCEPT ![Other(d)][n] = inner, ![d][b] = n]]
<1>1. inner \in Node \cup {Nil} /\ Other(d) \in Side /\ Other(d) # d
  BY Sides DEF Trees
<1>2. PICK v : v = w
  BY Zenon
<1>3. /\ v \in Trees /\ v.root = t.root /\ v.leftmost = t.leftmost
      /\ v.black = t.black /\ v.last = t.last /\ v.parent = t.parent
      /\ \A e \in Side, m \in Node :
           v.child[e][m] = IF e = Other(d) /\ m = n THEN inner
                           ELSE IF e = d /\ m = b THEN n ELSE t.child[e][m]
  BY Zenon, <1>1, <1>2 DEF Trees
<1>4. PICK u : u = SetParent(v, inner, n)
  OBVIOUS
<1>5. Swing(t, d, n, b) = u
  BY <1>2, <1>4 DEF Swing
<1>6. ParentSet(v, u, inner, n)
  BY <1>1, <1>3, <1>4, SetParentFields
<1>7. Swung(t, u, d, n, b)
  BY <1>3, <1>6 DEF ParentSet, Swung
<1> QED BY <1>5, <1>7

(* new has taken over parent and colour of old, and is its parent.         *)
HeadTurned(t, u, old, new, black) ==
  /\ u \in Trees /\ u.root = (IF t.parent[old] = Nil THEN new ELSE t.root)
  /\ u.leftmost = t.leftmost /\ u.last = t.last
  /\ \A e \in Side, m \in Node :
       u.child[e][m] =
         IF /\ m = t.parent[old]
            /\ e = (IF t.child["left"][t.parent[old]] = old THEN "left" ELSE "right")
         THEN new ELSE t.child[e][m]
  /\ \A m \in Node : u.parent[m] = IF m = old THEN new
                                   ELSE IF m = new THEN t.parent[old] ELSE t.parent[m]
  /\ \A m \in Node : u.black[m] = IF m = old THEN black
                                  ELSE IF m = new THEN t.black[old] ELSE t.black[m]

(* __rb_rotate_set_parents.                                                *)
LEMMA RotateSetParentsFields ==
  ASSUME NEW t \in Trees, NEW old \in Node, NEW new \in Node, old # new,
         NEW black \in BOOLEAN
  PROVE  HeadTurned(t, RotateSetParents(t, old, new, black), old, new, black)
<1> DEFINE p == t.parent[old]
           w == [t EXCEPT !.parent = [@ EXCEPT ![new] = p, ![old] = new],
                          !.black = [@ EXCEPT ![new] = t.black[old], ![old] = black]]
<1>1. p \in Node \cup {Nil}
  BY DEF Trees
<1>2. PICK v : v = w
  OBVIOUS
<1>3. /\ v \in Trees /\ v.root = t.root /\ v.leftmost = t.leftmost
      /\ v.child = t.child /\ v.last = t.last
      /\ \A m \in Node : v.parent[m] = IF m = old THEN new
                                       ELSE IF m = new THEN p ELSE t.parent[m]
      /\ \A m \in Node : v.black[m] = IF m = old THEN black
                                      ELSE IF m = new THEN t.black[old] ELSE t.black[m]
  BY Zenon, <1>1, <1>2 DEF Trees
<1>4. PICK u : u = ChangeChild(v, old, new, p)
  OBVIOUS
<1>5. u = RotateSetParents(t, old, new, black)
  BY <1>2, <1>4 DEF RotateSetParents
<1>6. ChildChanged(v, u, old, new, p)
  BY <1>1, <1>3, <1>4, ChangeChildFields
<1>7. HeadTurned(t, u, old, new, black)
  BY <1>3, <1>6 DEF ChildChanged, HeadTurned
<1> QED BY <1>5, <1>7

(* The greatest of the ends at a node and its children.                    *)
LEMMA ComputeMaxType ==
  ASSUME NEW t \in Trees, NEW n \in Node
  PROVE  /\ ComputeMax(t, n) \in Int /\ ComputeMax(t, n) >= LAST[n]
         /\ \A d \in Side :
              t.child[d][n] # Nil => ComputeMax(t, n) >= t.last[t.child[d][n]]
         /\ \/ ComputeMax(t, n) = LAST[n]
            \/ \E d \in Side : t.child[d][n] # Nil /\ ComputeMax(t, n) = t.last[t.child[d][n]]
<1> DEFINE v(d) == t.last[t.child[d][n]]
           S == {LAST[n]} \cup {v(d) : d \in {e \in Side : t.child[e][n] # Nil}}
<1>1. LAST[n] \in Int /\ \A d \in Side : t.child[d][n] # Nil => v(d) \in Int
  BY RbTreeConstants DEF Trees
<1>2. \A x \in S : x = LAST[n] \/ \E d \in Side : t.child[d][n] # Nil /\ x = v(d)
  OBVIOUS
<1>3. \A d \in Side : t.child[d][n] # Nil => v(d) \in S
  OBVIOUS
<1>4. LAST[n] \in S
  OBVIOUS
<1> HIDE DEF v, S
<1>5. \E x \in S : \A y \in S : x >= y
  <2>1. PICK a, b, c : a \in Int /\ a = LAST[n] /\ b = v("left") /\ c = v("right")
    BY <1>1
  <2>2. /\ a \in S /\ \A x \in S : x \in Int /\ (x = a \/ x = b \/ x = c)
    BY <1>1, <1>2, <1>4, <2>1, Sides
  <2>3. CASE b \notin S /\ c \notin S
    BY <2>2, <2>3
  <2>4. CASE b \in S /\ c \notin S
    <3>1. b <= a \/ a <= b
      BY <2>2, <2>4
    <3> QED BY <2>2, <2>4, <3>1
  <2>5. CASE b \notin S /\ c \in S
    <3>1. c <= a \/ a <= c
      BY <2>2, <2>5
    <3> QED BY <2>2, <2>5, <3>1
  <2>6. CASE b \in S /\ c \in S
    <3>1. (b <= a /\ c <= a) \/ (a <= b /\ c <= b) \/ (a <= c /\ b <= c)
      BY <2>2, <2>6
    <3> QED BY <2>2, <2>6, <3>1
  <2> QED BY <2>3, <2>4, <2>5, <2>6
<1>6. Max(S) \in S /\ \A y \in S : Max(S) >= y
  BY <1>5 DEF Max
<1>7. ComputeMax(t, n) = Max(S)
  BY DEF ComputeMax, S, v
<1> QED BY <1>1, <1>2, <1>3, <1>4, <1>6, <1>7 DEF v

(* Nothing but the ends may be others.                                     *)
OnlyLast(t, u) ==
  /\ u \in Trees /\ u.root = t.root /\ u.leftmost = t.leftmost
  /\ u.child = t.child /\ u.parent = t.parent /\ u.black = t.black

(* The callback copy, which passes on an end.                              *)
LEMMA CopyFields ==
  ASSUME NEW t \in Trees, NEW old \in Node, NEW new \in Node
  PROVE  OnlyLast(t, Copy(t, old, new))
BY Zenon DEF Copy, Trees, OnlyLast

(* The callback rotate, which passes on one end and computes the other.    *)
LEMMA RotateFields ==
  ASSUME NEW t \in Trees, NEW old \in Node, NEW new \in Node
  PROVE  OnlyLast(t, Rotate(t, old, new))
<1>1. PICK v : v = Copy(t, old, new)
  OBVIOUS
<1>2. OnlyLast(t, v)
  BY <1>1, CopyFields
<1>3. CASE Augmented
  <2>1. PICK k : k = ComputeMax(v, old)
    OBVIOUS
  <2>2. Rotate(t, old, new) = [v EXCEPT !.last[old] = k]
    BY <1>1, <1>3, <2>1 DEF Rotate
  <2>3. k \in Int
    BY <1>2, <2>1, ComputeMaxType DEF OnlyLast
  <2> QED BY <1>2, <2>2, <2>3 DEF Trees, OnlyLast
<1>4. CASE ~Augmented
  BY <1>1, <1>2, <1>4 DEF Rotate
<1> QED BY <1>3, <1>4

-----------------------------------------------------------------------------
(* The shape of a tree                                                     *)

(* The nodes in the tree.                                                  *)
In(t) == {n \in Node : n = t.root \/ t.parent[n] # Nil}

(* Every child has its parent for a parent, and every parent its child for *)
(* a child; nodes outside the tree have no links.                          *)
Links(t) ==
  /\ t.root # Nil => t.parent[t.root] = Nil
  /\ \A n \in Node, d \in Side :
       t.child[d][n] # Nil => /\ t.parent[t.child[d][n]] = n
                              /\ t.child[d][n] # t.child[Other(d)][n]
  /\ \A n \in Node : t.parent[n] # Nil => \E d \in Side : t.child[d][t.parent[n]] = n
  /\ \A n \in Node, d \in Side : n \notin In(t) => t.child[d][n] = Nil

(* below[n] are the nodes of the subtree of n, and of no other one.        *)
Subtrees(t, below) ==
  /\ below \in [Node \cup {Nil} -> SUBSET Node]
  /\ below[Nil] = {} /\ below[t.root] = In(t) /\ IsFiniteSet(In(t))
  /\ \A n \in Node :
       below[n] = {n} \cup below[t.child["left"][n]] \cup below[t.child["right"][n]]
  /\ \A n \in Node, d \in Side :
       /\ n \notin below[t.child[d][n]]
       /\ \A m \in below[t.child[d][n]] : m \notin below[t.child[Other(d)][n]]
  /\ \A n \in In(t) : \A m \in below[n] : m \in In(t)

(* The tree is one: pointers in both directions agree, and every subtree   *)
(* is its head and two subtrees that share no node.                        *)
Shape(t, below) == t \in Trees /\ Links(t) /\ Subtrees(t, below)

(* Nil is not in the tree.                                                 *)
LEMMA InNode ==
  ASSUME NEW t, NEW n \in In(t)
  PROVE  n \in Node /\ n # Nil
BY RbTreeConstants DEF In

(* The children of a node are in the tree, and less is below them.         *)
LEMMA ChildFacts ==
  ASSUME NEW t, NEW below, Shape(t, below), NEW n \in Node, NEW d \in Side,
         t.child[d][n] # Nil
  PROVE  /\ t.child[d][n] \in Node /\ n \in In(t)
         /\ t.child[d][n] \in In(t) /\ t.child[d][n] # t.root
         /\ t.child[d][n] # n /\ t.parent[t.child[d][n]] = n
         /\ \A m \in below[t.child[d][n]] : m \in below[n]
         /\ t.child[d][n] \in below[t.child[d][n]]
<1>1. n \in Node /\ t.child[d][n] \in Node /\ t.parent[t.child[d][n]] = n /\ n # Nil
  BY RbTreeConstants DEF Shape, Links, In, Trees
<1>2. t.child[d][n] # t.root /\ n \in In(t)
  BY <1>1 DEF Shape, Links
<1>3. t.child[d][n] \in In(t)
  BY <1>1 DEF In
<1>4. \A m \in below[t.child[d][n]] : m \in below[n]
  BY <1>1 DEF Shape, Subtrees, Side
<1>5. t.child[d][n] \in below[t.child[d][n]]
  BY <1>1 DEF Shape, Subtrees
<1>6. t.child[d][n] # n
  BY <1>1, <1>5 DEF Shape, Subtrees
<1> QED BY <1>1, <1>2, <1>3, <1>4, <1>5, <1>6

(* The same of a child that has a name.                                    *)
LEMMA ChildIs ==
  ASSUME NEW t, NEW below, Shape(t, below), NEW n \in Node, NEW d \in Side,
         NEW c, c = t.child[d][n], c # Nil
  PROVE  /\ c \in Node /\ n \in In(t) /\ c \in In(t) /\ c # t.root
         /\ c # n /\ t.parent[c] = n /\ c \in below[c] /\ \A m \in below[c] : m \in below[n]
<1>1. t.child[d][n] # Nil
  OBVIOUS
<1>2. /\ t.child[d][n] \in Node /\ n \in In(t)
      /\ t.child[d][n] \in In(t) /\ t.child[d][n] # t.root
      /\ t.child[d][n] # n /\ t.parent[t.child[d][n]] = n
      /\ \A m \in below[t.child[d][n]] : m \in below[n]
      /\ t.child[d][n] \in below[t.child[d][n]]
  BY Zenon, <1>1, ChildFacts
<1> QED BY SMTT(30), <1>2

(* All nodes but the root have a parent in the tree, whose child they are. *)
LEMMA ParentFacts ==
  ASSUME NEW t, NEW below, Shape(t, below), NEW n \in In(t), n # t.root
  PROVE  /\ t.parent[n] \in Node /\ t.parent[n] # Nil /\ t.parent[n] \in In(t)
         /\ \E d \in Side : t.child[d][t.parent[n]] = n
<1>1. n \in Node /\ t.parent[n] \in Node /\ t.parent[n] # Nil /\ n # Nil
  BY RbTreeConstants DEF Shape, In, Trees
<1>2. PICK d \in Side : t.child[d][t.parent[n]] = n
  BY <1>1 DEF Shape, Links
<1>3. t.parent[n] \in In(t)
  BY <1>1, <1>2, ChildFacts
<1> QED BY <1>1, <1>2, <1>3

(* A node is a child of one node, on one side.                             *)
LEMMA OneParent ==
  ASSUME NEW t, NEW below, Shape(t, below), NEW n \in Node, NEW m \in Node,
         NEW d \in Side, NEW e \in Side,
         t.child[d][n] # Nil, t.child[d][n] = t.child[e][m]
  PROVE  n = m /\ d = e
<1>1. n = m
  BY ChildFacts
<1>2. e = d \/ e = Other(d)
  BY Sides
<1> QED BY <1>1, <1>2 DEF Shape, Links

(* The same of a child that has a name.                                    *)
LEMMA OneParentIs ==
  ASSUME NEW t, NEW below, Shape(t, below), NEW n \in Node, NEW m \in Node,
         NEW d \in Side, NEW e \in Side, NEW c, c # Nil, c = t.child[d][n], c = t.child[e][m]
  PROVE  n = m /\ d = e
<1>1. t.child[d][n] # Nil
  OBVIOUS
<1>2. t.child[d][n] = t.child[e][m]
  OBVIOUS
<1> QED BY SMTT(30), <1>1, <1>2, OneParent

(* So fewer nodes are below a child than below its parent.                 *)
LEMMA Smaller ==
  ASSUME NEW t, NEW below, Shape(t, below), NEW n \in In(t)
  PROVE  /\ Cardinality(below[n]) \in Nat /\ Cardinality(In(t)) \in Nat
         /\ Cardinality(below[n]) <= Cardinality(In(t))
         /\ \A d \in Side :
              t.child[d][n] # Nil =>
                /\ Cardinality(below[t.child[d][n]]) \in Nat
                /\ Cardinality(below[t.child[d][n]]) < Cardinality(below[n])
<1>0. n \in Node /\ n \in below[n]
  BY DEF In, Shape, Subtrees
<1>1. IsFiniteSet(In(t)) /\ below[n] \in SUBSET In(t)
  BY DEF Shape, Subtrees
<1>2. IsFiniteSet(below[n])
  BY <1>1, FS_Subset
<1>3. /\ Cardinality(below[n]) \in Nat /\ Cardinality(In(t)) \in Nat
      /\ Cardinality(below[n]) <= Cardinality(In(t))
  BY <1>1, <1>2, FS_Subset, FS_CardinalityType
<1>4. ASSUME NEW d \in Side, t.child[d][n] # Nil
      PROVE  /\ Cardinality(below[t.child[d][n]]) \in Nat
             /\ Cardinality(below[t.child[d][n]]) < Cardinality(below[n])
  <2> DEFINE S == below[n]
             T == below[t.child[d][n]]
  <2>1. n \notin T /\ T \in SUBSET S /\ n \in S
    BY Zenon, <1>0, <1>4, ChildFacts DEF Shape, Subtrees
  <2>2. IsFiniteSet(S) /\ Cardinality(S) \in Nat
    BY <1>2, <1>3
  <2> HIDE DEF S, T
  <2>3. /\ IsFiniteSet(T) /\ Cardinality(T) <= Cardinality(S)
        /\ Cardinality(S) = Cardinality(T) => S = T
    BY <2>1, <2>2, FS_Subset
  <2>4. Cardinality(T) \in Nat /\ Cardinality(T) < Cardinality(S)
    BY <2>1, <2>2, <2>3, FS_CardinalityType
  <2> QED BY <2>4 DEF S, T
<1> QED BY <1>3, <1>4

(* Going down from a node of a set, one comes to a node of it without a    *)
(* child in it; this is induction from the leaves up.                      *)
LEMMA LowestOf ==
  ASSUME NEW t, NEW below, Shape(t, below), NEW B, B \subseteq In(t), B # {}
  PROVE  \E n \in B : \A d \in Side : t.child[d][n] \notin B
<1> DEFINE sizes == {Cardinality(below[n]) : n \in B}
           m == Min(sizes)
<1>1. sizes \in SUBSET Nat /\ sizes # {}
  BY Smaller
<1>2. m \in sizes /\ \A k \in sizes : m <= k
  BY Zenon, <1>1, LeastElement
<1> HIDE DEF m
<1>3. PICK n \in B : m = Cardinality(below[n])
  BY <1>2
<1>4. ASSUME NEW d \in Side, t.child[d][n] \in B PROVE FALSE
  <2>1. t.child[d][n] # Nil /\ n \in In(t)
    BY <1>4, InNode
  <2>2. /\ Cardinality(below[t.child[d][n]]) \in Nat /\ m \in Nat
        /\ Cardinality(below[t.child[d][n]]) < m
    BY <1>3, <2>1, Smaller
  <2>3. Cardinality(below[t.child[d][n]]) \in sizes
    BY <1>4
  <2> HIDE DEF sizes
  <2> QED BY <1>2, <2>2, <2>3
<1> QED BY <1>4

(* Going up from a node of a set, one comes to a node of it whose parent   *)
(* is not in it: induction from the root down.                             *)
LEMMA HighestOf ==
  ASSUME NEW t, NEW below, Shape(t, below), NEW B, B \subseteq In(t), B # {}
  PROVE  \E n \in B : n = t.root \/ (t.parent[n] \in In(t) /\ t.parent[n] \notin B)
<1> DEFINE sizes == {Cardinality(In(t)) - Cardinality(below[n]) : n \in B}
           m == Min(sizes)
<1>1. sizes \in SUBSET Nat /\ sizes # {}
  BY Smaller
<1>2. m \in sizes /\ \A k \in sizes : m <= k
  BY Zenon, <1>1, LeastElement
<1> HIDE DEF m
<1>3. PICK n \in B : m = Cardinality(In(t)) - Cardinality(below[n])
  BY <1>2
<1>4. ASSUME n # t.root, t.parent[n] \in B PROVE FALSE
  <2>1. PICK d \in Side : t.child[d][t.parent[n]] = n
    BY <1>4, ParentFacts
  <2>2. n # Nil /\ t.parent[n] \in In(t)
    BY <1>4, InNode
  <2>3. /\ Cardinality(below[n]) \in Nat /\ Cardinality(below[t.parent[n]]) \in Nat
        /\ Cardinality(In(t)) \in Nat
        /\ Cardinality(below[n]) < Cardinality(below[t.parent[n]])
    BY <1>4, <2>1, <2>2, Smaller
  <2>4. Cardinality(In(t)) - Cardinality(below[t.parent[n]]) \in sizes
    BY <1>4
  <2> HIDE DEF sizes
  <2> QED BY <1>2, <1>3, <2>3, <2>4
<1>5. n # t.root => t.parent[n] \in In(t)
  BY SMTT(30), ParentFacts
<1> QED BY <1>4, <1>5

-----------------------------------------------------------------------------
(* Rotations keep the shape                                                *)

(* n has turned to side d, below the child it had on the other one.        *)
Turned(t, u, d, n, b, i, p) ==
  /\ b = t.child[Other(d)][n] /\ i = t.child[d][b] /\ p = t.parent[n]
  /\ u \in Trees /\ u.root = (IF n = t.root THEN b ELSE t.root)
  /\ \A e \in Side, m \in Node :
       u.child[e][m] = IF e = Other(d) /\ m = n THEN i ELSE IF e = d /\ m = b THEN n
                       ELSE IF m = p /\ t.child[e][m] = n THEN b ELSE t.child[e][m]
  /\ \A m \in Node : u.parent[m] = IF m = b THEN p ELSE IF m = n THEN b
                                   ELSE IF m = i THEN n ELSE t.parent[m]

(* What is below each node then.                                           *)
TurnedBelow(t, below, d, n, b, i) ==
  [below EXCEPT ![b] = below[n], ![n] = {n} \cup below[t.child[d][n]] \cup below[i]]

(* The nodes at a rotation are different ones.                             *)
Around(t, d, n, b, i, p) ==
  /\ b = t.child[Other(d)][n] /\ i = t.child[d][b] /\ p = t.parent[n]
  /\ n \in In(t) /\ b \in Node /\ b \in In(t) /\ i \in Node \cup {Nil} /\ p \in Node \cup {Nil}
  /\ b # n /\ i # n /\ i # b /\ p # n /\ p # b /\ (p = i => p = Nil)
  /\ t.parent[b] = n /\ (i # Nil => t.parent[i] = b /\ i \in In(t))
  /\ b # t.root /\ (i # Nil => i # t.root) /\ (p = Nil <=> n = t.root)

(* They are different, and linked as the names say.                        *)
LEMMA TurnNodes ==
  ASSUME NEW t, NEW below, Shape(t, below), NEW d \in Side, NEW n \in Node,
         NEW b, NEW i, NEW p, b = t.child[Other(d)][n], i = t.child[d][b], p = t.parent[n],
         b # Nil
  PROVE  Around(t, d, n, b, i, p)
<1>1. PICK o \in Side : o = Other(d)
  BY Sides
<1>2. t.child[o][n] # Nil /\ b = t.child[o][n]
  BY <1>1
<1>3. /\ b \in Node /\ n \in In(t) /\ b \in In(t) /\ b # n /\ b # t.root /\ t.parent[b] = n
      /\ \A m \in below[b] : m \in below[n]
      /\ b \in below[b]
  BY <1>2, ChildFacts
<1>4. n \notin below[b]
  BY SMTT(30), <1>2 DEF Shape, Subtrees
<1>5. /\ i \in Node \cup {Nil}
      /\ i # Nil => /\ t.parent[i] = b /\ i # b /\ i # t.root /\ i \in below[i] /\ i \in In(t)
                    /\ \A m \in below[i] : m \in below[b]
  <2>1. b \in Node
    BY <1>3
  <2>2. i \in Node \cup {Nil}
    BY <2>1 DEF Shape, Trees
  <2>3. i # Nil => /\ t.parent[i] = b /\ i # b /\ i # t.root /\ i \in below[i] /\ i \in In(t)
                   /\ \A m \in below[i] : m \in below[b]
    BY <2>1, ChildIs
  <2> QED BY <2>2, <2>3
<1>6. i # n /\ i # b
  BY <1>3, <1>4, <1>5, RbTreeConstants
<1>7. /\ p \in Node \cup {Nil}
      /\ p # Nil => \E e \in Side : t.child[e][p] = n
  BY <1>3 DEF Shape, Links, Trees
<1>8. p # Nil => n \in below[p] /\ p # n /\ \A m \in below[n] : m \in below[p]
  <2> HAVE p # Nil
  <2>1. PICK e \in Side : t.child[e][p] = n
    BY <1>7
  <2>2. p \in Node /\ t.child[e][p] # Nil
    BY <1>7, <2>1, RbTreeConstants
  <2>3. t.child[e][p] # p /\ t.child[e][p] \in below[t.child[e][p]]
        /\ \A m \in below[t.child[e][p]] : m \in below[p]
    BY <2>2, ChildFacts
  <2> QED BY <2>1, <2>3
<1>9. p # Nil => p # b
  BY <1>4, <1>8
<1>10. p # Nil => p # i
  BY <1>4, <1>5, <1>8
<1>11. p = Nil <=> n = t.root
  BY <1>3, RbTreeConstants DEF Shape, Links, In
<1> QED BY <1>3, <1>5, <1>6, <1>7, <1>8, <1>9, <1>10, <1>11, RbTreeConstants DEF Around

(* The same for a rotation that has been made.                             *)
LEMMA TurnedAround ==
  ASSUME NEW t, NEW below, Shape(t, below), NEW d \in Side, NEW n \in Node,
         NEW u, NEW b, NEW i, NEW p, Turned(t, u, d, n, b, i, p), b # Nil
  PROVE  Around(t, d, n, b, i, p)
<1>1. b = t.child[Other(d)][n] /\ i = t.child[d][b] /\ p = t.parent[n]
  BY DEF Turned
<1> QED BY <1>1, TurnNodes

(* A rotation keeps the nodes of the tree.                                 *)
LEMMA TurnKeepsIn ==
  ASSUME NEW t, NEW below, Shape(t, below), NEW d \in Side, NEW n \in Node,
         NEW u, NEW b, NEW i, NEW p, Turned(t, u, d, n, b, i, p), b # Nil
  PROVE  \A m \in Node : m \in In(u) <=> m \in In(t)
<1>0. Around(t, d, n, b, i, p)
  BY TurnedAround
<1>1. /\ b \in Node /\ n \in In(t) /\ b \in In(t) /\ b # n /\ i \in Node \cup {Nil}
      /\ i # n /\ i # b /\ p \in Node \cup {Nil} /\ p # n /\ p # b /\ (p = i => p = Nil)
      /\ t.parent[b] = n /\ (i # Nil => t.parent[i] = b)
      /\ (p = Nil <=> n = t.root)
  BY <1>0 DEF Around
<1> QED BY SMTT(30), <1>1, RbTreeConstants DEF Turned, In

(* After a rotation pointers in both directions agree again.               *)
LEMMA TurnKeepsLinks ==
  ASSUME NEW t, NEW below, Shape(t, below), NEW d \in Side, NEW n \in Node,
         NEW u, NEW b, NEW i, NEW p, Turned(t, u, d, n, b, i, p), b # Nil
  PROVE  Links(u)
<1>0. Around(t, d, n, b, i, p)
  BY TurnedAround
<1>1. /\ b \in Node /\ n \in In(t) /\ b \in In(t) /\ b # n /\ i \in Node \cup {Nil}
      /\ i # n /\ i # b /\ p \in Node \cup {Nil} /\ p # n /\ p # b /\ (p = i => p = Nil)
      /\ t.parent[b] = n /\ (i # Nil => t.parent[i] = b)
      /\ (p = Nil <=> n = t.root)
  BY <1>0 DEF Around
<1>2. /\ Other(d) \in Side /\ Other(d) # d /\ \A e \in Side : e = d \/ e = Other(d)
      /\ Other(Other(d)) = d
  BY Sides DEF Other, Side
<1>3. /\ b = t.child[Other(d)][n] /\ i = t.child[d][b] /\ p = t.parent[n]
      /\ u.root = (IF n = t.root THEN b ELSE t.root)
      /\ \A e \in Side, m \in Node :
           u.child[e][m] = IF e = Other(d) /\ m = n THEN i ELSE IF e = d /\ m = b THEN n
                           ELSE IF m = p /\ t.child[e][m] = n THEN b ELSE t.child[e][m]
      /\ \A m \in Node : u.parent[m] = IF m = b THEN p ELSE IF m = n THEN b
                                       ELSE IF m = i THEN n ELSE t.parent[m]
  BY DEF Turned
<1>4. /\ t.root # Nil => t.parent[t.root] = Nil
      /\ \A m \in Node, e \in Side :
           t.child[e][m] # Nil => /\ t.child[e][m] \in Node
                                  /\ t.parent[t.child[e][m]] = m
                                  /\ t.child[e][m] # t.child[Other(e)][m]
      /\ \A m \in Node : t.parent[m] # Nil => /\ t.parent[m] \in Node
                                              /\ \E e \in Side : t.child[e][t.parent[m]] = m
      /\ \A m \in Node, e \in Side : m \notin In(t) => t.child[e][m] = Nil
      /\ t.root \in Node \cup {Nil} /\ Nil \notin Node
  BY SMTT(30), RbTreeConstants DEF Shape, Links, Trees
<1>5. u.root # Nil => u.parent[u.root] = Nil
  <2>1. /\ b \in Node /\ n \in In(t) /\ t.parent[b] = n /\ i = t.child[d][b]
        /\ p = t.parent[n]
        /\ u.root = (IF n = t.root THEN b ELSE t.root)
        /\ \A m \in Node :
             u.parent[m] = IF m = b THEN p ELSE IF m = n THEN b ELSE IF m = i THEN n
                           ELSE t.parent[m]
        /\ t.root # Nil => t.parent[t.root] = Nil
        /\ \A m \in Node, e \in Side :
             t.child[e][m] # Nil => /\ t.child[e][m] \in Node
                                    /\ t.parent[t.child[e][m]] = m
                                    /\ t.child[e][m] # t.child[Other(e)][m]
        /\ t.root \in Node \cup {Nil} /\ Nil \notin Node
    BY Zenon, <1>1, <1>3, <1>4
  <2> QED BY <2>1
<1>6. ASSUME NEW m \in Node, NEW e \in Side, u.child[e][m] # Nil
      PROVE  u.parent[u.child[e][m]] = m /\ u.child[e][m] # u.child[Other(e)][m]
  <2>0. Other(e) \in Side /\ Other(e) # e
    BY Sides
  <2>1. CASE m = n
    <3>1. e = d \/ e = Other(d)
      BY SMTT(30), <1>2
    <3>2. u.child[Other(d)][n] = i /\ u.child[d][n] = t.child[d][n]
      BY Zenon, <1>1, <1>2, <1>3
    <3>3. i # Nil => u.parent[i] = n
      BY Zenon, <1>1, <1>3
    <3>4. t.child[d][n] # Nil => u.parent[t.child[d][n]] = n /\ t.child[d][n] # i
      <4>1. PICK c : c = t.child[d][n]
        OBVIOUS
      <4>2. n \in Node /\ b = t.child[Other(d)][n]
        BY <1>3, <2>1
      <4>3. c # Nil => c \in Node /\ t.parent[c] = n
        BY <4>1, <4>2, ChildIs
      <4>4. c # Nil => c # b
        BY Zenon, <1>4, <4>1, <4>2
      <4>5. c # Nil => c # n /\ c # i
        <5>1. c # Nil => c # n
          BY <4>1, <4>2, ChildIs
        <5> QED BY <1>1, <4>3, <5>1
      <4>6. c # Nil => u.parent[c] = n
        <5>1. \A k \in Node : k # b /\ k # n /\ k # i => u.parent[k] = t.parent[k]
          BY <1>3
        <5> QED BY Zenon, <4>3, <4>4, <4>5, <5>1
      <4> QED BY Zenon, <4>1, <4>5, <4>6
    <3>5. CASE e = d
      BY <1>6, <2>1, <3>2, <3>4, <3>5
    <3>6. CASE e = Other(d)
      <4>1. Other(e) = d /\ u.child[e][m] = i /\ u.child[Other(e)][m] = t.child[d][n]
        BY <1>2, <2>1, <3>2, <3>6
      <4> QED BY <1>6, <2>1, <3>3, <3>4, <4>1
    <3> QED BY <3>1, <3>5, <3>6
  <2>2. CASE m = b
    <3>1. e = d \/ e = Other(d)
      BY <1>2
    <3>2. PICK f : f = t.child[Other(d)][b]
      BY SMTT(30)
    <3>3. u.child[d][b] = n /\ u.child[Other(d)][b] = f /\ u.parent[n] = b
      BY Zenon, <1>1, <1>2, <1>3, <3>2
    <3>4. f # Nil => t.parent[f] = b /\ f \in Node /\ f # i
      <4>1. /\ b \in Node /\ n \in In(t) /\ b \in In(t) /\ b # n /\ i # n /\ i # b
            /\ Other(d) \in Side
            /\ \A a \in Side : a = d \/ a = Other(d)
            /\ Other(Other(d)) = d /\ i = t.child[d][b]
            /\ \A k \in Node, a \in Side :
                 t.child[a][k] # Nil => /\ t.child[a][k] \in Node
                                        /\ t.parent[t.child[a][k]] = k
                                        /\ t.child[a][k] # t.child[Other(a)][k]
            /\ f = t.child[Other(d)][b]
        BY Zenon, <1>1, <1>2, <1>3, <1>4, <3>2
      <4> QED BY SMTT(30), <4>1
    <3>5. f # Nil => u.parent[f] = b /\ f # n
      BY <1>1, <1>3, <3>4
    <3>6. CASE e = d
      BY <1>4, <2>2, <3>3, <3>5, <3>6
    <3>7. CASE e = Other(d)
      <4>1. Other(e) = d
        BY <1>2, <3>7
      <4> QED BY <1>6, <2>2, <3>3, <3>5, <3>7, <4>1
    <3> QED BY <3>1, <3>6, <3>7
  <2>3. CASE m # n /\ m # b /\ m = p
    <3>1. t.child[Other(e)][m] = n => t.child[e][m] # n
      BY SMTT(30), <1>1, <1>4, <2>0
    <3>2. t.child[e][m] = n => u.child[e][m] = b /\ u.parent[b] = p
      BY Zenon, <1>3, <2>3, <1>1
    <3>3. t.child[e][m] # n => /\ u.child[e][m] = t.child[e][m]
                               /\ t.parent[t.child[e][m]] = m /\ t.child[e][m] \in Node
                               /\ t.child[e][m] # b /\ t.child[e][m] # i
      <4> HAVE t.child[e][m] # n
      <4>1. u.child[e][m] = t.child[e][m]
        BY <1>3, <2>3
      <4>2. t.parent[t.child[e][m]] = m /\ t.child[e][m] \in Node
        BY <1>4, <1>6, <4>1
      <4>3. t.child[e][m] # b
        BY <1>1, <2>3, <4>2
      <4>4. t.child[e][m] # i
        BY <1>1, <2>3, <4>2, RbTreeConstants
      <4> QED BY <4>1, <4>2, <4>3, <4>4
    <3>4. u.parent[u.child[e][m]] = m
      <4>1. /\ \A k \in Node :
                 u.parent[k] = IF k = b THEN p ELSE IF k = n THEN b ELSE IF k = i THEN n
                               ELSE t.parent[k]
            /\ t.child[e][m] = n => u.child[e][m] = b /\ u.parent[b] = p
            /\ t.child[e][m] # n
                   => /\ u.child[e][m] = t.child[e][m] /\ t.parent[t.child[e][m]] = m
                      /\ t.child[e][m] \in Node /\ t.child[e][m] # b /\ t.child[e][m] # i
        BY Zenon, <1>3, <3>2, <3>3
      <4> QED BY <4>1, <2>3
    <3>5. t.child[Other(e)][m] # b
      BY <1>1, <1>4, <2>0, <2>3
    <3>6. u.child[Other(e)][m] = IF t.child[Other(e)][m] = n THEN b ELSE t.child[Other(e)][m]
      BY SMTT(30), <1>3, <2>0, <2>3
    <3>7. t.child[e][m] # Nil /\ t.child[e][m] # t.child[Other(e)][m]
      <4>1. /\ \A a \in Side, k \in Node :
                 u.child[a][k] = IF a = Other(d) /\ k = n THEN i ELSE IF a = d /\ k = b THEN n
                                 ELSE IF k = p /\ t.child[a][k] = n THEN b ELSE t.child[a][k]
            /\ \A k \in Node, a \in Side :
                 t.child[a][k] # Nil => /\ t.child[a][k] \in Node
                                        /\ t.parent[t.child[a][k]] = k
                                        /\ t.child[a][k] # t.child[Other(a)][k]
            /\ Nil \notin Node
        BY Zenon, <1>3, <1>4
      <4> QED BY <4>1, <1>6, <2>3
    <3> QED BY <3>1, <3>2, <3>3, <3>4, <3>5, <3>6, <3>7
  <2>4. CASE m # n /\ m # b /\ m # p
    <3>1. u.child[e][m] = t.child[e][m] /\ u.child[Other(e)][m] = t.child[Other(e)][m]
      BY <1>3, <2>0, <2>4
    <3>2. /\ t.child[e][m] \in Node /\ t.parent[t.child[e][m]] = m
          /\ t.child[e][m] # t.child[Other(e)][m]
      BY SMTT(30), <1>4, <1>6, <3>1
    <3>3. t.child[e][m] # n /\ t.child[e][m] # b /\ t.child[e][m] # i
      <4>1. /\ t.parent[b] = n
            /\ (i # Nil => t.parent[i] = b)
            /\ p = t.parent[n] /\ t.child[e][m] \in Node
            /\ \A k \in Node, a \in Side :
                 t.child[a][k] # Nil => /\ t.child[a][k] \in Node
                                        /\ t.parent[t.child[a][k]] = k
                                        /\ t.child[a][k] # t.child[Other(a)][k]
            /\ Nil \notin Node
        BY Zenon, <1>1, <1>3, <3>2, <1>4
      <4> QED BY <4>1, <2>4
    <3> QED
      <4>1. /\ \A k \in Node :
                 u.parent[k] = IF k = b THEN p ELSE IF k = n THEN b ELSE IF k = i THEN n
                               ELSE t.parent[k]
            /\ u.child[e][m] = t.child[e][m] /\ u.child[Other(e)][m] = t.child[Other(e)][m]
            /\ t.child[e][m] \in Node /\ t.parent[t.child[e][m]] = m
            /\ t.child[e][m] # t.child[Other(e)][m] /\ t.child[e][m] # n
            /\ t.child[e][m] # b /\ t.child[e][m] # i
        BY Zenon, <1>3, <3>1, <3>2, <3>3
      <4> QED BY <4>1
  <2> QED BY <2>1, <2>2, <2>3, <2>4
<1>7. ASSUME NEW m \in Node, u.parent[m] # Nil
      PROVE  \E e \in Side : u.child[e][u.parent[m]] = m
  <2>1. CASE m = b
    <3>1. p # Nil /\ u.parent[m] = p /\ p \in Node
      BY <1>1, <1>3, <1>7, <2>1
    <3>2. PICK e \in Side : t.child[e][p] = n
      <4>1. /\ p = t.parent[n]
            /\ \A k \in Node : t.parent[k] # Nil => /\ t.parent[k] \in Node
                                                    /\ \E e \in Side : t.child[e][t.parent[k]] = k
            /\ p # Nil
        BY Zenon, <1>3, <1>4, <3>1
      <4> QED BY SMTT(30), <4>1
    <3> QED
      <4>1. /\ p # b /\ b = t.child[Other(d)][n]
            /\ \A a \in Side, k \in Node :
                 u.child[a][k] = IF a = Other(d) /\ k = n THEN i ELSE IF a = d /\ k = b THEN n
                                 ELSE IF k = p /\ t.child[a][k] = n THEN b ELSE t.child[a][k]
            /\ u.parent[m] = p /\ p \in Node /\ t.child[e][p] = n
        BY Zenon, <1>1, <1>3, <3>1, <3>2
      <4> QED BY SMTT(30), <4>1, <2>1
  <2>2. CASE m = n
    <3>1. /\ b \in Node /\ b # n
          /\ \A e \in Side, k \in Node :
               u.child[e][k] = IF e = Other(d) /\ k = n THEN i ELSE IF e = d /\ k = b THEN n
                               ELSE IF k = p /\ t.child[e][k] = n THEN b ELSE t.child[e][k]
          /\ \A k \in Node :
               u.parent[k] = IF k = b THEN p ELSE IF k = n THEN b ELSE IF k = i THEN n
                             ELSE t.parent[k]
      BY Zenon, <1>1, <1>3
    <3> QED BY SMTT(30), <3>1, <2>2
  <2>3. CASE m # n /\ m # b /\ m = i
    BY Zenon, <1>1, <1>2, <1>3, <2>3
  <2>4. CASE m # n /\ m # b /\ m # i
    <3>1. u.parent[m] = t.parent[m] /\ t.parent[m] \in Node
      BY <1>3, <1>4, <1>7, <2>4
    <3>2. PICK e \in Side : t.child[e][t.parent[m]] = m
      BY <1>4, <1>7, <3>1
    <3>3. u.child[e][t.parent[m]] = m
      <4>1. /\ b = t.child[Other(d)][n] /\ i = t.child[d][b]
            /\ \A a \in Side, k \in Node :
                 u.child[a][k] = IF a = Other(d) /\ k = n THEN i ELSE IF a = d /\ k = b THEN n
                                 ELSE IF k = p /\ t.child[a][k] = n THEN b ELSE t.child[a][k]
            /\ t.parent[m] \in Node /\ t.child[e][t.parent[m]] = m
        BY Zenon, <1>3, <3>1, <3>2
      <4> QED BY <4>1, <2>4
    <3> QED BY <3>1, <3>3
  <2> QED BY <2>1, <2>2, <2>3, <2>4
<1>8. ASSUME NEW m \in Node, NEW e \in Side, m \notin In(u)
      PROVE  u.child[e][m] = Nil
  <2>1. m \notin In(t)
    BY <1>8, TurnKeepsIn
  <2>2. t.child[e][m] = Nil /\ m # n /\ m # b
    BY <1>1, <1>4, <2>1
  <2>3. n # Nil
    BY <1>4
  <2> QED BY <1>3, <2>2, <2>3
<1> QED BY <1>5, <1>6, <1>7, <1>8 DEF Links

(* Before and after the rotation, subtree by subtree.                      *)
BelowTurned(t, u, below, B, d, o, n, b, c, i, f) ==
  /\ B \in [Node \cup {Nil} -> SUBSET Node] /\ B[b] = below[n]
  /\ B[n] = {n} \cup below[c] \cup below[i]
  /\ \A m \in Node \cup {Nil} : m # b /\ m # n => B[m] = below[m]
  /\ below[n] = {n} \cup below[c] \cup below[b] /\ below[b] = {b} \cup below[i] \cup below[f]
  /\ n \notin below[c] /\ n \notin below[b] /\ b \notin below[c]
  /\ b \notin below[i] /\ b \notin below[f]
  /\ \A m \in below[c] : m \notin below[b]
  /\ \A m \in below[i] : m \notin below[f]
  /\ \A m \in Node, e \in Side :
       m # n /\ m # b => B[u.child[e][m]] = below[t.child[e][m]]
  /\ B[u.child[o][n]] = below[i] /\ B[u.child[d][n]] = below[c]
  /\ B[u.child[d][b]] = B[n] /\ B[u.child[o][b]] = below[f]

(* What is below each node after the rotation.                             *)
LEMMA TurnBelow ==
  ASSUME NEW t, NEW below, Shape(t, below), NEW d \in Side, NEW n \in Node,
         NEW u, NEW b, NEW i, NEW p, Turned(t, u, d, n, b, i, p), b # Nil
  PROVE  \E B, o, c, f :
           /\ B = TurnedBelow(t, below, d, n, b, i) /\ o = Other(d)
           /\ c = t.child[d][n] /\ f = t.child[o][b]
           /\ BelowTurned(t, u, below, B, d, o, n, b, c, i, f)
<1>0. Around(t, d, n, b, i, p)
  BY TurnedAround
<1>1. /\ b \in Node /\ n \in In(t) /\ b \in In(t) /\ b # n /\ i \in Node \cup {Nil}
      /\ i # n /\ i # b /\ p \in Node \cup {Nil} /\ p # n /\ p # b /\ (p = i => p = Nil)
      /\ t.parent[b] = n /\ (i # Nil => t.parent[i] = b) /\ (p = Nil <=> n = t.root)
      /\ b # t.root
  BY <1>0 DEF Around
<1>2. PICK o \in Side : o = Other(d) /\ d = Other(o) /\ o # d /\ \A e \in Side : e = d \/ e = o
  BY Sides DEF Other, Side
<1>3. PICK c \in Node \cup {Nil}, f \in Node \cup {Nil} :
        c = t.child[d][n] /\ f = t.child[o][b]
  BY <1>1 DEF Shape, Trees
<1>4. /\ b = t.child[o][n] /\ i = t.child[d][b] /\ p = t.parent[n]
      /\ u.root = (IF n = t.root THEN b ELSE t.root)
      /\ \A e \in Side, m \in Node :
           u.child[e][m] = IF e = o /\ m = n THEN i ELSE IF e = d /\ m = b THEN n
                           ELSE IF m = p /\ t.child[e][m] = n THEN b ELSE t.child[e][m]
  BY <1>2 DEF Turned
<1>5. /\ below \in [Node \cup {Nil} -> SUBSET Node]
      /\ below[Nil] = {} /\ below[t.root] = In(t) /\ IsFiniteSet(In(t))
      /\ \A m \in Node :
           below[m] = {m} \cup below[t.child["left"][m]] \cup below[t.child["right"][m]]
      /\ \A m \in Node, e \in Side :
           /\ m \notin below[t.child[e][m]]
           /\ \A k \in below[t.child[e][m]] : k \notin below[t.child[Other(e)][m]]
      /\ \A m \in In(t) : \A k \in below[m] : k \in In(t)
      /\ Nil \notin Node /\ t.root \in Node \cup {Nil}
  BY RbTreeConstants DEF Shape, Subtrees, Trees
<1>6. \A m \in Node : below[m] = {m} \cup below[t.child[d][m]] \cup below[t.child[o][m]]
  BY <1>2, <1>5 DEF Side
<1> DEFINE B == TurnedBelow(t, below, d, n, b, i)
<1>7. /\ B \in [Node \cup {Nil} -> SUBSET Node] /\ B[b] = below[n]
      /\ B[n] = {n} \cup below[c] \cup below[i]
      /\ \A m \in Node \cup {Nil} : m # b /\ m # n => B[m] = below[m]
  BY SMTT(30), <1>1, <1>3, <1>5 DEF TurnedBelow
<1> HIDE DEF B
<1>8. /\ below[n] = {n} \cup below[c] \cup below[b] /\ below[b] = {b} \cup below[i] \cup below[f]
  BY <1>1, <1>3, <1>4, <1>6
<1>9. /\ n \notin below[c] /\ n \notin below[b] /\ b \notin below[c]
      /\ b \notin below[i] /\ b \notin below[f]
      /\ \A m \in below[c] : m \notin below[b]
      /\ \A m \in below[i] : m \notin below[f]
  <2>1. n \notin below[c] /\ n \notin below[b] /\ \A m \in below[c] : m \notin below[b]
    BY Zenon, <1>2, <1>3, <1>4, <1>5
  <2>2. b \notin below[i] /\ b \notin below[f] /\ \A m \in below[i] : m \notin below[f]
    BY Zenon, <1>1, <1>2, <1>3, <1>4, <1>5
  <2> QED BY SMTT(30), <1>8, <2>1, <2>2
<1>10. c # n /\ c # b /\ f # n /\ f # b
  BY <1>1, <1>6, <1>8, <1>9
<1>11. ASSUME NEW m \in Node, m # n, m # b, NEW e \in Side
       PROVE  B[u.child[e][m]] = below[t.child[e][m]]
  <2>1. t.child[e][m] \in Node \cup {Nil}
    BY DEF Shape, Trees
  <2>2. t.child[e][m] # Nil => t.parent[t.child[e][m]] = m
    BY DEF Shape, Links
  <2>3. t.child[e][m] # b
    BY <1>1, <1>5, <1>11, <2>2
  <2>4. CASE t.child[e][m] = n
    <3>1. m = p
      BY <1>4, <1>5, <2>2, <2>4
    <3>2. u.child[e][m] = b
      BY <1>4, <1>11, <2>4, <3>1
    <3> QED BY <1>7, <2>4, <3>2
  <2>5. CASE t.child[e][m] # n
    <3>1. u.child[e][m] = t.child[e][m]
      BY <1>4, <1>11, <2>5
    <3> QED BY <1>7, <2>1, <2>3, <2>5, <3>1
  <2> QED BY <2>4, <2>5
<1>12. /\ B[u.child[o][n]] = below[i] /\ B[u.child[d][n]] = below[c]
       /\ B[u.child[d][b]] = B[n] /\ B[u.child[o][b]] = below[f]
  <2>1. u.child[o][n] = i /\ u.child[d][n] = c
    BY Zenon, <1>1, <1>2, <1>3, <1>4
  <2>2. u.child[d][b] = n /\ u.child[o][b] = f
    BY Zenon, <1>1, <1>2, <1>3, <1>4
  <2> QED BY SMTT(30), <1>1, <1>3, <1>7, <1>10, <2>1, <2>2
<1>13. B = TurnedBelow(t, below, d, n, b, i)
  BY DEF B
<1>14. BelowTurned(t, u, below, B, d, o, n, b, c, i, f)
  BY <1>7, <1>8, <1>9, <1>11, <1>12 DEF BelowTurned
<1> QED BY Zenon, <1>2, <1>3, <1>13, <1>14

(* After a rotation each subtree is its head and two others that share no  *)
(* node.                                                                   *)
LEMMA TurnKeepsSubtrees ==
  ASSUME NEW t, NEW below, Shape(t, below), NEW d \in Side, NEW n \in Node,
         NEW u, NEW b, NEW i, NEW p, Turned(t, u, d, n, b, i, p), b # Nil
  PROVE  Subtrees(u, TurnedBelow(t, below, d, n, b, i))
<1>0. Around(t, d, n, b, i, p)
  BY TurnedAround
<1>1. /\ b \in Node /\ n \in In(t) /\ b \in In(t) /\ b # n /\ b # t.root
  BY <1>0 DEF Around
<1>2. PICK B, o, c, f :
           /\ B = TurnedBelow(t, below, d, n, b, i) /\ o = Other(d)
           /\ c = t.child[d][n] /\ f = t.child[o][b]
           /\ BelowTurned(t, u, below, B, d, o, n, b, c, i, f)
  BY TurnBelow
<1>3. o \in Side /\ o = Other(d) /\ d = Other(o) /\ o # d /\ \A e \in Side : e = d \/ e = o
  BY <1>2, Sides DEF Other, Side
<1>4. u.root = (IF n = t.root THEN b ELSE t.root)
  BY DEF Turned
<1>5. /\ below \in [Node \cup {Nil} -> SUBSET Node]
      /\ below[Nil] = {} /\ below[t.root] = In(t) /\ IsFiniteSet(In(t))
      /\ \A m \in Node :
           below[m] = {m} \cup below[t.child["left"][m]] \cup below[t.child["right"][m]]
      /\ \A m \in Node, e \in Side :
           /\ m \notin below[t.child[e][m]]
           /\ \A k \in below[t.child[e][m]] : k \notin below[t.child[Other(e)][m]]
      /\ \A m \in In(t) : \A k \in below[m] : k \in In(t)
      /\ Nil \notin Node /\ t.root \in Node \cup {Nil}
  BY RbTreeConstants DEF Shape, Subtrees, Trees
<1>6. \A m \in Node : below[m] = {m} \cup below[t.child[d][m]] \cup below[t.child[o][m]]
  BY <1>3, <1>5 DEF Side
<1>7. /\ B \in [Node \cup {Nil} -> SUBSET Node] /\ B[b] = below[n]
      /\ B[n] = {n} \cup below[c] \cup below[i]
      /\ \A m \in Node \cup {Nil} : m # b /\ m # n => B[m] = below[m]
  BY <1>2 DEF BelowTurned
<1>8. /\ below[n] = {n} \cup below[c] \cup below[b] /\ below[b] = {b} \cup below[i] \cup below[f]
  BY <1>2 DEF BelowTurned
<1>9. /\ n \notin below[c] /\ n \notin below[b] /\ b \notin below[c]
      /\ b \notin below[i] /\ b \notin below[f]
      /\ \A m \in below[c] : m \notin below[b]
      /\ \A m \in below[i] : m \notin below[f]
  BY <1>2 DEF BelowTurned
<1>11. \A m \in Node, e \in Side :
         m # n /\ m # b => B[u.child[e][m]] = below[t.child[e][m]]
  BY <1>2 DEF BelowTurned
<1>12. /\ B[u.child[o][n]] = below[i] /\ B[u.child[d][n]] = below[c]
       /\ B[u.child[d][b]] = B[n] /\ B[u.child[o][b]] = below[f]
  BY <1>2 DEF BelowTurned
<1>13. ASSUME NEW m \in Node
       PROVE  /\ B[m] = {m} \cup B[u.child[d][m]] \cup B[u.child[o][m]]
              /\ m \notin B[u.child[d][m]] /\ m \notin B[u.child[o][m]]
              /\ \A k \in B[u.child[d][m]] : k \notin B[u.child[o][m]]
  <2>1. CASE m = n
    BY <1>7, <1>8, <1>9, <1>12, <2>1
  <2>2. CASE m = b
    BY <1>1, <1>7, <1>8, <1>9, <1>12, <2>2
  <2>3. CASE m # n /\ m # b
    <3>1. /\ B[u.child[d][m]] = below[t.child[d][m]] /\ B[u.child[o][m]] = below[t.child[o][m]]
          /\ B[m] = below[m]
      BY <1>3, <1>7, <1>11, <2>3
    <3>2. /\ below[m] = {m} \cup below[t.child[d][m]] \cup below[t.child[o][m]]
          /\ m \notin below[t.child[d][m]] /\ m \notin below[t.child[o][m]]
          /\ \A k \in below[t.child[d][m]] : k \notin below[t.child[o][m]]
      BY <1>3, <1>5, <1>6
    <3> QED BY <3>1, <3>2
  <2> QED BY <2>1, <2>2, <2>3
<1>14. In(u) = In(t)
  <2>1. \A m \in Node : m \in In(u) <=> m \in In(t)
    BY TurnKeepsIn
  <2> QED BY <2>1 DEF In
<1>15. B[u.root] = In(u)
  <2>1. CASE n = t.root
    BY <1>4, <1>5, <1>7, <1>14, <2>1
  <2>2. CASE n # t.root
    BY <1>1, <1>4, <1>5, <1>7, <1>14, <2>2
  <2> QED BY <2>1, <2>2
<1>16. \A m \in In(u) : \A k \in B[m] : k \in In(u)
  <2> TAKE m \in In(u)
  <2>0. m \in Node /\ m \in In(t)
    BY <1>14 DEF In
  <2>1. CASE m = n
    <3>1. \A k \in B[n] : k \in below[n]
      BY <1>7, <1>8
    <3> QED BY <1>1, <1>5, <1>14, <2>1, <3>1
  <2>2. CASE m = b
    BY <1>1, <1>5, <1>7, <1>14, <2>2
  <2>3. CASE m # n /\ m # b
    BY <1>5, <1>7, <1>14, <2>0, <2>3
  <2> QED BY <2>1, <2>2, <2>3
<1>17. B[Nil] = {} /\ IsFiniteSet(In(u))
  BY <1>1, <1>5, <1>7, <1>14
<1>18. \A m \in Node :
         B[m] = {m} \cup B[u.child["left"][m]] \cup B[u.child["right"][m]]
  <2> TAKE m \in Node
  <2>1. (d = "left" /\ o = "right") \/ (d = "right" /\ o = "left")
    BY <1>3 DEF Side
  <2>2. B[m] = {m} \cup B[u.child[d][m]] \cup B[u.child[o][m]]
    BY <1>13
  <2> QED BY <2>1, <2>2
<1>19. \A m \in Node, e \in Side :
         /\ m \notin B[u.child[e][m]]
         /\ \A k \in B[u.child[e][m]] : k \notin B[u.child[Other(e)][m]]
  BY <1>3, <1>13
<1>20. Subtrees(u, B)
  BY <1>7, <1>15, <1>16, <1>17, <1>18, <1>19 DEF Subtrees
<1> QED BY <1>2, <1>20

(* A rotation makes a tree of a tree.                                      *)
LEMMA TurnKeepsShape ==
  ASSUME NEW t, NEW below, Shape(t, below), NEW d \in Side, NEW n \in Node,
         NEW u, NEW b, NEW i, NEW p, Turned(t, u, d, n, b, i, p), b # Nil
  PROVE  Shape(u, TurnedBelow(t, below, d, n, b, i))
<1>1. u \in Trees
  BY DEF Turned
<1> QED BY <1>1, TurnKeepsLinks, TurnKeepsSubtrees DEF Shape

(* No node comes before first in the tree.                                 *)
FirstIs(t, below, first) ==
  IF t.root = Nil THEN first = Nil
  ELSE /\ first \in In(t) /\ t.child["left"][first] = Nil
       /\ \A n \in Node : first \notin below[t.child["right"][n]]

(* The first node stays the first.                                         *)
LEMMA TurnKeepsFirst ==
  ASSUME NEW t, NEW below, Shape(t, below), NEW d \in Side, NEW n \in Node,
         NEW u, NEW b, NEW i, NEW p, Turned(t, u, d, n, b, i, p), b # Nil,
         NEW first, FirstIs(t, below, first)
  PROVE  FirstIs(u, TurnedBelow(t, below, d, n, b, i), first)
<1>0. Around(t, d, n, b, i, p)
  BY TurnedAround
<1>1. /\ b \in Node /\ n \in In(t) /\ b \in In(t) /\ b # n /\ b # t.root /\ b = t.child[Other(d)][n]
      /\ p # b /\ p # n /\ i = t.child[d][b] /\ Nil \notin Node
  BY <1>0, RbTreeConstants DEF Around
<1>2. PICK B, o, c, f :
           /\ B = TurnedBelow(t, below, d, n, b, i) /\ o = Other(d)
           /\ c = t.child[d][n] /\ f = t.child[o][b]
           /\ BelowTurned(t, u, below, B, d, o, n, b, c, i, f)
  BY TurnBelow
<1>3. (d = "left" /\ o = "right") \/ (d = "right" /\ o = "left")
  BY SMTT(30), <1>2 DEF Other, Side
<1>4. /\ B[n] = {n} \cup below[c] \cup below[i]
      /\ \A m \in Node, e \in Side :
           m # n /\ m # b => B[u.child[e][m]] = below[t.child[e][m]]
      /\ B[u.child[o][n]] = below[i] /\ B[u.child[d][n]] = below[c]
      /\ B[u.child[d][b]] = B[n] /\ B[u.child[o][b]] = below[f]
      /\ below[b] = {b} \cup below[i] \cup below[f]
  BY <1>2 DEF BelowTurned
<1>5. /\ u.root = (IF n = t.root THEN b ELSE t.root)
      /\ \A m \in Node :
           u.child["left"][m] = IF "left" = Other(d) /\ m = n THEN i ELSE IF "left" = d /\ m = b THEN n
                           ELSE IF m = p /\ t.child["left"][m] = n THEN b ELSE t.child["left"][m]
  BY SMTT(30) DEF Turned, Side
<1>6. t.root # Nil /\ u.root # Nil
  <2>1. /\ b \in In(t)
        /\ u.root = (IF n = t.root THEN b ELSE t.root)
    BY Zenon, <1>1, <1>5
  <2> QED BY <2>1 DEF In, Shape, Subtrees
<1>7. /\ first \in In(t) /\ first \in Node /\ t.child["left"][first] = Nil
      /\ \A m \in Node : first \notin below[t.child["right"][m]]
  BY <1>6 DEF FirstIs, In
<1>8. first \in In(u)
  BY <1>7, TurnKeepsIn
<1>9. n \in Node
  OBVIOUS
<1>10. CASE d = "right" /\ o = "left"
  <2>1. first # n
    BY Zenon, <1>1, <1>2, <1>7, <1>10
  <2>2. first \notin below[c] /\ first \notin below[i]
    BY <1>1, <1>2, <1>7, <1>10
  <2>3. u.child["left"][first] = Nil
    BY <1>1, <1>5, <1>7, <1>10, <2>1
  <2>4. \A m \in Node : first \notin B[u.child["right"][m]]
    BY SMTT(30), <1>4, <1>7, <1>10, <2>1, <2>2 DEF Side
  <2> QED BY SMTT(30), <1>2, <1>6, <1>8, <2>3, <2>4 DEF FirstIs
<1>11. CASE d = "left" /\ o = "right"
  <2>1. b = t.child["right"][n] /\ n \in Node
    BY <1>1, <1>2, <1>11
  <2>2. first \notin below[b]
    BY <1>7, <2>1
  <2>3. first # b /\ first \notin below[i] /\ first \notin below[f]
    BY SMTT(30), <1>4, <2>2
  <2>4. u.child["left"][first] = Nil
    BY <1>1, <1>2, <1>5, <1>7, <1>11, <2>3
  <2>5. \A m \in Node : first \notin B[u.child["right"][m]]
    BY <1>4, <1>7, <1>11, <2>3 DEF Side
  <2> QED BY <1>2, <1>6, <1>8, <2>4, <2>5 DEF FirstIs
<1> QED BY <1>3, <1>10, <1>11

(* Before(m, n), or with the sides exchanged.                              *)
Precedes(R, d, m, n) == IF d = "left" THEN <<m, n>> \in R ELSE <<n, m>> \in R

(* The nodes of the tree are in the order R.                               *)
Ordered(t, below, R) ==
  \A n \in Node, d \in Side : \A m \in below[t.child[d][n]] : Precedes(R, d, m, n)

(* The order of nodes is one in which a rotation can be made.              *)
Transitive(R) == \A x, y, z \in Node : <<x, y>> \in R /\ <<y, z>> \in R => <<x, z>> \in R

(* Transitivity, in either direction.                                      *)
LEMMA PrecedesTwice ==
  ASSUME NEW R, Transitive(R), NEW d \in Side, NEW x \in Node, NEW y \in Node, NEW z \in Node,
         Precedes(R, d, x, y), Precedes(R, d, y, z)
  PROVE  Precedes(R, d, x, z)
BY DEF Transitive, Precedes

(* On the other side the order is the other way round.                     *)
LEMMA PrecedesOther ==
  ASSUME NEW R, NEW d \in Side, NEW x, NEW y
  PROVE  Precedes(R, Other(d), x, y) <=> Precedes(R, d, y, x)
BY DEF Precedes, Other, Side

(* The order of the nodes stays the same.                                  *)
LEMMA TurnKeepsOrder ==
  ASSUME NEW t, NEW below, Shape(t, below), NEW d \in Side, NEW n \in Node,
         NEW u, NEW b, NEW i, NEW p, Turned(t, u, d, n, b, i, p), b # Nil,
         NEW R, Transitive(R), Ordered(t, below, R)
  PROVE  Ordered(u, TurnedBelow(t, below, d, n, b, i), R)
<1>0. Around(t, d, n, b, i, p)
  BY TurnedAround
<1>1. /\ b \in Node /\ b # n /\ b = t.child[Other(d)][n] /\ i = t.child[d][b]
  BY <1>0 DEF Around
<1>2. PICK B, o, c, f :
           /\ B = TurnedBelow(t, below, d, n, b, i) /\ o = Other(d)
           /\ c = t.child[d][n] /\ f = t.child[o][b]
           /\ BelowTurned(t, u, below, B, d, o, n, b, c, i, f)
  BY TurnBelow
<1>3. o \in Side /\ \A e \in Side : e = d \/ e = o
  BY SMTT(30), <1>2, Sides
<1>4. /\ B[n] = {n} \cup below[c] \cup below[i]
      /\ \A m \in Node, e \in Side :
           m # n /\ m # b => B[u.child[e][m]] = below[t.child[e][m]]
      /\ B[u.child[o][n]] = below[i] /\ B[u.child[d][n]] = below[c]
      /\ B[u.child[d][b]] = B[n] /\ B[u.child[o][b]] = below[f]
      /\ below[b] = {b} \cup below[i] \cup below[f]
  BY <1>2 DEF BelowTurned
<1>5. \A m \in Node, e \in Side : \A k \in below[t.child[e][m]] : k \in Node /\ Precedes(R, e, k, m)
  <2> TAKE m \in Node, e \in Side
  <2> TAKE k \in below[t.child[e][m]]
  <2>1. t.child[e][m] \in Node \cup {Nil}
    BY DEF Shape, Trees
  <2>2. k \in Node
    BY <2>1 DEF Shape, Subtrees
  <2> QED BY <2>2 DEF Ordered
<1>6. Precedes(R, o, b, n) /\ Precedes(R, d, n, b)
  <2>1. b \in below[t.child[o][n]] /\ n \in Node
    BY Zenon, <1>1, <1>2, <1>4
  <2>2. Precedes(R, o, b, n)
    BY SMTT(30), <1>3, <1>5, <2>1
  <2> QED BY SMTT(30), <1>2, <2>2, PrecedesOther
<1>7. \A k \in below[i] : Precedes(R, o, k, n)
  BY Zenon, <1>1, <1>2, <1>3, <1>4, <1>5
<1>8. \A k \in below[c] : Precedes(R, d, k, n)
  BY SMTT(30), <1>2, <1>5
<1>9. \A k \in below[c] : Precedes(R, d, k, b)
  BY <1>1, <1>2, <1>5, <1>6, <1>8, PrecedesTwice
<1>10. \A k \in below[i] : Precedes(R, d, k, b)
  BY SMTT(30), <1>1, <1>5
<1>11. \A k \in below[f] : Precedes(R, o, k, b)
  BY <1>1, <1>2, <1>3, <1>5
<1>12. ASSUME NEW m \in Node, NEW e \in Side, NEW k \in B[u.child[e][m]]
       PROVE  Precedes(R, e, k, m)
  <2>1. CASE m = n
    BY <1>3, <1>4, <1>7, <1>8, <1>12, <2>1
  <2>2. CASE m = b
    BY <1>3, <1>4, <1>6, <1>9, <1>10, <1>11, <1>12, <2>2
  <2>3. CASE m # n /\ m # b
    BY <1>4, <1>5, <1>12, <2>3
  <2> QED BY <2>1, <2>2, <2>3
<1> QED BY <1>2, <1>12 DEF Ordered

-----------------------------------------------------------------------------
(* More about subtrees                                                     *)

(* A subtree is its head and what is below its children.                   *)
LEMMA BelowParts ==
  ASSUME NEW t, NEW below, Shape(t, below), NEW n \in Node
  PROVE  /\ n \in below[n] /\ below[n] \in SUBSET Node
         /\ \A d \in Side : /\ t.child[d][n] \in Node \cup {Nil}
                            /\ below[t.child[d][n]] \in SUBSET Node
                            /\ \A m \in below[t.child[d][n]] : m \in below[n] /\ m # n
         /\ \A m \in below[n] : m = n \/ \E d \in Side : m \in below[t.child[d][n]]
         /\ n \notin In(t) => below[n] = {n}
<1>1. below[n] = {n} \cup below[t.child["left"][n]] \cup below[t.child["right"][n]]
  BY DEF Shape, Subtrees
<1>2. \A d \in Side : t.child[d][n] \in Node \cup {Nil} /\ n \notin below[t.child[d][n]]
  BY DEF Shape, Subtrees, Trees
<1>3. below \in [Node \cup {Nil} -> SUBSET Node] /\ below[Nil] = {}
  BY DEF Shape, Subtrees
<1>4. n \notin In(t) => \A d \in Side : t.child[d][n] = Nil
  BY DEF Shape, Links
<1> QED BY <1>1, <1>2, <1>3, <1>4 DEF Side

(* The nodes below a node in the subtree of another are in it too.         *)
LEMMA BelowBelow ==
  ASSUME NEW t, NEW below, Shape(t, below)
  PROVE  \A y \in Node : \A x \in below[y] : \A w \in below[x] : w \in below[y]
<1> DEFINE ok(y) == \A x \in below[y] : \A w \in below[x] : w \in below[y]
           B == {y \in In(t) : ~ok(y)}
<1>1. ASSUME NEW y \in Node, \A d \in Side : t.child[d][y] # Nil => ok(t.child[d][y])
      PROVE  ok(y)
  <2> TAKE x \in below[y]
  <2> TAKE w \in below[x]
  <2>1. CASE x = y
    BY <2>1
  <2>2. ASSUME NEW d \in Side, x \in below[t.child[d][y]] PROVE w \in below[y]
    <3>1. t.child[d][y] # Nil
      BY <2>2 DEF Shape, Subtrees
    <3>2. w \in below[t.child[d][y]]
      BY <1>1, <2>2, <3>1
    <3> QED BY <3>2, BelowParts
  <2> QED BY <2>1, <2>2, BelowParts
<1>2. B = {}
  <2> SUFFICES ASSUME B # {} PROVE FALSE
    OBVIOUS
  <2>1. B \subseteq In(t)
    OBVIOUS
  <2>2. PICK y \in B : \A d \in Side : t.child[d][y] \notin B
    BY Zenon, <2>1, LowestOf
  <2>3. y \in Node /\ y \in In(t) /\ ~ok(y)
    BY InNode
  <2>4. \A d \in Side : t.child[d][y] # Nil => ok(t.child[d][y])
    BY <2>2, <2>3, ChildFacts
  <2> HIDE DEF ok, B
  <2> QED BY <1>1, <2>3, <2>4
<1>3. ASSUME NEW y \in Node PROVE ok(y)
  <2>1. y \in In(t) => ok(y)
    BY <1>2
  <2>2. y \notin In(t) => ok(y)
    BY BelowParts
  <2> QED BY <2>1, <2>2
<1> QED BY <1>3

(* Subtrees lie within the tree.                                           *)
LEMMA BelowIn ==
  ASSUME NEW t, NEW below, Shape(t, below), NEW n \in Node, NEW m \in below[n]
  PROVE  /\ m \in Node /\ (n \in In(t) <=> m \in In(t))
<1>1. n \notin In(t) => below[n] = {n}
  BY BelowParts
<1>2. n \in In(t) => m \in In(t)
  BY DEF Shape, Subtrees
<1> QED BY <1>1, <1>2, BelowParts

(* Of two subtrees that share a node, one is part of the other.            *)
LEMMA Nested ==
  ASSUME NEW t, NEW below, Shape(t, below), NEW w \in Node
  PROVE  \A x, y \in Node : w \in below[x] /\ w \in below[y] => x \in below[y] \/ y \in below[x]
<1> DEFINE ok(x) == \A y \in In(t) : w \in below[x] /\ w \in below[y] => x \in below[y] \/ y \in below[x]
           B == {x \in In(t) : ~ok(x)}
<1>1. B = {}
  <2> SUFFICES ASSUME B # {} PROVE FALSE
    OBVIOUS
  <2>1. B \subseteq In(t)
    OBVIOUS
  <2>2. PICK x \in B : x = t.root \/ (t.parent[x] \in In(t) /\ t.parent[x] \notin B)
    BY Zenon, <2>1, HighestOf
  <2>3. x \in Node /\ x \in In(t) /\ ~ok(x)
    BY InNode
  <2>4. PICK y \in In(t) : w \in below[x] /\ w \in below[y] /\ x \notin below[y] /\ y \notin below[x]
    BY <2>3
  <2>5. y \in Node
    BY InNode
  <2>6. x # t.root
    BY <2>4, <2>5 DEF Shape, Subtrees
  <2>7. PICK p \in Node : p = t.parent[x] /\ p \in In(t) /\ ok(p)
    BY <2>2, <2>6 DEF In
  <2>8. PICK d \in Side : t.child[d][p] = x
    BY <2>3, <2>6, <2>7, ParentFacts
  <2>9. x \in below[p] /\ w \in below[p]
    BY <2>3, <2>4, <2>7, <2>8, BelowParts, BelowBelow
  <2>10. p \in below[y] \/ y \in below[p]
    BY <2>4, <2>7, <2>9
  <2>11. p \notin below[y] /\ p # y
    BY <2>4, <2>5, <2>9, BelowBelow
  <2>12. PICK e \in Side : y \in below[t.child[e][p]]
    BY <2>7, <2>10, <2>11, BelowParts
  <2>13. e # d
    BY <2>4, <2>8, <2>12
  <2>14. t.child[e][p] # Nil
    BY <2>12 DEF Shape, Subtrees
  <2>15. w \in below[t.child[e][p]]
    BY <2>4, <2>7, <2>12, <2>14, ChildFacts, BelowBelow
  <2>16. e = Other(d)
    BY <2>13, Sides
  <2> QED BY Zenon, <2>4, <2>7, <2>8, <2>15, <2>16 DEF Shape, Subtrees
<1>2. ASSUME NEW x \in Node, NEW y \in Node, w \in below[x], w \in below[y]
      PROVE  x \in below[y] \/ y \in below[x]
  <2>1. CASE x \in In(t)
    <3>1. y \in In(t)
      BY <1>2, <2>1, BelowIn
    <3> QED BY <1>1, <1>2, <2>1, <3>1
  <2>2. CASE x \notin In(t)
    BY <1>2, <2>2, BelowParts
  <2> QED BY <2>1, <2>2
<1> QED BY <1>2

-----------------------------------------------------------------------------
(* Replacing a node keeps the shape                                        *)

(* The same tree with old and new exchanged; one of them is not in it.     *)
Swap(old, new) ==
  [x \in Node \cup {Nil} |-> IF x = old THEN new ELSE IF x = new THEN old ELSE x]

(* r tells which node has taken the place of which.                        *)
Swapped(t, u, r) ==
  /\ u \in Trees /\ u.root = r[t.root]
  /\ \A e \in Side, m \in Node : u.child[e][m] = r[t.child[e][r[m]]]
  /\ \A m \in Node : u.parent[m] = r[t.parent[r[m]]]

(* What is below each node then.                                           *)
SwappedBelow(below, r) ==
  [n \in Node \cup {Nil} |-> {x \in Node : r[x] \in below[r[n]]}]

(* Nodes change places in pairs.                                           *)
Involution(r) ==
  /\ r \in [Node \cup {Nil} -> Node \cup {Nil}] /\ r[Nil] = Nil
  /\ \A x \in Node \cup {Nil} : r[r[x]] = x
  /\ \A x \in Node : r[x] \in Node

(* The exchange of two nodes is undone by itself.                          *)
LEMMA SwapTwice ==
  ASSUME NEW old \in Node, NEW new \in Node
  PROVE  Involution(Swap(old, new))
BY RbTreeConstants DEF Swap, Involution

(* Under other names a tree is a tree.                                     *)
LEMMA SwapKeepsShape ==
  ASSUME NEW t, NEW below, Shape(t, below), NEW u, NEW r, Involution(r), Swapped(t, u, r),
         IsFiniteSet(In(u))
  PROVE  /\ Shape(u, SwappedBelow(below, r))
         /\ \A m \in Node : m \in In(u) <=> r[m] \in In(t)
<1> DEFINE B == SwappedBelow(below, r)
<1>1. /\ r[Nil] = Nil /\ \A x \in Node \cup {Nil} : r[r[x]] = x /\ r[x] \in Node \cup {Nil}
      /\ \A x \in Node : r[x] \in Node
  BY DEF Involution
<1>2. /\ u \in Trees /\ u.root = r[t.root]
      /\ \A e \in Side, m \in Node : u.child[e][m] = r[t.child[e][r[m]]]
      /\ \A m \in Node : u.parent[m] = r[t.parent[r[m]]]
  BY DEF Swapped
<1>3. /\ t.root \in Node \cup {Nil} /\ \A m \in Node : t.parent[m] \in Node \cup {Nil}
      /\ \A e \in Side, m \in Node : t.child[e][m] \in Node \cup {Nil}
      /\ Nil \notin Node
  BY RbTreeConstants DEF Shape, Trees
<1>4. \A m \in Node : m \in In(u) <=> r[m] \in In(t)
  <2> TAKE m \in Node
  <2>1. r[m] \in Node /\ r[r[m]] = m
    BY <1>1
  <2>2. u.root = m <=> t.root = r[m]
    BY <1>1, <1>2, <1>3, <2>1
  <2>3. u.parent[m] = Nil <=> t.parent[r[m]] = Nil
    BY <1>1, <1>2, <1>3, <2>1
  <2> QED BY <2>1, <2>2, <2>3 DEF In
<1>5. Links(u)
  <2>0. /\ t.root # Nil => t.parent[t.root] = Nil
        /\ \A n \in Node, d \in Side :
             t.child[d][n] # Nil => /\ t.parent[t.child[d][n]] = n
                                    /\ t.child[d][n] # t.child[Other(d)][n]
        /\ \A n \in Node : t.parent[n] # Nil => \E d \in Side : t.child[d][t.parent[n]] = n
        /\ \A n \in Node, d \in Side : n \notin In(t) => t.child[d][n] = Nil
    BY DEF Shape, Links
  <2>1. u.root # Nil => u.parent[u.root] = Nil
    BY <1>1, <1>2, <1>3, <2>0
  <2>2. ASSUME NEW n \in Node, NEW d \in Side, u.child[d][n] # Nil
        PROVE  u.parent[u.child[d][n]] = n /\ u.child[d][n] # u.child[Other(d)][n]
    <3>1. PICK m \in Node : m = r[n] /\ r[m] = n
      BY <1>1
    <3>2. PICK k \in Node : k = t.child[d][m] /\ u.child[d][n] = r[k]
      BY <1>1, <1>2, <1>3, <2>2, <3>1
    <3>3. t.parent[k] = m /\ k # t.child[Other(d)][m]
      BY <1>3, <2>0, <3>1, <3>2
    <3>4. r[k] \in Node /\ r[r[k]] = k
      BY <1>1
    <3>5. u.parent[r[k]] = n
      BY <1>2, <3>1, <3>3, <3>4
    <3>6. Other(d) \in Side
      BY Sides
    <3>7. u.child[Other(d)][n] = r[t.child[Other(d)][m]]
      BY <1>2, <3>1, <3>6
    <3>8. r[t.child[Other(d)][m]] # r[k]
      BY <1>1, <1>3, <3>3, <3>6
    <3> QED BY <3>2, <3>5, <3>7, <3>8
  <2>3. ASSUME NEW n \in Node, u.parent[n] # Nil
        PROVE  \E d \in Side : u.child[d][u.parent[n]] = n
    <3>1. PICK m \in Node : m = r[n] /\ r[m] = n
      BY <1>1
    <3>2. PICK k \in Node : k = t.parent[m] /\ u.parent[n] = r[k]
      BY <1>1, <1>2, <1>3, <2>3, <3>1
    <3>3. PICK d \in Side : t.child[d][k] = m
      BY <1>3, <2>0, <3>2
    <3>4. r[k] \in Node /\ r[r[k]] = k
      BY <1>1
    <3>5. u.child[d][r[k]] = n
      BY <1>2, <3>1, <3>3, <3>4
    <3> QED BY <3>2, <3>5
  <2>4. ASSUME NEW n \in Node, NEW d \in Side, n \notin In(u)
        PROVE  u.child[d][n] = Nil
    BY <1>1, <1>2, <1>4, <2>0, <2>4
  <2> QED BY <2>1, <2>2, <2>3, <2>4 DEF Links
<1>6. /\ B \in [Node \cup {Nil} -> SUBSET Node]
      /\ \A n \in Node \cup {Nil}, x \in Node : x \in B[n] <=> r[x] \in below[r[n]]
  BY DEF SwappedBelow
<1> HIDE DEF B
<1>7. /\ below[Nil] = {} /\ below[t.root] = In(t)
      /\ \A n \in Node :
           below[n] = {n} \cup below[t.child["left"][n]] \cup below[t.child["right"][n]]
      /\ \A n \in Node, d \in Side :
           /\ n \notin below[t.child[d][n]]
           /\ \A m \in below[t.child[d][n]] : m \notin below[t.child[Other(d)][n]]
      /\ \A n \in In(t) : \A m \in below[n] : m \in In(t)
  BY DEF Shape, Subtrees
<1>8. B[Nil] = {}
  BY <1>1, <1>6, <1>7
<1>9. B[u.root] = In(u)
  <2>1. u.root \in Node \cup {Nil} /\ r[u.root] = t.root
    BY <1>1, <1>2, <1>3
  <2>2. \A x \in Node : x \in B[u.root] <=> x \in In(u)
    BY <1>4, <1>6, <1>7, <2>1
  <2>3. B[u.root] \subseteq Node /\ In(u) \subseteq Node
    BY <1>6, <2>1 DEF In
  <2> QED BY <2>2, <2>3
<1>10. ASSUME NEW n \in Node, NEW d \in Side
       PROVE  \A x \in Node : x \in B[u.child[d][n]] <=> r[x] \in below[t.child[d][r[n]]]
  <2>1. r[n] \in Node /\ t.child[d][r[n]] \in Node \cup {Nil}
    BY <1>1, <1>3
  <2>2. u.child[d][n] \in Node \cup {Nil} /\ r[u.child[d][n]] = t.child[d][r[n]]
    BY <1>1, <1>2, <2>1
  <2> QED BY <1>6, <2>2
<1>11. ASSUME NEW n \in Node
       PROVE  B[n] = {n} \cup B[u.child["left"][n]] \cup B[u.child["right"][n]]
  <2>1. \A x \in Node : r[x] = r[n] <=> x = n
    BY <1>1
  <2>2. \A x \in Node : x \in B[n] <=> \/ x = n \/ x \in B[u.child["left"][n]]
                                       \/ x \in B[u.child["right"][n]]
    <3> TAKE x \in Node
    <3>1. r[n] \in Node
      BY <1>1
    <3>2. r[x] \in below[r[n]] <=> \/ r[x] = r[n] \/ r[x] \in below[t.child["left"][r[n]]]
                                   \/ r[x] \in below[t.child["right"][r[n]]]
      BY <1>7, <3>1
    <3> QED BY <1>6, <1>10, <2>1, <3>2 DEF Side
  <2>3. B[n] \subseteq Node /\ B[u.child["left"][n]] \subseteq Node /\ B[u.child["right"][n]] \subseteq Node
    <3>1. u.child["left"][n] \in Node \cup {Nil} /\ u.child["right"][n] \in Node \cup {Nil}
      BY <1>2 DEF Trees, Side
    <3> QED BY <1>6, <3>1
  <2> QED BY <2>2, <2>3
<1>12. ASSUME NEW n \in Node, NEW d \in Side
       PROVE  /\ n \notin B[u.child[d][n]]
              /\ \A m \in B[u.child[d][n]] : m \notin B[u.child[Other(d)][n]]
  <2>1. r[n] \in Node /\ Other(d) \in Side
    BY <1>1, Sides
  <2>2. B[u.child[d][n]] \subseteq Node
    <3>1. u.child[d][n] \in Node \cup {Nil}
      BY <1>2 DEF Trees
    <3> QED BY <1>6, <3>1
  <2>3. n \notin B[u.child[d][n]]
    BY <1>7, <1>10, <2>1
  <2>4. ASSUME NEW m \in B[u.child[d][n]] PROVE m \notin B[u.child[Other(d)][n]]
    <3>1. m \in Node /\ r[m] \in below[t.child[d][r[n]]]
      BY <1>10, <2>2
    <3>2. r[m] \notin below[t.child[Other(d)][r[n]]]
      BY Zenon, <1>7, <2>1, <3>1
    <3> QED BY <1>10, <2>1, <3>1, <3>2
  <2> QED BY <2>3, <2>4
<1>13. \A n \in In(u) : \A m \in B[n] : m \in In(u)
  <2> TAKE n \in In(u)
  <2> TAKE m \in B[n]
  <2>1. n \in Node /\ m \in Node /\ r[n] \in In(t)
    BY <1>4, <1>6 DEF In
  <2>2. r[m] \in below[r[n]]
    BY <1>6, <2>1
  <2> QED BY <1>4, <1>7, <2>1, <2>2
<1>14. Subtrees(u, B)
  BY <1>6, <1>8, <1>9, <1>11, <1>12, <1>13 DEF Subtrees
<1> QED BY <1>2, <1>4, <1>5, <1>14 DEF Shape, B

(* What is below a child then.                                             *)
LEMMA SwappedSubtree ==
  ASSUME NEW t, NEW below, Shape(t, below), NEW u, NEW r, Involution(r), Swapped(t, u, r),
         NEW n \in Node, NEW d \in Side
  PROVE  \A x : x \in SwappedBelow(below, r)[u.child[d][n]] <=>
                  x \in Node /\ r[x] \in below[t.child[d][r[n]]]
<1>1. r[n] \in Node /\ t.child[d][r[n]] \in Node \cup {Nil}
  BY DEF Shape, Trees, Involution
<1>2. u.child[d][n] \in Node \cup {Nil} /\ r[u.child[d][n]] = t.child[d][r[n]]
  BY <1>1 DEF Swapped, Involution
<1> QED BY <1>2 DEF SwappedBelow

(* The first node is what the first node has become.                       *)
LEMMA SwapKeepsFirst ==
  ASSUME NEW t, NEW below, Shape(t, below), NEW u, NEW r, Involution(r), Swapped(t, u, r),
         IsFiniteSet(In(u)), NEW first, FirstIs(t, below, first)
  PROVE  FirstIs(u, SwappedBelow(below, r), r[first])
<1>1. \A m \in Node : m \in In(u) <=> r[m] \in In(t)
  BY SwapKeepsShape
<1>2. /\ r[Nil] = Nil /\ \A x \in Node \cup {Nil} : r[r[x]] = x /\ r[x] \in Node \cup {Nil}
      /\ \A x \in Node : r[x] \in Node
  BY DEF Involution
<1>3. t.root \in Node \cup {Nil} /\ u.root = r[t.root]
  BY DEF Shape, Trees, Swapped
<1>4. u.root = Nil <=> t.root = Nil
  BY <1>2, <1>3, RbTreeConstants
<1>5. CASE t.root = Nil
  BY <1>2, <1>4, <1>5 DEF FirstIs
<1>6. CASE t.root # Nil
  <2>1. /\ first \in In(t) /\ first \in Node /\ t.child["left"][first] = Nil
        /\ \A n \in Node : first \notin below[t.child["right"][n]]
    BY <1>6 DEF FirstIs, In
  <2>2. r[first] \in Node /\ r[r[first]] = first
    BY <1>2, <2>1
  <2>3. r[first] \in In(u)
    BY <1>1, <2>1, <2>2
  <2>4. u.child["left"][r[first]] = Nil
    BY <1>2, <2>1, <2>2 DEF Swapped, Side
  <2>5. ASSUME NEW n \in Node PROVE r[first] \notin SwappedBelow(below, r)[u.child["right"][n]]
    <3>1. first \notin below[t.child["right"][r[n]]]
      BY <1>2, <2>1
    <3> QED BY <2>2, <3>1, SwappedSubtree DEF Side
  <2> QED BY <1>4, <1>6, <2>3, <2>4, <2>5 DEF FirstIs
<1> QED BY <1>5, <1>6

(* Nodes that change places are in the same order to all others.           *)
Respects(R, r) == \A x, y \in Node : <<x, y>> \in R <=> <<r[x], r[y]>> \in R

(* Then the nodes stay in order.                                           *)
LEMMA SwapKeepsOrder ==
  ASSUME NEW t, NEW below, Shape(t, below), NEW u, NEW r, Involution(r), Swapped(t, u, r),
         NEW R, Respects(R, r), Ordered(t, below, R)
  PROVE  Ordered(u, SwappedBelow(below, r), R)
<1> SUFFICES ASSUME NEW n \in Node, NEW d \in Side,
                    NEW m \in SwappedBelow(below, r)[u.child[d][n]]
             PROVE  Precedes(R, d, m, n)
  BY DEF Ordered
<1>1. m \in Node /\ r[m] \in below[t.child[d][r[n]]] /\ r[n] \in Node /\ r[m] \in Node
  BY Zenon, SwappedSubtree DEF Involution
<1>2. Precedes(R, d, r[m], r[n])
  BY <1>1 DEF Ordered
<1> QED BY <1>1, <1>2 DEF Precedes, Respects

-----------------------------------------------------------------------------
(* Taking out a node with at most one child keeps the shape                *)

(* n is out, and its only child x, if any, is a child of its parent p.     *)
Removed(t, u, n, x, p) ==
  /\ p = t.parent[n] /\ \E d \in Side : t.child[Other(d)][n] = Nil /\ x = t.child[d][n]
  /\ u \in Trees /\ u.root = (IF n = t.root THEN x ELSE t.root)
  /\ \A e \in Side, m \in Node :
       u.child[e][m] = IF m = n THEN Nil ELSE IF t.child[e][m] = n THEN x ELSE t.child[e][m]
  /\ \A m \in Node :
       u.parent[m] = IF m = n THEN Nil ELSE IF m = x THEN p ELSE t.parent[m]

(* What is below each node then.                                           *)
RemovedBelow(below, n) ==
  [m \in Node \cup {Nil} |-> IF m = n THEN {n} ELSE {k \in below[m] : k # n}]

(* One node less is in the tree, and its neighbours are different nodes.   *)
LEMMA RemoveKeepsIn ==
  ASSUME NEW t, NEW below, Shape(t, below), NEW n \in In(t),
         NEW u, NEW x, NEW p, Removed(t, u, n, x, p)
  PROVE  /\ \A m \in Node : m \in In(u) <=> m \in In(t) /\ m # n
         /\ n \in Node /\ n # Nil /\ x \in Node \cup {Nil} /\ x # n
         /\ x # Nil => x \in In(t) /\ t.parent[x] = n /\ x # t.root
         /\ p \in Node \cup {Nil} /\ p # n /\ (p # x \/ p = Nil)
         /\ (p = Nil <=> n = t.root)
<1>1. n \in Node /\ n # Nil
  BY InNode
<1>2. PICK d \in Side : t.child[Other(d)][n] = Nil /\ x = t.child[d][n]
  BY DEF Removed
<1>3. x \in Node \cup {Nil} /\ (x # Nil => x \in In(t) /\ t.parent[x] = n /\ x # t.root /\ x # n)
  BY <1>1, <1>2, ChildFacts DEF Shape, Trees
<1>4. p = t.parent[n] /\ p \in Node \cup {Nil}
  BY <1>1 DEF Removed, Shape, Trees
<1>5. p = Nil <=> n = t.root
  BY <1>1, <1>4 DEF Shape, Links, In
<1>6. p # Nil => p # n /\ p # x
  <2> HAVE p # Nil
  <2>1. PICK e \in Side : t.child[e][p] = n
    BY <1>4, <1>5, ParentFacts
  <2>2. p \in Node /\ p # n /\ n \in below[p]
    BY <1>1, <1>4, <2>1, ChildFacts
  <2>3. x # Nil => p \notin below[n] /\ x \in below[n]
    <3>1. p \notin below[n]
      BY <2>1, <2>2 DEF Shape, Subtrees
    <3> QED BY <1>1, <1>2, <1>3, <3>1, BelowParts
  <2> QED BY <2>2, <2>3
<1>7. \A m \in Node : m \in In(u) <=> m \in In(t) /\ m # n
  <2> TAKE m \in Node
  <2>1. /\ u.root = (IF n = t.root THEN x ELSE t.root)
        /\ u.parent[m] = IF m = n THEN Nil ELSE IF m = x THEN p ELSE t.parent[m]
    BY DEF Removed
  <2>2. CASE m = n
    BY <1>1, <1>3, <2>1, <2>2 DEF In
  <2>3. CASE m # n /\ m = x
    BY <1>1, <1>3, <1>4, <1>5, <2>1, <2>3, RbTreeConstants DEF In
  <2>4. CASE m # n /\ m # x
    BY <1>1, <1>3, <2>1, <2>4 DEF In
  <2> QED BY <2>2, <2>3, <2>4
<1> QED BY <1>1, <1>3, <1>4, <1>5, <1>6, <1>7, RbTreeConstants

(* The subtrees after the removal, and what is below the children of each  *)
(* node.                                                                   *)
LEMMA RemoveBelow ==
  ASSUME NEW t, NEW below, Shape(t, below), NEW n \in In(t),
         NEW u, NEW x, NEW p, Removed(t, u, n, x, p), NEW B, B = RemovedBelow(below, n)
  PROVE  /\ B \in [Node \cup {Nil} -> SUBSET Node] /\ B[n] = {n} /\ B[Nil] = {}
         /\ \A m \in Node \cup {Nil} : \A k : m # n => (k \in B[m] <=> k \in below[m] /\ k # n)
         /\ \A e \in Side : u.child[e][n] = Nil
         /\ \A m \in Node, e \in Side : \A k :
              m # n => (k \in B[u.child[e][m]] <=> k \in below[t.child[e][m]] /\ k # n)
<1>0. PICK d \in Side : t.child[Other(d)][n] = Nil /\ x = t.child[d][n]
  BY DEF Removed
<1>1. /\ n \in Node /\ n # Nil /\ x \in Node \cup {Nil} /\ x # n
      /\ x # Nil => x \in In(t) /\ t.parent[x] = n
  BY RemoveKeepsIn
<1>2. /\ below \in [Node \cup {Nil} -> SUBSET Node] /\ below[Nil] = {}
  BY DEF Shape, Subtrees
<1>3. /\ B \in [Node \cup {Nil} -> SUBSET Node] /\ B[n] = {n} /\ B[Nil] = {}
      /\ \A m \in Node \cup {Nil} : \A k : m # n => (k \in B[m] <=> k \in below[m] /\ k # n)
  BY <1>1, <1>2 DEF RemovedBelow
<1>4. \A k : k \in below[n] <=> k = n \/ k \in below[x]
  BY <1>0, <1>1, <1>2, Sides, BelowParts
<1>5. n \notin below[x]
  BY <1>0, <1>1, BelowParts
<1>6. ASSUME NEW m \in Node, m # n, NEW e \in Side, NEW k
      PROVE  k \in B[u.child[e][m]] <=> k \in below[t.child[e][m]] /\ k # n
  <2>1. u.child[e][m] = (IF t.child[e][m] = n THEN x ELSE t.child[e][m])
    BY <1>6 DEF Removed
  <2>2. t.child[e][m] \in Node \cup {Nil}
    BY BelowParts
  <2> QED BY <1>1, <1>3, <1>4, <1>5, <2>1, <2>2
<1>7. \A e \in Side : u.child[e][n] = Nil
  BY <1>1 DEF Removed
<1> QED BY <1>3, <1>6, <1>7

(* After a removal pointers in both directions agree.                      *)
LEMMA RemoveKeepsLinks ==
  ASSUME NEW t, NEW below, Shape(t, below), NEW n \in In(t),
         NEW u, NEW x, NEW p, Removed(t, u, n, x, p)
  PROVE  Links(u)
<1>1. /\ \A m \in Node : m \in In(u) <=> m \in In(t) /\ m # n
      /\ n \in Node /\ n # Nil /\ x \in Node \cup {Nil} /\ x # n
      /\ x # Nil => x \in In(t) /\ t.parent[x] = n /\ x # t.root
      /\ p \in Node \cup {Nil} /\ p # n /\ (p # x \/ p = Nil)
      /\ (p = Nil <=> n = t.root) /\ p = t.parent[n] /\ Nil \notin Node
  <2>1. n # Nil /\ n \in Node /\ p = t.parent[n]
    BY InNode DEF Removed
  <2> QED BY <2>1, RemoveKeepsIn, RbTreeConstants
<1>2. PICK d \in Side : t.child[Other(d)][n] = Nil /\ x = t.child[d][n]
  BY DEF Removed
<1>3. /\ u.root = (IF n = t.root THEN x ELSE t.root)
      /\ \A e \in Side, m \in Node :
           u.child[e][m] = IF m = n THEN Nil ELSE IF t.child[e][m] = n THEN x ELSE t.child[e][m]
      /\ \A m \in Node :
           u.parent[m] = IF m = n THEN Nil ELSE IF m = x THEN p ELSE t.parent[m]
  BY DEF Removed
<1>4. /\ t.root # Nil => t.parent[t.root] = Nil
      /\ \A m \in Node, e \in Side :
           t.child[e][m] # Nil => /\ t.child[e][m] \in Node
                                  /\ t.parent[t.child[e][m]] = m
                                  /\ t.child[e][m] # t.child[Other(e)][m]
      /\ \A m \in Node : t.parent[m] # Nil => /\ t.parent[m] \in Node
                                              /\ \E e \in Side : t.child[e][t.parent[m]] = m
      /\ \A m \in Node, e \in Side : m \notin In(t) => t.child[e][m] = Nil
      /\ t.root \in Node \cup {Nil}
  BY DEF Shape, Links, Trees
<1>5. u.root # Nil => u.parent[u.root] = Nil
  BY <1>1, <1>3, <1>4
<1>6. ASSUME NEW m \in Node, NEW e \in Side, u.child[e][m] # Nil
      PROVE  u.parent[u.child[e][m]] = m /\ u.child[e][m] # u.child[Other(e)][m]
  <2>0. Other(e) \in Side /\ Other(e) # e /\ m # n
    BY <1>3, <1>6, Sides
  <2>1. /\ u.child[e][m] = (IF t.child[e][m] = n THEN x ELSE t.child[e][m])
        /\ u.child[Other(e)][m] = (IF t.child[Other(e)][m] = n THEN x ELSE t.child[Other(e)][m])
    BY <1>3, <2>0
  <2>2. t.child[e][m] # t.child[Other(e)][m] /\ t.child[e][m] \in Node
        /\ t.parent[t.child[e][m]] = m
    BY <1>1, <1>4, <1>6, <2>1
  <2>3. x = Nil \/ (t.child[e][m] # x /\ t.child[Other(e)][m] # x)
    BY <1>1, <1>4, <2>0
  <2>4. u.child[e][m] # u.child[Other(e)][m]
    BY <1>6, <2>1, <2>2, <2>3
  <2>5. CASE t.child[e][m] = n
    <3>1. u.child[e][m] = x /\ x \in Node /\ p = m
      BY <1>1, <1>6, <2>1, <2>2, <2>5
    <3> QED BY <1>1, <1>3, <2>4, <3>1
  <2>6. CASE t.child[e][m] # n
    BY <1>1, <1>3, <2>1, <2>2, <2>3, <2>4, <2>6
  <2> QED BY <2>5, <2>6
<1>7. ASSUME NEW m \in Node, u.parent[m] # Nil
      PROVE  \E e \in Side : u.child[e][u.parent[m]] = m
  <2>0. m # n
    BY <1>3, <1>7
  <2>1. CASE m = x
    <3>1. p # Nil /\ u.parent[m] = p /\ p \in Node
      BY <1>1, <1>3, <1>7, <2>0, <2>1
    <3>2. PICK e \in Side : t.child[e][p] = n
      BY <1>1, <1>4, <3>1
    <3>3. u.child[e][p] = x
      BY <1>1, <1>3, <3>1, <3>2
    <3> QED BY <2>1, <3>1, <3>3
  <2>2. CASE m # x
    <3>1. u.parent[m] = t.parent[m] /\ t.parent[m] \in Node
      BY <1>3, <1>4, <1>7, <2>0, <2>2
    <3>2. PICK e \in Side : t.child[e][t.parent[m]] = m
      BY <1>3, <1>4, <1>7, <2>0, <2>2
    <3>3. t.parent[m] # n
      <4>1. e = d \/ e = Other(d)
        BY Sides
      <4> QED BY <1>1, <1>2, <2>2, <3>2, <4>1
    <3>4. u.child[e][t.parent[m]] = m
      BY <1>3, <2>0, <3>1, <3>2, <3>3
    <3> QED BY <3>1, <3>4
  <2> QED BY <2>1, <2>2
<1>8. ASSUME NEW m \in Node, NEW e \in Side, m \notin In(u)
      PROVE  u.child[e][m] = Nil
  BY <1>1, <1>3, <1>4, <1>8
<1> QED BY <1>5, <1>6, <1>7, <1>8 DEF Links

(* A removal makes a tree of a tree.                                       *)
LEMMA RemoveKeepsShape ==
  ASSUME NEW t, NEW below, Shape(t, below), NEW n \in In(t),
         NEW u, NEW x, NEW p, Removed(t, u, n, x, p)
  PROVE  Shape(u, RemovedBelow(below, n))
<1>1. /\ \A m \in Node : m \in In(u) <=> m \in In(t) /\ m # n
      /\ n \in Node /\ n # Nil
  BY RemoveKeepsIn
<1>2. PICK B : B = RemovedBelow(below, n)
  OBVIOUS
<1>3. /\ B \in [Node \cup {Nil} -> SUBSET Node] /\ B[n] = {n} /\ B[Nil] = {}
      /\ \A m \in Node \cup {Nil} : \A k : m # n => (k \in B[m] <=> k \in below[m] /\ k # n)
      /\ \A e \in Side : u.child[e][n] = Nil
      /\ \A m \in Node, e \in Side : \A k :
           m # n => (k \in B[u.child[e][m]] <=> k \in below[t.child[e][m]] /\ k # n)
  BY <1>2, RemoveBelow
<1>4. /\ below[t.root] = In(t) /\ IsFiniteSet(In(t))
      /\ \A m \in Node :
           below[m] = {m} \cup below[t.child["left"][m]] \cup below[t.child["right"][m]]
      /\ \A m \in Node, d \in Side :
           /\ m \notin below[t.child[d][m]]
           /\ \A k \in below[t.child[d][m]] : k \notin below[t.child[Other(d)][m]]
      /\ \A m \in In(t) : \A k \in below[m] : k \in In(t)
  BY DEF Shape, Subtrees
<1>5. B[u.root] = In(u)
  <2>0. PICK d \in Side : t.child[Other(d)][n] = Nil /\ x = t.child[d][n]
    BY DEF Removed
  <2>1. u.root = (IF n = t.root THEN x ELSE t.root) /\ t.root \in Node \cup {Nil}
    BY DEF Removed, Shape, Trees
  <2>2. x \in Node \cup {Nil} /\ x # n
    BY RemoveKeepsIn
  <2>3. \A k : k \in below[n] <=> k = n \/ k \in below[x]
    BY <1>1, <2>0, Sides DEF Shape, Subtrees
  <2>4. \A k : k \in B[u.root] <=> k \in In(t) /\ k # n
    BY <1>1, <1>3, <1>4, <2>1, <2>2, <2>3
  <2>5. \A k : k \in In(u) <=> k \in In(t) /\ k # n
    BY <1>1 DEF In
  <2> QED BY <2>4, <2>5
<1>6. \A m \in Node :
        B[m] = {m} \cup B[u.child["left"][m]] \cup B[u.child["right"][m]]
  BY <1>3, <1>4 DEF Side
<1>7. \A m \in Node, d \in Side :
        /\ m \notin B[u.child[d][m]]
        /\ \A k \in B[u.child[d][m]] : k \notin B[u.child[Other(d)][m]]
  BY SMTT(30), <1>3, <1>4, Sides
<1>8. \A m \in In(u) : \A k \in B[m] : k \in In(u)
  <2> TAKE m \in In(u)
  <2> TAKE k \in B[m]
  <2>1. m \in Node /\ m # n /\ m \in In(t)
    BY <1>1 DEF In
  <2>2. k \in below[m] /\ k # n /\ k \in Node
    BY <1>3, <2>1
  <2> QED BY <1>1, <1>4, <2>1, <2>2
<1>9. IsFiniteSet(In(u))
  <2>1. In(u) \in SUBSET In(t)
    BY <1>1 DEF In
  <2> QED BY <1>4, <2>1, FS_Subset
<1>10. Subtrees(u, B)
  BY <1>3, <1>5, <1>6, <1>7, <1>8, <1>9 DEF Subtrees
<1>11. u \in Trees
  BY DEF Removed
<1> QED BY <1>2, <1>10, <1>11, RemoveKeepsLinks DEF Shape

(* The nodes that are left stay in order.                                  *)
LEMMA RemoveKeepsOrder ==
  ASSUME NEW t, NEW below, Shape(t, below), NEW n \in In(t),
         NEW u, NEW x, NEW p, Removed(t, u, n, x, p),
         NEW R, Ordered(t, below, R)
  PROVE  Ordered(u, RemovedBelow(below, n), R)
<1>1. PICK B : B = RemovedBelow(below, n)
  OBVIOUS
<1>2. /\ B[Nil] = {} /\ \A e \in Side : u.child[e][n] = Nil
      /\ \A m \in Node, e \in Side : \A k :
           m # n => (k \in B[u.child[e][m]] <=> k \in below[t.child[e][m]] /\ k # n)
  BY <1>1, RemoveBelow
<1>3. Ordered(u, B, R)
  BY <1>2 DEF Ordered
<1> QED BY <1>1, <1>3

(* Two nodes are not below each other.                                     *)
LEMMA BelowOneWay ==
  ASSUME NEW t, NEW below, Shape(t, below), NEW x \in Node, NEW y \in Node,
         x \in below[y], y \in below[x]
  PROVE  x = y
<1> SUFFICES ASSUME x # y PROVE FALSE
  OBVIOUS
<1>1. PICK d \in Side : x \in below[t.child[d][y]]
  BY BelowParts
<1>2. t.child[d][y] # Nil
  BY <1>1 DEF Shape, Subtrees
<1>3. t.child[d][y] \in Node
  BY <1>2, ChildFacts
<1>4. y \in below[t.child[d][y]]
  BY <1>1, <1>3, BelowBelow
<1> QED BY <1>4 DEF Shape, Subtrees

(* The parent of a node in a subtree, other than its head, is in it too.   *)
LEMMA BelowParent ==
  ASSUME NEW t, NEW below, Shape(t, below), NEW y \in Node, NEW x \in below[y], x # y
  PROVE  t.parent[x] \in below[y]
<1>1. PICK e \in Side : x \in below[t.child[e][y]]
  BY BelowParts
<1>2. t.child[e][y] # Nil
  BY <1>1 DEF Shape, Subtrees
<1>3. y \in In(t) /\ x \in Node /\ x \in In(t)
  BY <1>2, ChildFacts, BelowIn, BelowParts
<1>4. x # t.root
  <2>1. CASE x = t.root
    <3>1. y \in below[x]
      BY <1>3, <2>1 DEF Shape, Subtrees
    <3> QED BY <1>3, <3>1, BelowOneWay
  <2> QED BY <2>1
<1>5. PICK p \in Node : p = t.parent[x] /\ \E d \in Side : t.child[d][p] = x
  BY <1>3, <1>4, ParentFacts
<1>6. PICK d \in Side : t.child[d][p] = x
  BY <1>5
<1>7. x \in below[x] /\ x \in below[p]
  BY <1>3, <1>5, <1>6, BelowParts
<1>8. p \in below[y] \/ y \in below[p]
  BY <1>3, <1>5, <1>7, Nested
<1>9. CASE y \in below[p] /\ y # p
  <2>0. y = p \/ \E f \in Side : y \in below[t.child[f][p]]
    <3>1. p \in Node /\ y \in below[p]
      BY <1>5, <1>9
    <3> QED BY <3>1, BelowParts
  <2>1. PICK f \in Side : y \in below[t.child[f][p]]
    BY <1>9, <2>0
  <2>2. f = d \/ f = Other(d)
    BY Sides
  <2>3. CASE f = d
    BY <1>3, <1>6, <2>1, <2>3, BelowOneWay
  <2>4. CASE f = Other(d)
    <3>1. t.child[f][p] # Nil
      BY <2>1 DEF Shape, Subtrees
    <3>2. x \in below[t.child[f][p]]
      BY <1>5, <2>1, <3>1, ChildFacts, BelowBelow
    <3> QED BY <1>5, <1>6, <1>7, <2>4, <3>2 DEF Shape, Subtrees
  <2> QED BY <2>2, <2>3, <2>4
<1>10. y = p => p \in below[y]
  BY BelowParts
<1> QED BY <1>5, <1>8, <1>9, <1>10

(* The two sides by name.                                                  *)
LEMMA LeftRight ==
  "left" \in Side /\ "right" \in Side /\ Other("left") = "right" /\ Other("right") = "left"
BY DEF Side, Other

(* w is the last node on side d of the subtree of n.                       *)
OuterIs(t, below, n, d, w) ==
  /\ w \in below[n] /\ t.child[d][w] = Nil
  /\ \A m \in below[n] : w \notin below[t.child[Other(d)][m]]

(* The first node stays the first if another one leaves.                   *)
LEMMA RemoveKeepsFirst ==
  ASSUME NEW t, NEW below, Shape(t, below), NEW n \in In(t),
         NEW u, NEW x, NEW p, Removed(t, u, n, x, p),
         NEW first, FirstIs(t, below, first), first # n
  PROVE  FirstIs(u, RemovedBelow(below, n), first)
<1>1. PICK B : B = RemovedBelow(below, n)
  OBVIOUS
<1>2. /\ B[Nil] = {} /\ \A e \in Side : u.child[e][n] = Nil
      /\ \A m \in Node, e \in Side : \A k :
           m # n => (k \in B[u.child[e][m]] <=> k \in below[t.child[e][m]] /\ k # n)
  BY <1>1, RemoveBelow
<1>3. t.root # Nil
  BY DEF Shape, Subtrees
<1>4. /\ first \in In(t) /\ t.child["left"][first] = Nil /\ first \in Node
      /\ \A m \in Node : first \notin below[t.child["right"][m]]
  BY <1>3 DEF FirstIs, In
<1>5. first \in In(u) /\ n # Nil
  BY <1>4, RemoveKeepsIn
<1>6. u.root # Nil
  <2>1. Shape(u, B)
    BY <1>1, RemoveKeepsShape
  <2> QED BY <1>5, <2>1 DEF Shape, Subtrees
<1>7. u.child["left"][first] = Nil
  BY <1>4, <1>5 DEF Removed, Side
<1>8. \A m \in Node : first \notin B[u.child["right"][m]]
  BY <1>2, <1>4 DEF Side
<1> QED BY <1>1, <1>5, <1>6, <1>7, <1>8 DEF FirstIs

(* After the first node comes the first of its subtree, or else its        *)
(* parent.                                                                 *)
LEMMA RemoveLeftmost ==
  ASSUME NEW t, NEW below, Shape(t, below), NEW n \in In(t),
         NEW u, NEW x, NEW p, Removed(t, u, n, x, p), FirstIs(t, below, n),
         NEW w, x = Nil => w = p, x # Nil => OuterIs(t, below, x, "left", w)
  PROVE  FirstIs(u, RemovedBelow(below, n), w)
<1>0. "left" \in Side /\ "right" \in Side /\ Other("left") = "right"
  BY LeftRight
<1>1. PICK B : B = RemovedBelow(below, n)
  OBVIOUS
<1>2. /\ B[Nil] = {} /\ \A e \in Side : u.child[e][n] = Nil
      /\ \A m \in Node, e \in Side : \A k :
           m # n => (k \in B[u.child[e][m]] <=> k \in below[t.child[e][m]] /\ k # n)
  BY <1>1, RemoveBelow
<1>3. n \in Node /\ n # Nil /\ t.child["left"][n] = Nil /\ t.root # Nil
      /\ \A m \in Node : n \notin below[t.child["right"][m]]
  BY InNode DEF FirstIs, Shape, Subtrees
<1>4. x = t.child["right"][n]
  <2>1. PICK d \in Side : t.child[Other(d)][n] = Nil /\ x = t.child[d][n]
    BY DEF Removed
  <2> QED BY <1>3, <2>1 DEF Side, Other
<1>5. /\ u.root = (IF n = t.root THEN x ELSE t.root)
      /\ \A e \in Side, m \in Node :
           u.child[e][m] = IF m = n THEN Nil ELSE IF t.child[e][m] = n THEN x ELSE t.child[e][m]
  BY DEF Removed
<1>6. Shape(u, B)
  BY <1>1, RemoveKeepsShape
<1>7. \A m \in Node : m \in In(u) <=> m \in In(t) /\ m # n
  BY RemoveKeepsIn
<1>8. CASE x = Nil
  <2>1. w = p
    BY <1>8
  <2>2. CASE p = Nil
    <3>1. u.root = Nil
      BY <1>5, <1>8, <2>2, RemoveKeepsIn
    <3> QED BY <1>1, <2>1, <2>2, <3>1 DEF FirstIs
  <2>3. CASE p # Nil
    <3>1. p = t.parent[n] /\ n # t.root
      BY <2>3, RemoveKeepsIn DEF Removed
    <3>2. PICK e \in Side : t.child[e][p] = n
      BY <3>1, ParentFacts
    <3>3. p \in Node /\ p \in In(t) /\ p # n /\ n \in below[p]
      BY <1>3, <3>1, <3>2, ParentFacts, ChildFacts
    <3>4. e = "left"
      <4>1. n \in below[n]
        BY <1>3, BelowParts
      <4> QED BY <1>3, <3>2, <3>3, <4>1 DEF Side
    <3>5. u.child["left"][p] = Nil
      BY <1>0, <1>5, <1>8, <3>2, <3>3, <3>4
    <3>6. p \in In(u) /\ u.root # Nil
      <4>1. p \in In(u)
        BY <1>7, <3>3
      <4> QED BY <1>6, <4>1 DEF Shape, Subtrees
    <3>7. ASSUME NEW m \in Node, p \in B[u.child["right"][m]] PROVE FALSE
      <4>1. m # n /\ p \in below[t.child["right"][m]]
        BY <1>0, <1>2, <3>7
      <4>2. t.child["right"][m] \in Node
        BY ZenonT(40), <1>0, <4>1, BelowParts DEF Shape, Subtrees
      <4>3. n \in below[t.child["right"][m]]
        BY <3>3, <4>1, <4>2, BelowBelow
      <4> QED BY <1>3, <4>3
    <3> QED BY <1>1, <2>1, <3>5, <3>6, <3>7 DEF FirstIs
  <2> QED BY <2>2, <2>3
<1>9. CASE x # Nil
  <2>1. x \in Node /\ x \in In(t)
    BY <1>9, RemoveKeepsIn
  <2>2. /\ w \in below[x] /\ t.child["left"][w] = Nil
        /\ \A m \in below[x] : w \notin below[t.child["right"][m]]
    BY <1>0, <1>9 DEF OuterIs
  <2>3. n \notin below[x]
    BY <1>0, <1>3, <1>4, BelowParts
  <2>4. w \in Node /\ w \in In(u) /\ w # n
    BY <1>7, <2>1, <2>2, <2>3, BelowIn
  <2>5. u.root # Nil
    BY <1>6, <2>4 DEF Shape, Subtrees
  <2>6. u.child["left"][w] = Nil
    BY <1>0, <1>3, <1>5, <2>2, <2>4
  <2>7. ASSUME NEW m \in Node, w \in B[u.child["right"][m]] PROVE FALSE
    <3>1. m # n /\ w \in below[t.child["right"][m]]
      BY <1>0, <1>2, <2>7
    <3>2. PICK y \in Node : y = t.child["right"][m] /\ y # Nil
      <4>1. t.child["right"][m] \in Node \cup {Nil}
        BY <1>0, BelowParts
      <4>2. t.child["right"][m] # Nil
        BY <3>1 DEF Shape, Subtrees
      <4> QED BY <4>1, <4>2
    <3>3. t.parent[y] = m /\ t.parent[x] = n
      BY <1>0, <1>3, <1>4, <1>9, <3>2, ChildFacts
    <3>4. x # y
      BY <3>1, <3>3
    <3>5. x \in below[y] \/ y \in below[x]
      BY <2>1, <2>2, <2>4, <3>1, <3>2, Nested
    <3>6. CASE x \in below[y]
      <4>1. n \in below[y]
        BY <3>2, <3>3, <3>4, <3>6, BelowParent
      <4> QED BY <1>3, <3>2, <4>1
    <3>7. CASE y \in below[x]
      <4>1. m \in below[x]
        BY <2>1, <3>3, <3>4, <3>7, BelowParent
      <4> QED BY <2>2, <3>1, <4>1
    <3> QED BY <3>5, <3>6, <3>7
  <2> QED BY <1>1, <2>4, <2>5, <2>6, <2>7 DEF FirstIs
<1> QED BY <1>8, <1>9

-----------------------------------------------------------------------------
(* Linking in a leaf keeps the shape                                       *)

(* n is a leaf on side d of p, or the root.                                *)
Added(t, u, n, p, d) ==
  /\ u \in Trees /\ u.root = (IF p = Nil THEN n ELSE t.root)
  /\ \A e \in Side, m \in Node :
       u.child[e][m] = IF m = n THEN Nil ELSE IF m = p /\ e = d THEN n ELSE t.child[e][m]
  /\ \A m \in Node : u.parent[m] = IF m = n THEN p ELSE t.parent[m]

(* What is below each node then.                                           *)
AddedBelow(below, n, p) ==
  [m \in Node \cup {Nil} |-> IF m = n THEN {n} ELSE IF p \in below[m] THEN below[m] \cup {n} ELSE below[m]]

(* There is room for n on side d of p, or no other node.                   *)
Room(t, n, p, d) ==
  /\ n \in Node /\ n \notin In(t) /\ d \in Side
  /\ IF p = Nil THEN t.root = Nil ELSE p \in In(t) /\ t.child[d][p] = Nil

(* Nothing pointed to n, and nothing else has come into the tree.          *)
AddFields(t, u, below, n, p, d) ==
  /\ n \in Node /\ n # Nil /\ p \in Node \cup {Nil} /\ p # n /\ d \in Side
  /\ \A m \in Node : m \in In(u) <=> m \in In(t) \/ m = n
  /\ \A e \in Side : t.child[e][n] = Nil /\ u.child[e][n] = Nil
  /\ \A m \in Node, e \in Side : t.child[e][m] # n
  /\ \A m \in Node : n \in below[m] <=> m = n

(* The subtrees before and after.                                          *)
AddSubtrees(t, u, below, B, n, p, d) ==
  /\ B \in [Node \cup {Nil} -> SUBSET Node] /\ B[n] = {n} /\ B[Nil] = {}
  /\ \A m \in Node \cup {Nil} : \A k :
       m # n => (k \in B[m] <=> k \in below[m] \/ (k = n /\ p \in below[m]))
  /\ \A m \in Node, e \in Side : \A k :
       m # n => (k \in B[u.child[e][m]] <=>
                   \/ k \in below[t.child[e][m]]
                   \/ k = n /\ (p \in below[t.child[e][m]] \/ (m = p /\ e = d)))

(* A node that is linked in joins the subtrees of all nodes that p is      *)
(* below.                                                                  *)
LEMMA AddFacts ==
  ASSUME NEW t, NEW below, Shape(t, below), NEW u, NEW n, NEW p, NEW d,
         Room(t, n, p, d), Added(t, u, n, p, d), NEW B, B = AddedBelow(below, n, p)
  PROVE  AddFields(t, u, below, n, p, d) /\ AddSubtrees(t, u, below, B, n, p, d)
<1>1. n \in Node /\ n # Nil /\ n \notin In(t) /\ d \in Side
  BY RbTreeConstants DEF Room
<1>2. p \in Node \cup {Nil} /\ p # n /\ (p # Nil => p \in In(t) /\ t.child[d][p] = Nil) /\ (p = Nil => t.root = Nil)
  BY <1>1 DEF Room, In
<1>3. \A m \in Node : m \in In(u) <=> m \in In(t) \/ m = n
  <2> TAKE m \in Node
  <2>1. u.root = (IF p = Nil THEN n ELSE t.root) /\ u.parent[m] = IF m = n THEN p ELSE t.parent[m]
    BY DEF Added
  <2>2. m = n => m \in In(u)
    BY <1>2, <2>1 DEF In
  <2> QED BY <1>1, <1>2, <2>1, <2>2, RbTreeConstants DEF In
<1>4. \A e \in Side : t.child[e][n] = Nil /\ u.child[e][n] = Nil
  BY <1>1 DEF Shape, Links, Added
<1>5. \A m \in Node, e \in Side : t.child[e][m] # n
  BY <1>1, ChildFacts
<1>6. \A m \in Node : n \in below[m] <=> m = n
  BY <1>1, BelowParts, BelowIn
<1>7. /\ below \in [Node \cup {Nil} -> SUBSET Node] /\ below[Nil] = {}
  BY DEF Shape, Subtrees
<1>8. /\ B \in [Node \cup {Nil} -> SUBSET Node] /\ B[n] = {n} /\ B[Nil] = {}
      /\ \A m \in Node \cup {Nil} : \A k : m # n => (k \in B[m] <=> k \in below[m] \/ (k = n /\ p \in below[m]))
  BY <1>1, <1>7 DEF AddedBelow
<1>9. ASSUME NEW m \in Node, NEW e \in Side, NEW k, m # n
      PROVE  k \in B[u.child[e][m]] <=> \/ k \in below[t.child[e][m]]
                                        \/ k = n /\ (p \in below[t.child[e][m]] \/ (m = p /\ e = d))
  <2>1. u.child[e][m] = IF m = p /\ e = d THEN n ELSE t.child[e][m]
    BY <1>9 DEF Added
  <2>2. t.child[e][m] \in Node \cup {Nil} /\ t.child[e][m] # n
    BY <1>5, BelowParts
  <2>3. CASE m = p /\ e = d
    BY <1>2, <1>7, <1>8, <2>1, <2>3, RbTreeConstants
  <2>4. CASE ~(m = p /\ e = d)
    BY <1>8, <2>1, <2>2, <2>4
  <2> QED BY <2>3, <2>4
<1>10. AddFields(t, u, below, n, p, d)
  BY <1>1, <1>2, <1>3, <1>4, <1>5, <1>6 DEF AddFields
<1>11. AddSubtrees(t, u, below, B, n, p, d)
  BY <1>8, <1>9 DEF AddSubtrees
<1> QED BY <1>10, <1>11

(* Linking in a leaf makes a tree of a tree.                               *)
LEMMA AddKeepsShape ==
  ASSUME NEW t, NEW below, Shape(t, below), NEW u, NEW n, NEW p, NEW d,
         Room(t, n, p, d), Added(t, u, n, p, d)
  PROVE  Shape(u, AddedBelow(below, n, p))
<1>1. PICK B : B = AddedBelow(below, n, p)
  OBVIOUS
<1>0. AddFields(t, u, below, n, p, d) /\ AddSubtrees(t, u, below, B, n, p, d)
  BY <1>1, AddFacts
<1>2. /\ n \in Node /\ n # Nil /\ p \in Node \cup {Nil} /\ p # n /\ d \in Side
      /\ \A m \in Node : m \in In(u) <=> m \in In(t) \/ m = n
      /\ \A e \in Side : t.child[e][n] = Nil /\ u.child[e][n] = Nil
      /\ \A m \in Node, e \in Side : t.child[e][m] # n
      /\ \A m \in Node : n \in below[m] <=> m = n
  BY <1>0 DEF AddFields
<1>3. /\ B \in [Node \cup {Nil} -> SUBSET Node] /\ B[n] = {n} /\ B[Nil] = {}
      /\ \A m \in Node \cup {Nil} : \A k : m # n => (k \in B[m] <=> k \in below[m] \/ (k = n /\ p \in below[m]))
      /\ \A m \in Node, e \in Side : \A k :
           m # n => (k \in B[u.child[e][m]] <=>
                       \/ k \in below[t.child[e][m]]
                       \/ k = n /\ (p \in below[t.child[e][m]] \/ (m = p /\ e = d)))
  BY <1>0 DEF AddSubtrees
<1>4. /\ below[t.root] = In(t) /\ IsFiniteSet(In(t)) /\ below[Nil] = {}
      /\ \A m \in Node :
           below[m] = {m} \cup below[t.child["left"][m]] \cup below[t.child["right"][m]]
      /\ \A m \in Node, e \in Side :
           /\ m \notin below[t.child[e][m]]
           /\ \A k \in below[t.child[e][m]] : k \notin below[t.child[Other(e)][m]]
      /\ \A m \in In(t) : \A k \in below[m] : k \in In(t)
  BY DEF Shape, Subtrees
<1>5. n \notin In(t) /\ (p # Nil => p \in In(t) /\ t.child[d][p] = Nil) /\ (p = Nil => t.root = Nil)
      /\ t.root \in Node \cup {Nil}
  BY DEF Room, Shape, Trees
<1>6. /\ u.root = (IF p = Nil THEN n ELSE t.root)
      /\ \A e \in Side, m \in Node :
           u.child[e][m] = IF m = n THEN Nil ELSE IF m = p /\ e = d THEN n ELSE t.child[e][m]
      /\ \A m \in Node : u.parent[m] = IF m = n THEN p ELSE t.parent[m]
  BY DEF Added
<1>7. Links(u)
  <2>0. /\ t.root # Nil => t.parent[t.root] = Nil
        /\ \A m \in Node, e \in Side :
             t.child[e][m] # Nil => /\ t.child[e][m] \in Node
                                    /\ t.parent[t.child[e][m]] = m
                                    /\ t.child[e][m] # t.child[Other(e)][m]
        /\ \A m \in Node : t.parent[m] # Nil => /\ t.parent[m] \in Node
                                                /\ \E e \in Side : t.child[e][t.parent[m]] = m
        /\ \A m \in Node, e \in Side : m \notin In(t) => t.child[e][m] = Nil
    BY DEF Shape, Links, Trees
  <2>1. u.root # Nil => u.parent[u.root] = Nil
    BY <1>2, <1>5, <1>6, <2>0 DEF In
  <2>2. ASSUME NEW m \in Node, NEW e \in Side, u.child[e][m] # Nil
        PROVE  u.parent[u.child[e][m]] = m /\ u.child[e][m] # u.child[Other(e)][m]
    <3>0. Other(e) \in Side /\ Other(e) # e /\ m # n
      BY <1>2, <2>2, Sides
    <3>1. /\ u.child[e][m] = (IF m = p /\ e = d THEN n ELSE t.child[e][m])
          /\ u.child[Other(e)][m] = (IF m = p /\ Other(e) = d THEN n ELSE t.child[Other(e)][m])
      BY <1>6, <3>0
    <3>2. CASE m = p /\ e = d
      BY <1>2, <1>6, <3>0, <3>1, <3>2
    <3>3. CASE ~(m = p /\ e = d)
      BY <1>2, <1>6, <2>0, <2>2, <3>0, <3>1, <3>3
    <3> QED BY <3>2, <3>3
  <2>3. ASSUME NEW m \in Node, u.parent[m] # Nil
        PROVE  \E e \in Side : u.child[e][u.parent[m]] = m
    <3>1. CASE m = n
      BY <1>2, <1>6, <2>3, <3>1
    <3>2. CASE m # n
      <4>1. u.parent[m] = t.parent[m] /\ t.parent[m] \in Node
        BY <1>6, <2>0, <2>3, <3>2
      <4>2. PICK e \in Side : t.child[e][t.parent[m]] = m
        BY <2>0, <2>3, <4>1
      <4>3. m # Nil
        BY RbTreeConstants
      <4>4. t.parent[m] # n
        BY <1>2, <4>2, <4>3
      <4>5. ~(t.parent[m] = p /\ e = d)
        BY <1>5, <4>1, <4>2, <4>3, RbTreeConstants
      <4>6. u.child[e][t.parent[m]] = m
        BY <1>6, <4>1, <4>2, <4>4, <4>5
      <4> QED BY <4>1, <4>6
    <3> QED BY <3>1, <3>2
  <2>4. ASSUME NEW m \in Node, NEW e \in Side, m \notin In(u)
        PROVE  u.child[e][m] = Nil
    <3>1. m \notin In(t) /\ m # n
      BY <1>2, <2>4
    <3>2. m # p
      BY <1>5, <3>1, RbTreeConstants
    <3> QED BY <1>6, <2>0, <3>1, <3>2
  <2> QED BY <2>1, <2>2, <2>3, <2>4 DEF Links
<1>8. B[u.root] = In(u)
  <2>1. CASE p = Nil
    <3>1. In(t) = {}
      BY <1>4, <1>5, <2>1
    <3>2. \A k : k \in In(u) <=> k = n
      BY <1>2, <3>1 DEF In
    <3>3. u.root = n
      BY <1>6, <2>1
    <3>4. B[n] = {n} /\ In(u) = {n}
      BY <1>3, <3>2
    <3> QED BY <3>3, <3>4
  <2>2. CASE p # Nil
    <3>1. t.root # n
      <4>1. t.root \in In(t) \/ t.root = Nil
        BY <1>5 DEF In
      <4> QED BY <1>2, <1>5, <4>1
    <3>2. \A k : k \in B[t.root] <=> k \in In(t) \/ k = n
      BY <1>3, <1>4, <1>5, <2>2, <3>1
    <3>3. \A k : k \in In(u) <=> k \in In(t) \/ k = n
      BY <1>2 DEF In
    <3> QED BY Zenon, <1>6, <2>2, <3>2, <3>3
  <2> QED BY <2>1, <2>2
<1>9. ASSUME NEW m \in Node
      PROVE  B[m] = {m} \cup B[u.child["left"][m]] \cup B[u.child["right"][m]]
  <2>1. CASE m = n
    BY <1>2, <1>3, <2>1 DEF Side
  <2>2. CASE m # n
    <3>1. \A k : k \in B[m] <=> k \in below[m] \/ (k = n /\ p \in below[m])
      BY <1>3, <2>2
    <3>2. \A k : k \in below[m] <=> k = m \/ k \in below[t.child["left"][m]] \/ k \in below[t.child["right"][m]]
      BY <1>4
    <3>3. "left" \in Side /\ "right" \in Side /\ (d = "left" \/ d = "right")
      BY <1>2 DEF Side
    <3>4. \A k : k \in B[m] <=> k = m \/ k \in B[u.child["left"][m]] \/ k \in B[u.child["right"][m]]
      BY <1>3, <2>2, <3>1, <3>2, <3>3
    <3> QED BY <3>4
  <2> QED BY <2>1, <2>2
<1>10. ASSUME NEW m \in Node, NEW e \in Side
       PROVE  /\ m \notin B[u.child[e][m]]
              /\ \A k \in B[u.child[e][m]] : k \notin B[u.child[Other(e)][m]]
  <2>1. CASE m = n
    BY <1>2, <1>3, <2>1, Sides
  <2>2. CASE m # n
    <3>1. Other(e) \in Side /\ Other(e) # e
      BY Sides
    <3>2. m \notin B[u.child[e][m]]
      BY <1>3, <1>4, <2>2
    <3>3. ASSUME NEW k, k \in B[u.child[e][m]], k \in B[u.child[Other(e)][m]] PROVE FALSE
      <4>1. t.child[e][m] \in Node \cup {Nil} /\ t.child[Other(e)][m] \in Node \cup {Nil}
        BY <3>1, BelowParts
      <4>2. n \notin below[t.child[e][m]] /\ n \notin below[t.child[Other(e)][m]]
        BY <1>2, <1>4, <3>1, <4>1
      <4>3. m = p => p \notin below[t.child[e][m]] /\ p \notin below[t.child[Other(e)][m]]
        BY <1>4, <3>1
      <4>4. /\ \/ k \in below[t.child[e][m]]
               \/ k = n /\ (p \in below[t.child[e][m]] \/ (m = p /\ e = d))
            /\ \/ k \in below[t.child[Other(e)][m]]
               \/ k = n /\ (p \in below[t.child[Other(e)][m]] \/ (m = p /\ Other(e) = d))
        <5>1. \A f \in Side : k \in B[u.child[f][m]] =>
                 \/ k \in below[t.child[f][m]]
                 \/ k = n /\ (p \in below[t.child[f][m]] \/ (m = p /\ f = d))
          BY <1>3, <2>2
        <5> QED BY <3>1, <3>3, <5>1
      <4>5. CASE k # n
        BY <1>4, <4>4, <4>5
      <4>6. CASE k = n
        <5>1. /\ p \in below[t.child[e][m]] \/ (m = p /\ e = d)
              /\ p \in below[t.child[Other(e)][m]] \/ (m = p /\ Other(e) = d)
          BY <4>2, <4>4, <4>6
        <5>2. m # p
          BY <3>1, <4>3, <5>1
        <5> QED BY <1>4, <5>1, <5>2
      <4> QED BY <4>5, <4>6
    <3> QED BY <3>2, <3>3
  <2> QED BY <2>1, <2>2
<1>11. \A m \in In(u) : \A k \in B[m] : k \in In(u)
  <2> TAKE m \in In(u)
  <2> TAKE k \in B[m]
  <2>1. m \in Node
    BY DEF In
  <2>2. CASE m = n
    BY <1>2, <1>3, <2>2
  <2>3. CASE m # n
    <3>1. k \in below[m] \/ k = n
      BY <1>3, <2>1, <2>3
    <3>2. m \in In(t)
      BY <1>2, <2>1, <2>3
    <3>3. k \in below[m] => k \in In(t) /\ k \in Node
      BY <1>4, <3>2 DEF In
    <3> QED BY <1>2, <3>1, <3>3
  <2> QED BY <2>2, <2>3
<1>12. IsFiniteSet(In(u))
  <2>1. In(u) = In(t) \cup {n}
    BY <1>2 DEF In
  <2> QED BY <1>4, <2>1, FS_AddElement
<1>13. Subtrees(u, B)
  BY <1>3, <1>8, <1>9, <1>10, <1>11, <1>12 DEF Subtrees
<1>14. u \in Trees
  BY DEF Added
<1> QED BY <1>1, <1>7, <1>13, <1>14 DEF Shape

(* The new node is the first one if it is left of the first one.           *)
LEMMA AddKeepsFirst ==
  ASSUME NEW t, NEW below, Shape(t, below), NEW u, NEW n, NEW p, NEW d,
         Room(t, n, p, d), Added(t, u, n, p, d), NEW first, FirstIs(t, below, first),
         NEW f, f = IF p = Nil \/ (p = first /\ d = "left") THEN n ELSE first
  PROVE  FirstIs(u, AddedBelow(below, n, p), f)
<1>1. PICK B : B = AddedBelow(below, n, p)
  OBVIOUS
<1>0. AddFields(t, u, below, n, p, d) /\ AddSubtrees(t, u, below, B, n, p, d)
  BY <1>1, AddFacts
<1>2. /\ n \in Node /\ n # Nil /\ p \in Node \cup {Nil} /\ p # n /\ d \in Side
      /\ \A m \in Node : m \in In(u) <=> m \in In(t) \/ m = n
      /\ \A e \in Side : t.child[e][n] = Nil /\ u.child[e][n] = Nil
      /\ \A m \in Node : n \in below[m] <=> m = n
  BY <1>0 DEF AddFields
<1>3. /\ B[n] = {n} /\ B[Nil] = {}
      /\ \A m \in Node, e \in Side : \A k :
           m # n => (k \in B[u.child[e][m]] <=>
                       \/ k \in below[t.child[e][m]]
                       \/ k = n /\ (p \in below[t.child[e][m]] \/ (m = p /\ e = d)))
  BY <1>0 DEF AddSubtrees
<1>4. n \notin In(t) /\ (p # Nil => p \in In(t) /\ t.child[d][p] = Nil) /\ (p = Nil => t.root = Nil)
  BY DEF Room
<1>5. /\ u.root = (IF p = Nil THEN n ELSE t.root)
      /\ \A e \in Side, m \in Node :
           u.child[e][m] = IF m = n THEN Nil ELSE IF m = p /\ e = d THEN n ELSE t.child[e][m]
  BY DEF Added
<1>6. "left" \in Side /\ "right" \in Side /\ \A m \in Node, e \in Side : t.child[e][m] \in Node \cup {Nil}
  BY BelowParts DEF Side
<1>7. \A m \in Node, e \in Side : n \notin below[t.child[e][m]]
  <2> TAKE m \in Node, e \in Side
  <2>1. t.child[e][m] # n
    BY <1>0 DEF AddFields
  <2>2. below[Nil] = {}
    BY DEF Shape, Subtrees
  <2> QED BY <1>2, <1>6, <2>1, <2>2
<1>8. u.root # Nil
  <2>1. p # Nil => t.root # Nil
    BY <1>4 DEF Shape, Subtrees
  <2> QED BY <1>2, <1>5, <2>1
<1>9. CASE p = Nil
  <2>1. In(t) = {} /\ \A m \in Node, e \in Side : t.child[e][m] = Nil
    <3>1. In(t) = {}
      BY <1>4, <1>9 DEF Shape, Subtrees
    <3> QED BY <3>1 DEF Shape, Links
  <2>2. ASSUME NEW m \in Node PROVE n \notin B[u.child["right"][m]]
    <3>1. u.child["right"][m] = Nil
      <4>1. m # p
        BY <1>9, RbTreeConstants
      <4> QED BY <1>5, <1>6, <2>1, <4>1
    <3> QED BY <1>3, <3>1
  <2> QED BY <1>1, <1>2, <1>6, <1>8, <1>9, <2>2 DEF FirstIs
<1>10. CASE p # Nil
  <2>1. /\ first \in In(t) /\ t.child["left"][first] = Nil /\ first \in Node /\ first # n
        /\ \A m \in Node : first \notin below[t.child["right"][m]]
    <3>1. t.root # Nil
      BY <1>4, <1>10 DEF Shape, Subtrees
    <3> QED BY <1>4, <3>1 DEF FirstIs, In
  <2>2. CASE p = first /\ d = "left"
    <3>1. \A m \in Node : n \notin B[u.child["right"][m]]
      BY <1>2, <1>3, <1>6, <1>7, <2>1, <2>2
    <3> QED BY <1>1, <1>2, <1>6, <1>8, <2>2, <3>1 DEF FirstIs
  <2>3. CASE ~(p = first /\ d = "left")
    <3>1. \A m \in Node : first \notin B[u.child["right"][m]]
      BY <1>2, <1>3, <1>6, <2>1
    <3>2. u.child["left"][first] = Nil
      BY <1>5, <1>6, <2>1, <2>3
    <3>3. first \in In(u)
      BY <1>2, <2>1
    <3> QED BY <1>1, <1>8, <1>10, <2>3, <3>1, <3>2, <3>3 DEF FirstIs
  <2> QED BY <2>2, <2>3
<1> QED BY <1>9, <1>10

(* Nodes stay in order if the new one is, as to the nodes above it.        *)
LEMMA AddKeepsOrder ==
  ASSUME NEW t, NEW below, Shape(t, below), NEW u, NEW n, NEW p, NEW d,
         Room(t, n, p, d), Added(t, u, n, p, d), NEW R, Ordered(t, below, R),
         \A m \in Node, e \in Side :
           p \in below[t.child[e][m]] \/ (m = p /\ e = d) => Precedes(R, e, n, m)
  PROVE  Ordered(u, AddedBelow(below, n, p), R)
<1>1. PICK B : B = AddedBelow(below, n, p)
  OBVIOUS
<1>0. AddFields(t, u, below, n, p, d) /\ AddSubtrees(t, u, below, B, n, p, d)
  BY <1>1, AddFacts
<1>2. /\ B[Nil] = {} /\ \A e \in Side : u.child[e][n] = Nil
      /\ \A m \in Node, e \in Side : \A k :
           m # n => (k \in B[u.child[e][m]] <=>
                       \/ k \in below[t.child[e][m]]
                       \/ k = n /\ (p \in below[t.child[e][m]] \/ (m = p /\ e = d)))
  BY <1>0 DEF AddFields, AddSubtrees
<1>3. ASSUME NEW m \in Node, NEW e \in Side, NEW k \in B[u.child[e][m]]
      PROVE  Precedes(R, e, k, m)
  <2>1. m # n
    BY <1>2, <1>3
  <2>2. k \in below[t.child[e][m]] \/ (k = n /\ (p \in below[t.child[e][m]] \/ (m = p /\ e = d)))
    BY <1>2, <1>3, <2>1
  <2>3. k \in below[t.child[e][m]] => Precedes(R, e, k, m)
    BY DEF Ordered
  <2> QED BY <2>2, <2>3
<1> QED BY <1>1, <1>3 DEF Ordered


-----------------------------------------------------------------------------
(* A rotation as the code does it, pointer by pointer                      *)

(* The end kept with n is the one RBCOMPUTE would find.                    *)
LocalEnd(t, n) ==
  /\ t.last[n] >= LAST[n]
  /\ \A e \in Side : t.child[e][n] # Nil => t.last[n] >= t.last[t.child[e][n]]
  /\ \/ t.last[n] = LAST[n]
     \/ \E e \in Side : t.child[e][n] # Nil /\ t.last[n] = t.last[t.child[e][n]]

(* The callback at a rotation: the new head has the end of the old one,    *)
(* which has its own computed from its new children.                       *)
Rotated(t, u, old, new) ==
  /\ OnlyLast(t, u)
  /\ ~Augmented => u.last = t.last
  /\ Augmented => /\ u.last[new] = t.last[old] /\ LocalEnd(u, old)
                  /\ \A m \in Node : m # old /\ m # new => u.last[m] = t.last[m]

(* RBROTATE does so.                                                       *)
LEMMA RotateEnds ==
  ASSUME NEW t \in Trees, NEW old \in Node, NEW new \in Node, old # new,
         \A e \in Side : t.child[e][old] # old
  PROVE  Rotated(t, Rotate(t, old, new), old, new)
<1>1. PICK v : v = Copy(t, old, new)
  OBVIOUS
<1>2. OnlyLast(t, v)
  BY <1>1, CopyFields
<1>3. CASE Augmented
  <2>1. PICK k : k = ComputeMax(v, old)
    OBVIOUS
  <2>2. PICK u : u = [v EXCEPT !.last[old] = k]
    BY Zenon
  <2>3. Rotate(t, old, new) = u
    BY <1>1, <1>3, <2>1, <2>2 DEF Rotate
  <2>4. v = [t EXCEPT !.last[new] = t.last[old]]
    BY <1>1, <1>3 DEF Copy
  <2>5. /\ v \in Trees /\ k \in Int /\ k >= LAST[old]
        /\ \A d \in Side : v.child[d][old] # Nil => k >= v.last[v.child[d][old]]
        /\ \/ k = LAST[old]
           \/ \E d \in Side : v.child[d][old] # Nil /\ k = v.last[v.child[d][old]]
    BY <1>2, <2>1, ComputeMaxType DEF OnlyLast
  <2>6. /\ v.child = t.child /\ v.last[new] = t.last[old]
        /\ \A m \in Node : m # new => v.last[m] = t.last[m]
    BY <2>4 DEF Trees
  <2>7. /\ u \in Trees /\ u.root = v.root /\ u.leftmost = v.leftmost
        /\ u.child = v.child /\ u.parent = v.parent /\ u.black = v.black
        /\ u.last[old] = k /\ \A m \in Node : m # old => u.last[m] = v.last[m]
    BY Zenon, <2>2, <2>5 DEF Trees
  <2>8. OnlyLast(t, u)
    BY <1>2, <2>7 DEF OnlyLast
  <2>9. \A d \in Side : /\ u.child[d][old] = v.child[d][old]
                        /\ v.child[d][old] # Nil => v.child[d][old] \in Node
                        /\ v.child[d][old] # old
    BY <2>5, <2>6, <2>7 DEF Trees
  <2>10. \A d \in Side : u.child[d][old] # Nil => u.last[u.child[d][old]] = v.last[v.child[d][old]]
    BY <2>7, <2>9
  <2>11. LocalEnd(u, old)
    BY <2>5, <2>7, <2>9, <2>10 DEF LocalEnd
  <2>12. Rotated(t, u, old, new)
    BY <1>3, <2>6, <2>7, <2>8, <2>11 DEF Rotated
  <2> QED BY <2>3, <2>12
<1>4. CASE ~Augmented
  <2>1. Rotate(t, old, new) = t
    BY <1>4 DEF Rotate, Copy
  <2>2. OnlyLast(t, t)
    BY DEF OnlyLast
  <2> QED BY <1>4, <2>1, <2>2 DEF Rotated
<1> QED BY <1>3, <1>4

(* The pointers before __rb_rotate_set_parents: the one of its parent to b *)
(* and the parent of b, which it sets next, may have been left behind.     *)
Middle(t, w, d, n, b, i) ==
  /\ w \in Trees /\ w.root = t.root /\ w.last = t.last
  /\ \A e \in Side, m \in Node :
       w.child[e][m] = IF e = Other(d) /\ m = n THEN i ELSE IF e = d /\ m = b THEN n
                       ELSE t.child[e][m]
  /\ \A m \in Node : m # b => w.parent[m] = IF m = i THEN n ELSE t.parent[m]

(* The ends after a rotation, and the rest of the tree.                    *)
TurnedEnds(t, u, n, b) ==
  /\ ~Augmented => u.last = t.last
  /\ Augmented => /\ u.last[b] = t.last[n] /\ LocalEnd(u, n)
                  /\ \A m \in Node : m # n /\ m # b => u.last[m] = t.last[m]

(* What a rotation does besides: ends and colours.                         *)
TurnedRest(t, w, u, n, b, black) ==
  /\ u.leftmost = w.leftmost /\ TurnedEnds(t, u, n, b)
  /\ \A m \in Node : u.black[m] = IF m = n THEN black ELSE IF m = b THEN w.black[n] ELSE w.black[m]

(* The rotation is complete when pointers from above and the ends are set. *)
LEMMA TurnUp ==
  ASSUME NEW t, NEW below, Shape(t, below), NEW d \in Side, NEW n \in Node,
         NEW b, NEW i, NEW p, b = t.child[Other(d)][n], i = t.child[d][b], p = t.parent[n],
         b # Nil, NEW w, Middle(t, w, d, n, b, i), NEW black \in BOOLEAN,
         NEW u, u = Rotate(RotateSetParents(w, n, b, black), n, b)
  PROVE  Turned(t, u, d, n, b, i, p) /\ TurnedRest(t, w, u, n, b, black)
<1>1. Around(t, d, n, b, i, p)
  BY SMTT(30), TurnNodes
<1>2. /\ b \in Node /\ i \in Node \cup {Nil} /\ p \in Node \cup {Nil}
      /\ b # n /\ i # n /\ i # b /\ p # n /\ p # b /\ (p = Nil <=> n = t.root)
  BY <1>1 DEF Around
<1>3. PICK v : v = RotateSetParents(w, n, b, black)
  OBVIOUS
<1>4. w \in Trees /\ w.parent[n] = p
  BY <1>2 DEF Middle
<1>5. HeadTurned(w, v, n, b, black)
  BY <1>2, <1>3, <1>4, RotateSetParentsFields
<1>6. /\ v \in Trees /\ v.root = (IF p = Nil THEN b ELSE w.root)
      /\ v.leftmost = w.leftmost /\ v.last = w.last
      /\ \A e \in Side, m \in Node :
           v.child[e][m] = IF m = p /\ e = (IF w.child["left"][p] = n THEN "left" ELSE "right")
                           THEN b ELSE w.child[e][m]
      /\ \A m \in Node : v.parent[m] = IF m = n THEN b ELSE IF m = b THEN p ELSE w.parent[m]
      /\ \A m \in Node : v.black[m] = IF m = n THEN black
                                      ELSE IF m = b THEN w.black[n] ELSE w.black[m]
  <2>1. /\ \A e \in Side, m \in Node :
             v.child[e][m] =
               IF /\ m = w.parent[n]
                  /\ e = (IF w.child["left"][w.parent[n]] = n THEN "left" ELSE "right")
               THEN b ELSE w.child[e][m]
        /\ \A m \in Node : v.parent[m] = IF m = n THEN b
                                         ELSE IF m = b THEN w.parent[n] ELSE w.parent[m]
        /\ v.root = (IF w.parent[n] = Nil THEN b ELSE w.root)
    BY Zenon, <1>5 DEF HeadTurned
  <2>2. /\ v \in Trees /\ v.leftmost = w.leftmost /\ v.last = w.last
        /\ \A m \in Node : v.black[m] = IF m = n THEN black
                                        ELSE IF m = b THEN w.black[n] ELSE w.black[m]
    BY Zenon, <1>5 DEF HeadTurned
  <2>3. \A e \in Side, m \in Node :
          v.child[e][m] = IF m = p /\ e = (IF w.child["left"][p] = n THEN "left" ELSE "right")
                          THEN b ELSE w.child[e][m]
    <3> TAKE e \in Side, m \in Node
    <3> DEFINE side(q) == IF w.child["left"][q] = n THEN "left" ELSE "right"
    <3>1. v.child[e][m] = IF m = w.parent[n] /\ e = side(w.parent[n]) THEN b ELSE w.child[e][m]
      BY Zenon, <2>1
    <3> HIDE DEF side
    <3>2. v.child[e][m] = IF m = p /\ e = side(p) THEN b ELSE w.child[e][m]
      BY <1>4, <3>1
    <3> QED BY Zenon, <3>2 DEF side
  <2>4. \A m \in Node : v.parent[m] = IF m = n THEN b ELSE IF m = b THEN p ELSE w.parent[m]
    <3> TAKE m \in Node
    <3> QED BY Zenon, <1>4, <2>1
  <2>5. v.root = (IF p = Nil THEN b ELSE w.root)
    BY Zenon, <1>4, <2>1
  <2> QED BY Zenon, <2>2, <2>3, <2>4, <2>5
<1>7. /\ w.root = t.root /\ w.last = t.last
      /\ \A e \in Side, m \in Node :
           w.child[e][m] = IF e = Other(d) /\ m = n THEN i ELSE IF e = d /\ m = b THEN n
                           ELSE t.child[e][m]
      /\ \A m \in Node : m # b => w.parent[m] = IF m = i THEN n ELSE t.parent[m]
  BY DEF Middle
<1>8. Other(d) \in Side /\ Other(d) # d /\ \A e \in Side : e = d \/ e = Other(d)
  BY SMTT(30), Sides
<1>9. \A e \in Side : v.child[e][n] # n
  <2>1. t.child[d][n] # n
    BY SMTT(30), ChildFacts, RbTreeConstants
  <2> QED
    <3>1. /\ b # n /\ i # n
          /\ \A e \in Side, m \in Node :
               v.child[e][m] = IF m = p /\ e = (IF w.child["left"][p] = n THEN "left"
                               ELSE "right") THEN b ELSE w.child[e][m]
          /\ \A e \in Side, m \in Node :
               w.child[e][m] = IF e = Other(d) /\ m = n THEN i ELSE IF e = d /\ m = b THEN n
                               ELSE t.child[e][m]
          /\ \A e \in Side : e = d \/ e = Other(d)
          /\ t.child[d][n] # n
      BY <1>2, <1>6, <1>7, <1>8, <2>1
    <3> QED BY SMTT(30), <3>1
<1>10. Rotated(v, u, n, b)
  <2>1. v \in Trees /\ n \in Node /\ b \in Node /\ n # b
    BY <1>2, <1>6
  <2>2. Rotated(v, Rotate(v, n, b), n, b)
    BY Zenon, <1>9, <2>1, RotateEnds
  <2>3. u = Rotate(v, n, b)
    BY <1>3
  <2> QED BY <2>2, <2>3
<1>11. /\ OnlyLast(v, u) /\ (~Augmented => u.last = v.last)
       /\ Augmented => /\ u.last[b] = v.last[n] /\ LocalEnd(u, n)
                       /\ \A m \in Node : m # n /\ m # b => u.last[m] = v.last[m]
  BY Zenon, <1>10 DEF Rotated
<1>12. /\ u \in Trees /\ u.root = v.root /\ u.leftmost = v.leftmost
       /\ u.child = v.child /\ u.parent = v.parent /\ u.black = v.black
  BY <1>11 DEF OnlyLast
<1>13. ASSUME NEW e \in Side, p # Nil
       PROVE  (e = (IF w.child["left"][p] = n THEN "left" ELSE "right")) <=> t.child[e][p] = n
  <2>1. p \in Node /\ n # Nil
    BY <1>2, <1>13, RbTreeConstants
  <2>2. w.child["left"][p] = t.child["left"][p]
    BY <1>2, <1>7, <2>1, Sides
  <2>3. \E a \in Side : t.child[a][p] = n
    BY <1>13 DEF Shape, Links
  <2>4. t.child["left"][p] = n => t.child["right"][p] # n
    BY SMTT(30), <2>1, OneParent, Sides
  <2> QED BY <2>1, <2>2, <2>3, <2>4, Sides
<1>14. \A e \in Side, m \in Node :
         u.child[e][m] = IF e = Other(d) /\ m = n THEN i ELSE IF e = d /\ m = b THEN n
                         ELSE IF m = p /\ t.child[e][m] = n THEN b ELSE t.child[e][m]
  <2> TAKE e \in Side, m \in Node
  <2>1. u.child[e][m] = IF m = p /\ e = (IF w.child["left"][p] = n THEN "left" ELSE "right")
                        THEN b ELSE w.child[e][m]
    <3>1. u.child[e][m] = v.child[e][m]
      BY <1>12
    <3> QED BY Zenon, <1>6, <3>1
  <2>2. w.child[e][m] = IF e = Other(d) /\ m = n THEN i ELSE IF e = d /\ m = b THEN n
                        ELSE t.child[e][m]
    BY Zenon, <1>7
  <2>3. m = p => p # Nil /\ p # n /\ p # b
    BY <1>2, RbTreeConstants
  <2> QED BY Zenon, <1>13, <2>1, <2>2, <2>3
<1>15. \A m \in Node : u.parent[m] = IF m = b THEN p ELSE IF m = n THEN b
                                     ELSE IF m = i THEN n ELSE t.parent[m]
  <2>1. /\ b # n
        /\ \A m \in Node : v.parent[m] = IF m = n THEN b ELSE IF m = b THEN p ELSE w.parent[m]
        /\ \A m \in Node : m # b => w.parent[m] = IF m = i THEN n ELSE t.parent[m]
        /\ u.parent = v.parent
    BY Zenon, <1>2, <1>6, <1>7, <1>12
  <2> QED BY Zenon, <2>1
<1>16. u.root = (IF n = t.root THEN b ELSE t.root)
  BY Zenon, <1>2, <1>6, <1>7, <1>12
<1>17. Turned(t, u, d, n, b, i, p)
  BY Zenon, <1>12, <1>14, <1>15, <1>16 DEF Turned
<1>18. TurnedRest(t, w, u, n, b, black)
  <2>1. u.leftmost = w.leftmost
    BY <1>6, <1>12
  <2>2. \A m \in Node : u.black[m] = IF m = n THEN black
                                     ELSE IF m = b THEN w.black[n] ELSE w.black[m]
    <3>1. /\ \A m \in Node :
               v.black[m] = IF m = n THEN black ELSE IF m = b THEN w.black[n] ELSE w.black[m]
          /\ u.black = v.black
      BY Zenon, <1>6, <1>12
    <3> QED BY <3>1
  <2>3. v.last = t.last
    BY <1>6, <1>7
  <2> QED BY <1>11, <2>1, <2>2, <2>3 DEF TurnedRest, TurnedEnds
<1> QED BY <1>17, <1>18

(* The same pointers after those of every rotation, when one of n and the  *)
(* parent of b were already behind.                                        *)
Almost(t, h, d, n, b) ==
  /\ h \in Trees /\ h.root = t.root /\ h.last = t.last
  /\ \A e \in Side, m \in Node : (m # n \/ e # Other(d)) => h.child[e][m] = t.child[e][m]
  /\ \A m \in Node : m # b => h.parent[m] = t.parent[m]

(* The pointers at n and b are set, and colours are as they were.          *)
SwungTo(t, h, w, d, n, b, i) ==
  Middle(t, w, d, n, b, i) /\ w.leftmost = h.leftmost /\ w.black = h.black

(* It does not matter that some of them were behind before.                *)
LEMMA SwingMiddle ==
  ASSUME NEW t, NEW h, NEW d \in Side, NEW n \in Node, NEW b \in Node, n # b,
         Almost(t, h, d, n, b), NEW w, w = Swing(h, d, n, b), NEW i, i = t.child[d][b],
         i # b
  PROVE  SwungTo(t, h, w, d, n, b, i)
<1>1. Swung(h, w, d, n, b)
  BY SwingFields DEF Almost
<1>2. h.child[d][b] = i
  BY DEF Almost
<1>3. /\ w \in Trees /\ w.root = t.root /\ w.last = t.last
      /\ w.leftmost = h.leftmost /\ w.black = h.black
  BY <1>1 DEF Swung, Almost
<1>4. \A e \in Side, m \in Node :
        w.child[e][m] = IF e = Other(d) /\ m = n THEN i ELSE IF e = d /\ m = b THEN n
                        ELSE t.child[e][m]
  BY <1>1, <1>2 DEF Swung, Almost
<1>5. \A m \in Node : m # b => w.parent[m] = IF m = i THEN n ELSE t.parent[m]
  BY <1>1, <1>2 DEF Swung, Almost
<1> QED BY <1>3, <1>4, <1>5 DEF Middle, SwungTo

(* The same, and i is black.                                               *)
BlackenedTo(t, w, v, d, n, b, i) ==
  /\ Middle(t, v, d, n, b, i) /\ v.leftmost = w.leftmost
  /\ \A m \in Node : v.black[m] = (m = i \/ w.black[m])

(* A colour changes no pointer.                                            *)
LEMMA BlackenMiddle ==
  ASSUME NEW t, NEW w, NEW d, NEW n, NEW b, NEW i \in Node \cup {Nil}, Middle(t, w, d, n, b, i),
         NEW v, v = Blacken(w, i)
  PROVE  BlackenedTo(t, w, v, d, n, b, i)
<1>1. Blackened(w, v, i)
  BY BlackenFields DEF Middle
<1>2. Middle(t, v, d, n, b, i)
  BY SMTT(30), <1>1 DEF Blackened, Middle
<1> QED BY <1>1, <1>2 DEF Blackened, BlackenedTo

(* The first of two rotations: the pointers between the new head of the    *)
(* subtree and what is above it are left to the second one.                *)
Half(t, w, d, n, b, i, p) ==
  /\ w \in Trees /\ w.root = t.root /\ w.last = t.last
  /\ \A e \in Side, m \in Node :
       m # p => w.child[e][m] = IF e = Other(d) /\ m = n THEN i
                                ELSE IF e = d /\ m = b THEN n ELSE t.child[e][m]
  /\ \A m \in Node : m # b /\ m # n => w.parent[m] = IF m = i THEN n ELSE t.parent[m]

(* v is a tree: w once the second rotation has set the pointers from       *)
(* above.                                                                  *)
Completed(v, w, h, n, b, p) ==
  /\ h \in Trees /\ h.child = w.child /\ h.parent = w.parent /\ h.black = w.black
  /\ h.leftmost = w.leftmost /\ h.root = v.root /\ h.last = v.last
  /\ \A e \in Side, m \in Node : m # p => v.child[e][m] = h.child[e][m]
  /\ \A m \in Node : m # b /\ m # n => v.parent[m] = h.parent[m]

(* The first rotation is that of a tree, but for pointers that the second  *)
(* one sets.                                                               *)
LEMMA TurnHalf ==
  ASSUME NEW t, NEW below, Shape(t, below), NEW d \in Side, NEW n \in Node,
         NEW b, NEW i, NEW p, b = t.child[Other(d)][n], i = t.child[d][b], p = t.parent[n],
         b # Nil, p # Nil, NEW w, Half(t, w, d, n, b, i, p),
         NEW black \in [Node -> BOOLEAN], NEW h, h = Rotate(w, n, b)
  PROVE  \E v : /\ Turned(t, v, d, n, b, i, p) /\ TurnedEnds(t, v, n, b)
                /\ v.leftmost = w.leftmost /\ v.black = black
                /\ Completed(v, w, h, n, b, p)
<1>1. Around(t, d, n, b, i, p)
  BY SMTT(30), TurnNodes
<1>2. /\ b \in Node /\ i \in Node \cup {Nil} /\ p \in Node
      /\ b # n /\ i # n /\ i # b /\ p # n /\ p # b /\ n # t.root /\ i # p
  BY <1>1 DEF Around
<1>3. /\ w \in Trees /\ w.root = t.root /\ w.last = t.last
      /\ \A e \in Side, m \in Node :
           m # p => w.child[e][m] = IF e = Other(d) /\ m = n THEN i
                                    ELSE IF e = d /\ m = b THEN n ELSE t.child[e][m]
      /\ \A m \in Node : m # b /\ m # n => w.parent[m] = IF m = i THEN n ELSE t.parent[m]
  BY DEF Half
<1>4. Other(d) \in Side /\ Other(d) # d /\ \A e \in Side : e = d \/ e = Other(d)
  BY Sides
<1>5. \A e \in Side : w.child[e][n] # n
  <2>1. t.child[d][n] # n
    BY ChildFacts, RbTreeConstants
  <2> QED
    <3>1. /\ b # n /\ i # n /\ p # n
          /\ \A e \in Side, m \in Node :
               m # p => w.child[e][m] = IF e = Other(d) /\ m = n THEN i
                                        ELSE IF e = d /\ m = b THEN n ELSE t.child[e][m]
          /\ \A e \in Side : e = d \/ e = Other(d)
          /\ t.child[d][n] # n
      BY <1>2, <1>3, <1>4, <2>1
    <3> QED BY <3>1
<1>6. Rotated(w, h, n, b)
  BY <1>2, <1>3, <1>5, RotateEnds
<1>7. /\ OnlyLast(w, h) /\ (~Augmented => h.last = w.last)
      /\ Augmented => /\ h.last[b] = w.last[n] /\ LocalEnd(h, n)
                      /\ \A m \in Node : m # n /\ m # b => h.last[m] = w.last[m]
  BY <1>6 DEF Rotated
<1>8. /\ h \in Trees /\ h.root = w.root /\ h.leftmost = w.leftmost
      /\ h.child = w.child /\ h.parent = w.parent /\ h.black = w.black
  BY Zenon, <1>7 DEF OnlyLast
<1> DEFINE child == [e \in Side |-> [m \in Node |->
                       IF m = p THEN (IF t.child[e][p] = n THEN b ELSE t.child[e][p])
                       ELSE h.child[e][m]]]
           up == [m \in Node |-> IF m = b THEN p ELSE IF m = n THEN b ELSE h.parent[m]]
<1>9. PICK v : v = [h EXCEPT !.child = child, !.parent = up, !.black = black]
  BY Zenon
<1>10. /\ v \in Trees /\ v.root = h.root /\ v.leftmost = h.leftmost /\ v.last = h.last
       /\ \A e \in Side, m \in Node :
            v.child[e][m] = IF m = p THEN (IF t.child[e][p] = n THEN b ELSE t.child[e][p])
                            ELSE h.child[e][m]
       /\ \A m \in Node : v.parent[m] = IF m = b THEN p ELSE IF m = n THEN b ELSE h.parent[m]
       /\ v.black = black
  <2>1. child \in [Side -> [Node -> Node \cup {Nil}]]
    <3>1. \A e \in Side, m \in Node : t.child[e][m] \in Node \cup {Nil} /\ h.child[e][m] \in Node \cup {Nil}
      BY SMTT(30), <1>8 DEF Trees, Shape
    <3> QED BY Zenon, <1>2, <3>1
  <2>2. up \in [Node -> Node \cup {Nil}]
    <3>1. \A m \in Node : h.parent[m] \in Node \cup {Nil}
      BY Zenon, <1>8 DEF Trees
    <3> QED BY <1>2, <3>1
  <2>3. \A e \in Side, m \in Node :
          child[e][m] = IF m = p THEN (IF t.child[e][p] = n THEN b ELSE t.child[e][p])
                        ELSE h.child[e][m]
    BY Zenon
  <2>4. \A m \in Node : up[m] = IF m = b THEN p ELSE IF m = n THEN b ELSE h.parent[m]
    BY Zenon
  <2> HIDE DEF child, up
  <2>5. /\ v \in Trees /\ v.root = h.root /\ v.leftmost = h.leftmost /\ v.last = h.last
        /\ v.child = child /\ v.parent = up /\ v.black = black
    BY Zenon, <1>8, <1>9, <2>1, <2>2 DEF Trees
  <2>6. \A e \in Side, m \in Node :
          v.child[e][m] = IF m = p THEN (IF t.child[e][p] = n THEN b ELSE t.child[e][p])
                          ELSE h.child[e][m]
    <3> TAKE e \in Side, m \in Node
    <3>1. v.child[e][m] = child[e][m]
      BY <2>5
    <3> QED BY Zenon, <2>3, <3>1
  <2>7. \A m \in Node : v.parent[m] = IF m = b THEN p ELSE IF m = n THEN b ELSE h.parent[m]
    <3>1. \A m \in Node : v.parent[m] = up[m]
      BY <2>5
    <3> QED BY Zenon, <2>4, <3>1
  <2> QED BY Zenon, <2>5, <2>6, <2>7
<1> HIDE DEF child, up
<1>11. \A e \in Side, m \in Node :
         v.child[e][m] = IF e = Other(d) /\ m = n THEN i ELSE IF e = d /\ m = b THEN n
                         ELSE IF m = p /\ t.child[e][m] = n THEN b ELSE t.child[e][m]
  <2> TAKE e \in Side, m \in Node
  <2>1. CASE m = p
    BY Zenon, <1>2, <1>10, <2>1
  <2>2. CASE m # p
    <3>1. v.child[e][m] = w.child[e][m]
      <4>1. v.child[e][m] = h.child[e][m]
        BY Zenon, <1>10, <2>2
      <4> QED BY <1>8, <4>1
    <3>2. w.child[e][m] = IF e = Other(d) /\ m = n THEN i
                          ELSE IF e = d /\ m = b THEN n ELSE t.child[e][m]
      BY Zenon, <1>3, <2>2
    <3> QED BY Zenon, <2>2, <3>1, <3>2
  <2> QED BY Zenon, <2>1, <2>2
<1>12. \A m \in Node : v.parent[m] = IF m = b THEN p ELSE IF m = n THEN b
                                     ELSE IF m = i THEN n ELSE t.parent[m]
  <2> TAKE m \in Node
  <2>1. m # b /\ m # n => w.parent[m] = IF m = i THEN n ELSE t.parent[m]
    BY Zenon, <1>3
  <2>2. h.parent[m] = w.parent[m]
    BY <1>8
  <2>3. v.parent[m] = IF m = b THEN p ELSE IF m = n THEN b ELSE h.parent[m]
    BY Zenon, <1>10
  <2> QED BY Zenon, <2>1, <2>2, <2>3
<1>13. Turned(t, v, d, n, b, i, p)
  <2>1. v.root = (IF n = t.root THEN b ELSE t.root)
    BY Zenon, <1>2, <1>3, <1>8, <1>10
  <2> QED BY Zenon, <1>10, <1>11, <1>12, <2>1 DEF Turned
<1>14. \A e \in Side, m \in Node : m # p => v.child[e][m] = h.child[e][m]
  BY Zenon, <1>10
<1>15. \A m \in Node : m # b /\ m # n => v.parent[m] = h.parent[m]
  BY Zenon, <1>10
<1>16. Completed(v, w, h, n, b, p)
  BY Zenon, <1>8, <1>10, <1>14, <1>15 DEF Completed
<1>17. TurnedEnds(t, v, n, b)
  <2>1. Augmented => LocalEnd(v, n)
    <3> HAVE Augmented
    <3>1. \A e \in Side : v.child[e][n] = h.child[e][n]
      BY <1>2, <1>14
    <3>2. v.last = h.last
      BY <1>10
    <3> QED BY ZenonT(90), <1>7, <3>1, <3>2 DEF LocalEnd
  <2> QED
    <3>1. /\ w.last = t.last
          /\ (~Augmented => h.last = w.last)
          /\ Augmented => /\ h.last[b] = w.last[n] /\ LocalEnd(h, n)
                          /\ \A m \in Node : m # n /\ m # b => h.last[m] = w.last[m]
          /\ v.last = h.last
          /\ Augmented => LocalEnd(v, n)
      BY Zenon, <1>3, <1>7, <1>10, <2>1
    <3> QED BY Zenon, <3>1 DEF TurnedEnds
<1> QED BY <1>8, <1>10, <1>13, <1>16, <1>17

-----------------------------------------------------------------------------
(* The rotations of the two loops                                          *)

(* A rotation that leaves b the colour of n, and blackens i.               *)
Recoloured(t, u, n, b, i, black) ==
  \A m \in Node : u.black[m] = IF m = n THEN black ELSE IF m = b THEN t.black[n]
                               ELSE (m = i \/ t.black[m])

(* A whole rotation, with its ends; the first node is not touched.         *)
TurnStep(t, u, d, n, b, i, p) ==
  Turned(t, u, d, n, b, i, p) /\ TurnedEnds(t, u, n, b) /\ u.leftmost = t.leftmost

(* Of one rotation alone no pointer is behind.                             *)
LEMMA AlmostSame ==
  ASSUME NEW t \in Trees, NEW d, NEW n, NEW b
  PROVE  Almost(t, t, d, n, b)
BY DEF Almost

(* A whole rotation, of case 3 of an insertion and case 1 of an erasure.   *)
TurnedOnce(t, h, u, d, n, b, i, p) ==
  /\ Turned(t, u, d, n, b, i, p) /\ TurnedEnds(t, u, n, b) /\ u.leftmost = h.leftmost
  /\ Recoloured(h, u, n, b, i, FALSE)

(* The three steps of the code make a whole rotation.                      *)
LEMMA TurnOnce ==
  ASSUME NEW t, NEW below, Shape(t, below), NEW d \in Side, NEW n \in Node,
         NEW b, NEW i, NEW p, b = t.child[Other(d)][n], i = t.child[d][b], p = t.parent[n],
         b # Nil, NEW h, Almost(t, h, d, n, b),
         NEW u, u = Rotate(RotateSetParents(Blacken(Swing(h, d, n, b), i), n, b, FALSE), n, b)
  PROVE  TurnedOnce(t, h, u, d, n, b, i, p)
<1>1. Around(t, d, n, b, i, p)
  BY SMTT(30), TurnNodes
<1>2. b \in Node /\ n # b /\ i # b /\ i # n /\ i \in Node \cup {Nil}
  BY <1>1 DEF Around
<1>3. PICK w : w = Swing(h, d, n, b)
  OBVIOUS
<1>4. PICK v : v = Blacken(w, i)
  OBVIOUS
<1>5. SwungTo(t, h, w, d, n, b, i)
  BY Zenon, <1>2, <1>3, SwingMiddle
<1>6. BlackenedTo(t, w, v, d, n, b, i)
  BY <1>2, <1>4, <1>5, BlackenMiddle DEF SwungTo
<1>7. u = Rotate(RotateSetParents(v, n, b, FALSE), n, b)
  BY SMTT(30), <1>3, <1>4
<1>8. Turned(t, u, d, n, b, i, p) /\ TurnedRest(t, v, u, n, b, FALSE)
  <2>1. Middle(t, v, d, n, b, i)
    BY <1>6 DEF BlackenedTo
  <2> QED BY Zenon, <1>7, <2>1, TurnUp
<1>9. Recoloured(h, u, n, b, i, FALSE)
  <2>1. \A m \in Node : u.black[m] = IF m = n THEN FALSE
                                     ELSE IF m = b THEN v.black[n] ELSE v.black[m]
    BY Zenon, <1>8 DEF TurnedRest
  <2>2. \A m \in Node : v.black[m] = (m = i \/ h.black[m])
    BY <1>5, <1>6 DEF SwungTo, BlackenedTo
  <2>3. h.black[n] \in BOOLEAN
    BY DEF Almost, Trees
  <2>4. v.black[n] = h.black[n]
    BY Zenon, <1>2, <2>2, <2>3
  <2> QED BY Zenon, <2>1, <2>2, <2>4 DEF Recoloured
<1>10. u.leftmost = h.leftmost /\ TurnedEnds(t, u, n, b)
  BY Zenon, <1>5, <1>6, <1>8 DEF TurnedRest, SwungTo, BlackenedTo
<1> QED BY Zenon, <1>8, <1>9, <1>10 DEF TurnedOnce

(* A comparison with the right child tells the side of a node.             *)
LEMMA SideIs ==
  ASSUME NEW t, NEW below, Shape(t, below), NEW n \in Node, t.parent[n] # Nil
  PROVE  \E d \in Side :
           /\ d = (IF n # t.child["right"][t.parent[n]] THEN "left" ELSE "right")
           /\ t.child[d][t.parent[n]] = n
<1>1. \E d \in Side : t.child[d][t.parent[n]] = n
  BY DEF Shape, Links
<1> QED BY <1>1, Sides

(* Case 1 of an erasure is a rotation that brings up the sibling.          *)
LEMMA EraseSiblingTree ==
  ASSUME NEW below, Shape(tree, below), parent \in Node, EraseSibling
  PROVE  \E d, b, i, p :
           /\ d \in Side /\ d = D /\ b = Sibling /\ i = Near /\ p = tree.parent[parent]
           /\ b = tree.child[Other(d)][parent] /\ i = tree.child[d][b] /\ b # Nil
           /\ TurnStep(tree, tree', d, parent, b, i, p)
           /\ Recoloured(tree, tree', parent, b, i, FALSE)
<1>1. PICK d, b, i, p : /\ d = D /\ b = Sibling /\ i = Near /\ p = tree.parent[parent]
  OBVIOUS
<1>2. d \in Side
  BY <1>1 DEF D, Side
<1>3. b = tree.child[Other(d)][parent] /\ i = tree.child[d][b] /\ b # Nil
  BY <1>1 DEF Sibling, Near, EraseSibling, Red
<1>4. PICK u : u = tree'
  OBVIOUS
<1>5. u = Rotate(RotateSetParents(Blacken(Swing(tree, d, parent, b), i), parent, b, FALSE),
                 parent, b)
  BY <1>1, <1>4 DEF EraseSibling
<1>6. Almost(tree, tree, d, parent, b)
  BY AlmostSame DEF Shape
<1>7. TurnedOnce(tree, tree, u, d, parent, b, i, p)
  BY Zenon, <1>1, <1>2, <1>3, <1>5, <1>6, TurnOnce
<1>8. TurnStep(tree, u, d, parent, b, i, p) /\ Recoloured(tree, u, parent, b, i, FALSE)
  BY Zenon, <1>7 DEF TurnStep, TurnedOnce
<1> QED BY Zenon, <1>1, <1>2, <1>3, <1>4, <1>8

(* The grandparent turns, for a node on the outer side.                    *)
LEMMA InsertOuterTree ==
  ASSUME NEW below, Shape(tree, below), parent \in Node, GParent \in Node, InsertTurn,
         NEW d, d = SideOf(GParent, parent), node # tree.child[Other(d)][parent]
  PROVE  \E i, p :
           /\ d \in Side /\ tree.child[d][GParent] = parent
           /\ i = tree.child[Other(d)][parent] /\ p = tree.parent[GParent]
           /\ TurnStep(tree, tree', Other(d), GParent, parent, i, p)
           /\ Recoloured(tree, tree', GParent, parent, i, FALSE)
<1>1. PICK g, q, i, p : /\ g = GParent /\ q = parent /\ i = tree.child[Other(d)][q]
                        /\ p = tree.parent[g]
  OBVIOUS
<1>2. g \in Node /\ q \in Node /\ tree.parent[q] = g /\ g # Nil /\ q # Nil
  BY <1>1, RbTreeConstants DEF GParent
<1>3. d \in Side /\ tree.child[d][g] = q
  BY <1>1, <1>2, SideIs DEF SideOf
<1>4. InnerCase(d).tree = tree /\ InnerCase(d).top = q
  BY <1>1 DEF InnerCase
<1>5. PICK u : u = tree'
  OBVIOUS
<1>6. PICK o : o = Other(d)
  OBVIOUS
<1>7. o \in Side /\ Other(o) = d
  BY <1>3, <1>6 DEF Side, Other
<1>8. u = Rotate(RotateSetParents(Blacken(Swing(tree, o, g, q), i), g, q, FALSE), g, q)
  BY Zenon, <1>1, <1>4, <1>5, <1>6 DEF InsertTurn
<1>9. Almost(tree, tree, o, g, q)
  BY AlmostSame DEF Shape
<1>10. q = tree.child[Other(o)][g] /\ i = tree.child[o][q]
  BY <1>1, <1>3, <1>6, <1>7
<1>11. TurnedOnce(tree, tree, u, o, g, q, i, p)
  BY Zenon, <1>1, <1>2, <1>7, <1>8, <1>9, <1>10, TurnOnce
<1>12. TurnStep(tree, u, o, g, q, i, p) /\ Recoloured(tree, u, g, q, i, FALSE)
  BY Zenon, <1>11 DEF TurnStep, TurnedOnce
<1> QED BY Zenon, <1>1, <1>3, <1>5, <1>6, <1>12

(* The first rotation of two, until colours are set.                       *)
LEMMA SwingHalf ==
  ASSUME NEW t, NEW below, Shape(t, below), NEW d \in Side, NEW n \in Node,
         NEW b, NEW i, NEW p, b = t.child[Other(d)][n], i = t.child[d][b], p = t.parent[n],
         b # Nil, NEW w, w = Blacken(Swing(t, d, n, b), i)
  PROVE  Half(t, w, d, n, b, i, p) /\ BlackenedTo(t, t, w, d, n, b, i)
<1>1. Around(t, d, n, b, i, p)
  BY SMTT(30), TurnNodes
<1>2. b \in Node /\ n # b /\ i # b /\ i # n /\ i \in Node \cup {Nil} /\ p # n /\ p # b
  BY <1>1 DEF Around
<1>3. PICK v : v = Swing(t, d, n, b)
  OBVIOUS
<1>4. Almost(t, t, d, n, b)
  BY AlmostSame DEF Shape
<1>5. SwungTo(t, t, v, d, n, b, i)
  BY <1>2, <1>3, <1>4, SwingMiddle
<1>6. BlackenedTo(t, v, w, d, n, b, i)
  BY Zenon, <1>2, <1>3, <1>5, BlackenMiddle DEF SwungTo
<1>7. Half(t, w, d, n, b, i, p)
  BY ZenonT(40), <1>6 DEF BlackenedTo, Middle, Half
<1>8. BlackenedTo(t, t, w, d, n, b, i)
  BY Zenon, <1>5, <1>6 DEF BlackenedTo, SwungTo
<1> QED BY <1>7, <1>8

(* The first rotation of two for an insertion, as if it were whole.        *)
InsertTwice(v, u, d, g, q, x, i, j, p) ==
  /\ d \in Side /\ tree.child[d][g] = q /\ tree.parent[q] = g
  /\ x = tree.child[Other(d)][q] /\ i = tree.child[d][x]
  /\ TurnStep(tree, v, d, q, x, i, g)
  /\ \A m \in Node : v.black[m] = (m # q /\ (m = i \/ tree.black[m]))
  /\ x = v.child[d][g] /\ j = v.child[Other(d)][x] /\ p = v.parent[g]
  /\ TurnStep(v, u, Other(d), g, x, j, p)
  /\ Recoloured(v, u, g, x, j, FALSE)

(* Cases 2 and 3 of an insertion are two whole rotations.                  *)
LEMMA InsertInnerTree ==
  ASSUME NEW below, Shape(tree, below), parent \in Node, node \in Node, GParent \in Node,
         InsertTurn,
         NEW d, d = SideOf(GParent, parent), node = tree.child[Other(d)][parent]
  PROVE  \E v, i, j, p : InsertTwice(v, tree', d, GParent, parent, node, i, j, p)
<1>1. PICK g, q, x, i, o : /\ g = GParent /\ q = parent /\ x = node /\ o = Other(d)
                           /\ i = tree.child[d][x]
  BY Zenon
<1>2. g \in Node /\ q \in Node /\ tree.parent[q] = g /\ g # Nil /\ q # Nil /\ x \in Node
      /\ x = tree.child[o][q]
  BY <1>1, RbTreeConstants DEF GParent
<1>3. d \in Side /\ tree.child[d][g] = q
  BY <1>1, <1>2, SideIs DEF SideOf
<1>4. o \in Side /\ Other(o) = d /\ o # d /\ (\A e \in Side : e = d \/ e = o) /\ x # Nil
  BY <1>1, <1>2, <1>3, RbTreeConstants DEF Side, Other
<1>5. Around(tree, d, q, x, i, g)
  BY <1>1, <1>2, <1>3, <1>4, TurnNodes
<1>6. /\ i \in Node \cup {Nil} /\ x # q /\ i # q /\ i # x /\ g # q /\ g # x /\ g # i
      /\ tree.parent[x] = q
  BY <1>2, <1>5 DEF Around
<1>7. PICK z : z = Blacken(Swing(tree, d, q, x), i)
  OBVIOUS
<1>8. Half(tree, z, d, q, x, i, g) /\ BlackenedTo(tree, tree, z, d, q, x, i)
  BY <1>1, <1>2, <1>3, <1>4, <1>7, SwingHalf
<1>9. PICK w : w = [z EXCEPT !.parent[q] = x, !.black[q] = FALSE]
  OBVIOUS
<1>10. /\ w \in Trees /\ w.root = z.root /\ w.leftmost = z.leftmost /\ w.last = z.last
       /\ w.child = z.child
       /\ \A m \in Node : w.parent[m] = IF m = q THEN x ELSE z.parent[m]
       /\ \A m \in Node : w.black[m] = IF m = q THEN FALSE ELSE z.black[m]
  BY Zenon, <1>2, <1>8, <1>9 DEF Half, Trees
<1>11. Half(tree, w, d, q, x, i, g)
  BY <1>8, <1>10 DEF Half
<1>12. w.black \in [Node -> BOOLEAN]
  BY <1>10 DEF Trees
<1>13. PICK h : h = Rotate(w, q, x)
  OBVIOUS
<1>14. PICK v : /\ Turned(tree, v, d, q, x, i, g) /\ TurnedEnds(tree, v, q, x)
                /\ v.leftmost = w.leftmost /\ v.black = w.black
                /\ Completed(v, w, h, q, x, g)
  BY <1>1, <1>2, <1>3, <1>4, <1>11, <1>12, <1>13, TurnHalf
<1>15. Shape(v, TurnedBelow(tree, below, d, q, x, i))
  BY SMTT(30), <1>2, <1>3, <1>4, <1>14, TurnKeepsShape
<1>16. InnerCase(d).tree = h /\ InnerCase(d).top = x
  BY ZenonT(40), <1>1, <1>7, <1>9, <1>13 DEF InnerCase
<1>17. /\ \A e \in Side, m \in Node :
            v.child[e][m] = IF e = o /\ m = q THEN i ELSE IF e = d /\ m = x THEN q
                            ELSE IF m = g /\ tree.child[e][m] = q THEN x ELSE tree.child[e][m]
       /\ \A m \in Node : v.parent[m] = IF m = x THEN g ELSE IF m = q THEN x
                                        ELSE IF m = i THEN q ELSE tree.parent[m]
  BY ZenonT(40), <1>1, <1>14 DEF Turned
<1>18. /\ h \in Trees /\ h.child = w.child /\ h.parent = w.parent /\ h.black = w.black
       /\ h.leftmost = w.leftmost /\ h.root = v.root /\ h.last = v.last
       /\ \A e \in Side, m \in Node : m # g => v.child[e][m] = h.child[e][m]
       /\ \A m \in Node : m # x /\ m # q => v.parent[m] = h.parent[m]
  BY <1>14 DEF Completed
<1>19. Almost(v, h, o, g, x)
  <2>1. v.child[o][g] = h.child[o][g]
    <3>1. tree.child[o][g] # q
      BY <1>2, <1>3, <1>4, OneParent
    <3>2. v.child[o][g] = tree.child[o][g]
      BY <1>2, <1>4, <1>6, <1>17, <3>1
    <3>3. z.child[o][g] = tree.child[o][g]
      BY <1>1, <1>2, <1>4, <1>6, <1>8 DEF BlackenedTo, Middle
    <3> QED BY <1>10, <1>18, <3>2, <3>3
  <2>2. v.parent[q] = h.parent[q]
    BY <1>2, <1>6, <1>10, <1>17, <1>18
  <2>3. \A e \in Side, m \in Node : (m # g \/ e # d) => h.child[e][m] = v.child[e][m]
    BY <1>4, <1>18, <2>1
  <2>4. \A m \in Node : m # x => h.parent[m] = v.parent[m]
    BY <1>18, <2>2
  <2> QED BY <1>4, <1>18, <2>3, <2>4 DEF Almost
<1>20. PICK j, p : j = v.child[o][x] /\ p = v.parent[g]
  OBVIOUS
<1>21. x = v.child[d][g] /\ j = h.child[o][x]
  BY <1>2, <1>3, <1>4, <1>6, <1>17, <1>18, <1>20
<1>22. PICK u : u = tree'
  BY SMTT(30)
<1>23. u = Rotate(RotateSetParents(Blacken(Swing(h, o, g, x), j), g, x, FALSE), g, x)
  BY Zenon, <1>1, <1>16, <1>21, <1>22 DEF InsertTurn
<1>24. TurnedOnce(v, h, u, o, g, x, j, p)
  BY Zenon, <1>2, <1>4, <1>15, <1>19, <1>20, <1>21, <1>23, TurnOnce
<1>25. TurnStep(tree, v, d, q, x, i, g)
  BY <1>8, <1>10, <1>14 DEF TurnStep, BlackenedTo
<1>26. \A m \in Node : v.black[m] = (m # q /\ (m = i \/ tree.black[m]))
  BY Zenon, <1>8, <1>10, <1>14 DEF BlackenedTo
<1>27. TurnStep(v, u, o, g, x, j, p) /\ Recoloured(v, u, g, x, j, FALSE)
  BY Zenon, <1>14, <1>18, <1>24 DEF TurnStep, TurnedOnce, Recoloured
<1>28. InsertTwice(v, u, d, g, q, x, i, j, p)
  BY ZenonT(40), <1>1, <1>2, <1>3, <1>4, <1>20, <1>21, <1>25, <1>26, <1>27 DEF InsertTwice
<1> QED BY <1>1, <1>22, <1>28

(* The last rotation of an erasure, which also sets the parent of f.       *)
Ready(t, h, b, f) ==
  /\ h \in Trees /\ h.root = t.root /\ h.last = t.last /\ h.child = t.child
  /\ h.leftmost = t.leftmost
  /\ \A m \in Node : m # b /\ m # f => h.parent[m] = t.parent[m]

(* Parent and colour of the far nephew, set at once.                       *)
WithFar(w, f, b) == [w EXCEPT !.parent[f] = b, !.black[f] = TRUE]

(* The last rotation of an erasure is a whole one.                         *)
LEMMA TurnFar ==
  ASSUME NEW t, NEW below, Shape(t, below), NEW d \in Side, NEW n \in Node,
         NEW b, NEW i, NEW p, b = t.child[Other(d)][n], i = t.child[d][b], p = t.parent[n],
         b # Nil, NEW f, f = t.child[Other(d)][b], f # Nil, NEW h, Ready(t, h, b, f),
         NEW u, u = Rotate(RotateSetParents(WithFar(Swing(h, d, n, b), f, b), n, b, TRUE), n, b)
  PROVE  TurnStep(t, u, d, n, b, i, p) /\ Recoloured(h, u, n, b, f, TRUE)
<1>1. Around(t, d, n, b, i, p)
  BY TurnNodes
<1>2. b \in Node /\ n # b /\ i # b /\ i # n /\ i \in Node \cup {Nil}
  BY <1>1 DEF Around
<1>3. Other(d) \in Side /\ Other(d) # d
  BY Sides
<1>4. f \in Node /\ f # b /\ f # n /\ t.parent[f] = b /\ f # i
  <2>1. f \in Node /\ f # b /\ t.parent[f] = b
    <3>1. b \in Node /\ Other(d) \in Side
      BY Zenon, <1>2, <1>3
    <3> QED BY SMTT(30), <3>1, ChildIs
  <2>2. f # i
    <3>1. /\ b \in Node /\ Other(d) \in Side /\ Other(d) # d
      BY Zenon, <1>2, <1>3
    <3> QED BY SMTT(30), <3>1, OneParent
  <2>3. n # f
    BY ZenonT(90), <1>1, <1>2, <1>3, <2>1, BelowOneWay, ChildFacts, BelowParts DEF Around
  <2> QED BY Zenon, <2>1, <2>2, <2>3
<1>5. PICK w : w = Swing(h, d, n, b)
  OBVIOUS
<1>6. PICK v : v = WithFar(w, f, b)
  OBVIOUS
<1>7. Swung(h, w, d, n, b)
  BY <1>2, <1>5, SwingFields DEF Ready
<1>8. /\ h \in Trees /\ h.root = t.root /\ h.last = t.last /\ h.child = t.child
      /\ h.leftmost = t.leftmost
      /\ \A m \in Node : m # b /\ m # f => h.parent[m] = t.parent[m]
  BY DEF Ready
<1>9. /\ w \in Trees /\ w.root = h.root /\ w.leftmost = h.leftmost
      /\ w.black = h.black /\ w.last = h.last
      /\ \A e \in Side, m \in Node :
           w.child[e][m] = IF e = Other(d) /\ m = n THEN i
                           ELSE IF e = d /\ m = b THEN n ELSE h.child[e][m]
      /\ \A m \in Node : w.parent[m] = IF m = i THEN n ELSE h.parent[m]
  <2>1. h.child[d][b] = i
    BY <1>8
  <2> QED BY Zenon, <1>7, <2>1 DEF Swung
<1>10. /\ v \in Trees /\ v.root = w.root /\ v.leftmost = w.leftmost
       /\ v.last = w.last /\ v.child = w.child
       /\ \A m \in Node : v.parent[m] = IF m = f THEN b ELSE w.parent[m]
       /\ \A m \in Node : v.black[m] = IF m = f THEN TRUE ELSE w.black[m]
  BY Zenon, <1>2, <1>4, <1>6, <1>9 DEF Trees, WithFar
<1>11. Middle(t, v, d, n, b, i)
  <2>1. ASSUME NEW m \in Node, m # b
        PROVE  v.parent[m] = IF m = i THEN n ELSE t.parent[m]
    <3>1. v.parent[m] = IF m = f THEN b ELSE w.parent[m]
      BY Zenon, <1>10
    <3>2. w.parent[m] = IF m = i THEN n ELSE h.parent[m]
      BY Zenon, <1>9
    <3>3. m # f => h.parent[m] = t.parent[m]
      BY Zenon, <1>8, <2>1
    <3> QED BY Zenon, <1>4, <3>1, <3>2, <3>3
  <2>2. \A e \in Side, m \in Node :
          v.child[e][m] = IF e = Other(d) /\ m = n THEN i ELSE IF e = d /\ m = b THEN n
                          ELSE t.child[e][m]
    <3>1. /\ h.child = t.child
          /\ \A e \in Side, m \in Node :
               w.child[e][m] = IF e = Other(d) /\ m = n THEN i ELSE IF e = d /\ m = b THEN n
                               ELSE h.child[e][m]
          /\ v.child = w.child
      BY Zenon, <1>8, <1>9, <1>10
    <3> QED BY <3>1
  <2>3. v \in Trees /\ v.root = t.root /\ v.last = t.last
    BY <1>8, <1>9, <1>10
  <2> QED BY Zenon, <2>1, <2>2, <2>3 DEF Middle
<1>12. u = Rotate(RotateSetParents(v, n, b, TRUE), n, b)
  BY Zenon, <1>5, <1>6
<1>13. Turned(t, u, d, n, b, i, p) /\ TurnedRest(t, v, u, n, b, TRUE)
  BY Zenon, <1>11, <1>12, TurnUp
<1>14. Recoloured(h, u, n, b, f, TRUE)
  <2>1. \A m \in Node : u.black[m] = IF m = n THEN TRUE
                                     ELSE IF m = b THEN v.black[n] ELSE v.black[m]
    BY Zenon, <1>13 DEF TurnedRest
  <2>2. \A m \in Node : h.black[m] \in BOOLEAN
    BY <1>8 DEF Trees
  <2>3. \A m \in Node : v.black[m] = (m = f \/ h.black[m])
    <3>1. \A m \in Node : w.black[m] = h.black[m]
      BY <1>9
    <3>2. \A m \in Node : v.black[m] = IF m = f THEN TRUE ELSE w.black[m]
      BY Zenon, <1>10
    <3> QED BY Zenon, <2>2, <3>1, <3>2
  <2>4. v.black[n] = h.black[n]
    BY ZenonT(90), <1>4, <1>9, <1>10
  <2> QED BY ZenonT(40), <2>1, <2>3, <2>4 DEF Recoloured
<1>15. TurnStep(t, u, d, n, b, i, p)
  <2>1. u.leftmost = v.leftmost /\ TurnedEnds(t, u, n, b)
    BY Zenon, <1>13 DEF TurnedRest
  <2>2. v.leftmost = t.leftmost
    BY <1>8, <1>9, <1>10
  <2> QED BY Zenon, <1>13, <2>1, <2>2 DEF TurnStep
<1> QED BY Zenon, <1>14, <1>15

(* Case 4 of an erasure, with a red far nephew.                            *)
LEMMA EraseFarTree ==
  ASSUME NEW below, Shape(tree, below), parent \in Node, Sibling # Nil, EraseTurn, Red(Far)
  PROVE  \E d, b, i, p, f :
           /\ d \in Side /\ d = D /\ b = Sibling /\ i = Near /\ f = Far /\ f # Nil
           /\ p = tree.parent[parent]
           /\ b = tree.child[Other(d)][parent] /\ i = tree.child[d][b]
           /\ f = tree.child[Other(d)][b]
           /\ TurnStep(tree, tree', d, parent, b, i, p)
           /\ Recoloured(tree, tree', parent, b, f, TRUE)
<1>1. PICK d, b, i, p, f : /\ d = D /\ b = Sibling /\ i = Near /\ f = Far
                           /\ p = tree.parent[parent]
  OBVIOUS
<1>2. d \in Side /\ b # Nil /\ f # Nil
  BY <1>1 DEF D, Side, Red
<1>3. /\ b = tree.child[Other(d)][parent] /\ i = tree.child[d][b]
      /\ f = tree.child[Other(d)][b]
  BY <1>1 DEF Sibling, Near, Far
<1>4. NearCase.tree = tree /\ NearCase.sibling = b /\ NearCase.far = f
  BY <1>1 DEF NearCase
<1>5. PICK u : u = tree'
  OBVIOUS
<1>6. u = Rotate(RotateSetParents(WithFar(Swing(tree, d, parent, b), f, b), parent, b, TRUE),
                 parent, b)
  BY Zenon, <1>1, <1>4, <1>5 DEF EraseTurn, WithFar
<1>7. Ready(tree, tree, b, f)
  BY DEF Ready, Shape
<1>8. TurnStep(tree, u, d, parent, b, i, p) /\ Recoloured(tree, u, parent, b, f, TRUE)
  BY Zenon, <1>1, <1>2, <1>3, <1>6, <1>7, TurnFar
<1> QED BY Zenon, <1>1, <1>2, <1>3, <1>5, <1>8

(* The first rotation of two for an erasure, as if it were whole, and b    *)
(* took the colour of s.                                                   *)
EraseTwice(v, u, d, q, s, b, i, j, p) ==
  /\ d \in Side /\ s = tree.child[Other(d)][q] /\ tree.parent[s] = q
  /\ b = tree.child[d][s] /\ b # Nil /\ i = tree.child[Other(d)][b]
  /\ TurnStep(tree, v, Other(d), s, b, i, q)
  /\ Recoloured(tree, v, s, b, i, FALSE)
  /\ b = v.child[Other(d)][q] /\ j = v.child[d][b] /\ p = v.parent[q]
  /\ s = v.child[Other(d)][b]
  /\ TurnStep(v, u, d, q, b, j, p)
  /\ Recoloured(v, u, q, b, s, TRUE)

(* Cases 3 and 4 of an erasure are two whole rotations.                    *)
LEMMA EraseNearTree ==
  ASSUME NEW below, Shape(tree, below), parent \in Node, Sibling # Nil, EraseTurn, ~Red(Far)
  PROVE  \E v, i, j, p : EraseTwice(v, tree', D, parent, Sibling, Near, i, j, p)
<1>1. PICK d, q, s, b, i, o : /\ d = D /\ q = parent /\ s = Sibling /\ b = Near /\ o = Other(d)
                              /\ i = tree.child[o][b]
  OBVIOUS
<1>2. /\ d \in Side /\ o \in Side /\ Other(o) = d /\ o # d /\ (\A e \in Side : e = d \/ e = o)
      /\ o = Other(d)
  BY <1>1 DEF D, Side, Other
<1>3. /\ q \in Node /\ q # Nil /\ s # Nil /\ b # Nil
      /\ s = tree.child[o][q] /\ b = tree.child[d][s]
  BY <1>1, RbTreeConstants DEF Sibling, Near, EraseTurn, Red
<1>4. s \in Node /\ tree.parent[s] = q
  BY <1>2, <1>3, ChildFacts
<1>5. Around(tree, o, s, b, i, q)
  BY SMTT(30), <1>1, <1>2, <1>3, <1>4, TurnNodes
<1>6. /\ b \in Node /\ i \in Node \cup {Nil} /\ b # s /\ i # s /\ i # b /\ q # s /\ q # b /\ q # i
      /\ tree.parent[b] = s
  BY Zenon, <1>3, <1>5 DEF Around
<1>7. PICK z : z = Blacken(Swing(tree, o, s, b), i)
  BY SMTT(30)
<1>8. Half(tree, z, o, s, b, i, q) /\ BlackenedTo(tree, tree, z, o, s, b, i)
  BY Zenon, <1>1, <1>2, <1>3, <1>4, <1>7, SwingHalf
<1>9. PICK w : w = [z EXCEPT !.child[o][q] = b]
  BY Zenon
<1>10. /\ w \in Trees /\ w.root = z.root /\ w.leftmost = z.leftmost /\ w.last = z.last
       /\ w.parent = z.parent /\ w.black = z.black
       /\ \A e \in Side, m \in Node :
            w.child[e][m] = IF m = q /\ e = o THEN b ELSE z.child[e][m]
  BY Zenon, <1>2, <1>3, <1>6, <1>8, <1>9 DEF Half, Trees
<1>11. Half(tree, w, o, s, b, i, q)
  BY <1>8, <1>10 DEF Half
<1>12. PICK black : black = [m \in Node |-> IF m = s THEN FALSE ELSE IF m = b THEN tree.black[s]
                                            ELSE (m = i \/ tree.black[m])]
  BY Zenon
<1>13. black \in [Node -> BOOLEAN]
  BY Zenon, <1>4, <1>12 DEF Shape, Trees
<1>14. PICK h : h = Rotate(w, s, b)
  OBVIOUS
<1>15. PICK v : /\ Turned(tree, v, o, s, b, i, q) /\ TurnedEnds(tree, v, s, b)
                /\ v.leftmost = w.leftmost /\ v.black = black
                /\ Completed(v, w, h, s, b, q)
  <2>1. b = tree.child[Other(o)][s] /\ q = tree.parent[s]
    BY <1>2, <1>3, <1>4
  <2>2. /\ i = tree.child[o][b] /\ o \in Side /\ s \in Node /\ b # Nil /\ q # Nil
        /\ Shape(tree, below)
    BY <1>1, <1>2, <1>3, <1>4
  <2>3. \E x : /\ Turned(tree, x, o, s, b, i, q) /\ TurnedEnds(tree, x, s, b)
               /\ x.leftmost = w.leftmost /\ x.black = black
               /\ Completed(x, w, h, s, b, q)
    BY <1>11, <1>13, <1>14, <2>1, <2>2, TurnHalf
  <2> QED BY <2>3
<1>16. Shape(v, TurnedBelow(tree, below, o, s, b, i))
  BY <1>2, <1>3, <1>4, <1>15, TurnKeepsShape
<1>17. /\ \A e \in Side, m \in Node :
            v.child[e][m] = IF e = d /\ m = s THEN i ELSE IF e = o /\ m = b THEN s
                            ELSE IF m = q /\ tree.child[e][m] = s THEN b ELSE tree.child[e][m]
       /\ \A m \in Node : v.parent[m] = IF m = b THEN q ELSE IF m = s THEN b
                                        ELSE IF m = i THEN s ELSE tree.parent[m]
       /\ v.root = tree.root
  <2>1. s # tree.root
    BY Zenon, <1>3, <1>5 DEF Around
  <2> QED BY SMTT(30), <1>2, <1>15, <2>1 DEF Turned
<1>18. /\ h \in Trees /\ h.child = w.child /\ h.parent = w.parent /\ h.black = w.black
       /\ h.leftmost = w.leftmost /\ h.root = v.root /\ h.last = v.last
       /\ \A e \in Side, m \in Node : m # q => v.child[e][m] = h.child[e][m]
       /\ \A m \in Node : m # b /\ m # s => v.parent[m] = h.parent[m]
  BY <1>15 DEF Completed
<1>19. h.child = v.child
  <2>1. v.child[o][q] = b /\ h.child[o][q] = b
    BY ZenonT(90), <1>2, <1>3, <1>6, <1>10, <1>17, <1>18
  <2>2. v.child[d][q] = h.child[d][q]
    <3>1. tree.child[d][q] # s
      BY <1>2, <1>3, OneParent
    <3>2. v.child[d][q] = tree.child[d][q]
      BY <1>2, <1>3, <1>6, <1>17, <3>1
    <3>3. z.child[d][q] = tree.child[d][q]
      BY <1>2, <1>3, <1>6, <1>8 DEF BlackenedTo, Middle
    <3> QED BY <1>2, <1>3, <1>10, <1>18, <3>2, <3>3
  <2>3. \A e \in Side, m \in Node : v.child[e][m] = h.child[e][m]
    BY <1>2, <1>18, <2>1, <2>2
  <2>4. /\ h.child \in [Side -> [Node -> Node \cup {Nil}]]
        /\ v.child \in [Side -> [Node -> Node \cup {Nil}]]
    BY <1>15, <1>18 DEF Turned, Trees
  <2> QED BY SMTT(30), <2>3, <2>4
<1>20. v.leftmost = tree.leftmost
  BY <1>8, <1>10, <1>15 DEF BlackenedTo
<1>21. Ready(v, h, b, s)
  BY <1>15, <1>18, <1>19 DEF Ready
<1>22. PICK j, p : j = v.child[d][b] /\ p = v.parent[q]
  BY SMTT(30)
<1>23. b = v.child[o][q] /\ s = v.child[o][b]
  BY Zenon, <1>2, <1>3, <1>4, <1>6, <1>17
<1>24. NearCase.tree = h /\ NearCase.sibling = b /\ NearCase.far = s
  BY <1>1, <1>7, <1>9, <1>14 DEF NearCase
<1>25. PICK u : u = tree'
  OBVIOUS
<1>26. u = Rotate(RotateSetParents(WithFar(Swing(h, d, q, b), s, b), q, b, TRUE), q, b)
  BY Zenon, <1>1, <1>24, <1>25 DEF EraseTurn, WithFar
<1>27. TurnStep(v, u, d, q, b, j, p) /\ Recoloured(h, u, q, b, s, TRUE)
  BY Zenon, <1>2, <1>3, <1>16, <1>21, <1>22, <1>23, <1>26, TurnFar
<1>28. TurnStep(tree, v, o, s, b, i, q)
  BY <1>15, <1>20 DEF TurnStep
<1>29. Recoloured(tree, v, s, b, i, FALSE)
  BY <1>12, <1>15 DEF Recoloured
<1>30. Recoloured(v, u, q, b, s, TRUE)
  <2>1. \A m \in Node : h.black[m] = (m = i \/ tree.black[m])
    BY <1>8, <1>10, <1>18 DEF BlackenedTo
  <2>2. \A m \in Node : m # s /\ m # b => v.black[m] = h.black[m]
    BY <1>12, <1>15, <2>1
  <2>3. v.black[q] = h.black[q]
    BY <1>3, <1>6, <2>2
  <2>4. \A m \in Node : u.black[m] = IF m = q THEN TRUE ELSE IF m = b THEN h.black[q]
                                     ELSE (m = s \/ h.black[m])
    BY Zenon, <1>27 DEF Recoloured
  <2> QED BY Zenon, <2>2, <2>3, <2>4 DEF Recoloured
<1>31. EraseTwice(v, u, d, q, s, b, i, j, p)
  BY Zenon, <1>1, <1>2, <1>3, <1>4, <1>22, <1>23, <1>27, <1>28, <1>29, <1>30 DEF EraseTwice
<1> QED BY <1>1, <1>25, <1>31

-----------------------------------------------------------------------------
(* The colours                                                             *)

(* What a node adds to the black nodes on a path.                          *)
Bit(t, n) == IF t.black[n] THEN 1 ELSE 0

(* hb[n] black nodes are on every way down from n; on those by side e of q *)
(* one is missing.                                                         *)
Paths(t, hb, q, e) ==
  /\ hb \in [Node \cup {Nil} -> Nat] /\ hb[Nil] = 0
  /\ \A n \in In(t), c \in Side :
       hb[n] = hb[t.child[c][n]] + Bit(t, n) + (IF n = q /\ c = e THEN 1 ELSE 0)

(* A red node is not the root and has a black parent.                      *)
RedOk(t, n) == ~t.black[n] => n # t.root /\ t.black[t.parent[n]]
(* This holds of all nodes but x.                                          *)
RedsOk(t, x) == \A n \in In(t) : n # x => RedOk(t, n)

(* A node is black or not.                                                 *)
LEMMA BitType ==
  ASSUME NEW t \in Trees, NEW n \in Node
  PROVE  Bit(t, n) \in Nat /\ t.black[n] \in BOOLEAN
BY DEF Bit, Trees

(* Below the nodes at a rotation nothing changes for the nodes above.      *)
SameBelow(t, u, d, n, b, i, hb, H) ==
  /\ H[u.child[Other(d)][n]] = hb[i] /\ H[u.child[d][n]] = hb[t.child[d][n]]
  /\ H[u.child[d][b]] = H[n] /\ H[u.child[Other(d)][b]] = hb[t.child[Other(d)][b]]
  /\ \A m \in Node, c \in Side : m # n /\ m # b => H[u.child[c][m]] = hb[t.child[c][m]]

(* Of every path that passes the rotation only the part between its nodes  *)
(* changes.                                                                *)
LEMMA TurnOthers ==
  ASSUME NEW t, NEW below, Shape(t, below), NEW d \in Side, NEW n \in Node,
         NEW u, NEW b, NEW i, NEW p, Turned(t, u, d, n, b, i, p), b # Nil,
         NEW hb, NEW H, H[b] = hb[n],
         \A m \in Node \cup {Nil} : m # n /\ m # b => H[m] = hb[m]
  PROVE  SameBelow(t, u, d, n, b, i, hb, H)
<1>1. Around(t, d, n, b, i, p)
  BY SMTT(30), TurnedAround
<1>2. /\ b \in Node /\ b # n /\ i # n /\ i # b /\ p # n /\ p # b /\ i \in Node \cup {Nil}
      /\ b = t.child[Other(d)][n] /\ i = t.child[d][b]
  BY <1>1 DEF Around
<1>3. Other(d) \in Side /\ Other(d) # d
  BY Sides
<1>4. \A e \in Side, k \in Node :
        u.child[e][k] = IF e = Other(d) /\ k = n THEN i ELSE IF e = d /\ k = b THEN n
                        ELSE IF k = p /\ t.child[e][k] = n THEN b ELSE t.child[e][k]
  BY SMTT(30) DEF Turned
<1>5. \A e \in Side, k \in Node : t.child[e][k] = n => k = p
  <2> SUFFICES ASSUME NEW e \in Side, NEW k \in Node, t.child[e][k] = n PROVE k = p
    OBVIOUS
  <2>1. t.parent[n] = k
    BY ChildFacts, RbTreeConstants
  <2> QED BY <1>1, <2>1 DEF Around
<1>6. \A e \in Side, k \in Node : t.child[e][k] = b => k = n /\ e = Other(d)
  <2> SUFFICES ASSUME NEW e \in Side, NEW k \in Node, t.child[e][k] = b
               PROVE  k = n /\ e = Other(d)
    OBVIOUS
  <2> QED BY <1>2, <1>3, OneParent
<1>7. \A e \in Side, k \in Node : t.child[e][k] \in Node \cup {Nil}
  BY DEF Shape, Trees
<1>8. t.child[d][n] # n /\ t.child[Other(d)][b] # b /\ t.child[Other(d)][b] # n
  <2>1. t.child[d][n] = n => n # Nil
    BY RbTreeConstants
  <2>2. \A e \in Side, k \in Node : t.child[e][k] # Nil => t.child[e][k] # k
    BY ChildFacts
  <2> QED BY <1>2, <1>3, <1>5, <2>2, RbTreeConstants
<1>9. ASSUME NEW m \in Node, NEW c \in Side, m # n, m # b
      PROVE  H[u.child[c][m]] = hb[t.child[c][m]]
  <2>1. t.child[c][m] # b
    BY <1>6, <1>9
  <2>2. CASE t.child[c][m] = n
    <3>1. m = p
      BY <1>5, <2>2
    <3>2. u.child[c][m] = b
      BY <1>4, <1>9, <2>2, <3>1
    <3> QED BY <2>2, <3>2
  <2>3. CASE t.child[c][m] # n
    BY SMTT(30), <1>4, <1>7, <1>9, <2>1, <2>3
  <2> QED BY <2>2, <2>3
<1>10. /\ H[u.child[Other(d)][n]] = hb[i] /\ H[u.child[d][n]] = hb[t.child[d][n]]
  <2>1. u.child[Other(d)][n] = i
    BY <1>3, <1>4
  <2>2. u.child[d][n] = t.child[d][n] /\ t.child[d][n] # b
    BY Zenon, <1>2, <1>3, <1>4, <1>6, <1>8
  <2> QED BY <1>2, <1>7, <1>8, <2>1, <2>2
<1>11. H[u.child[d][b]] = H[n] /\ H[u.child[Other(d)][b]] = hb[t.child[Other(d)][b]]
  <2>1. u.child[d][b] = n
    BY <1>2, <1>3, <1>4
  <2>2. u.child[Other(d)][b] = t.child[Other(d)][b]
    BY <1>2, <1>3, <1>4
  <2> QED BY <1>2, <1>3, <1>7, <1>8, <2>1, <2>2
<1> QED BY <1>9, <1>10, <1>11 DEF SameBelow

(* A red node comes up and a black one goes down.                          *)
LEMMA TurnPaths ==
  ASSUME NEW t, NEW below, Shape(t, below), NEW d \in Side, NEW n \in Node,
         NEW u, NEW b, NEW i, NEW p, Turned(t, u, d, n, b, i, p), b # Nil,
         Recoloured(t, u, n, b, i, FALSE), t.black[n], ~t.black[b], i # Nil => t.black[i],
         NEW hb, NEW q, NEW e, Paths(t, hb, q, e),
         q = Nil \/ (q = n /\ e = d) \/ (q # n /\ q # b)
  PROVE  Paths(u, [hb EXCEPT ![n] = hb[b], ![b] = hb[n]], q, e)
<1> DEFINE H == [hb EXCEPT ![n] = hb[b], ![b] = hb[n]]
           miss(m, c) == IF m = q /\ c = e THEN 1 ELSE 0
<1>1. Around(t, d, n, b, i, p)
  BY SMTT(30), TurnedAround
<1>2. /\ b \in Node /\ b # n /\ i # n /\ i # b /\ i \in Node \cup {Nil}
      /\ b = t.child[Other(d)][n] /\ i = t.child[d][b] /\ n \in In(t) /\ b \in In(t)
  BY <1>1 DEF Around
<1>3. Other(d) \in Side /\ Other(d) # d /\ \A c \in Side : c = d \/ c = Other(d)
  BY Sides
<1>4. /\ hb \in [Node \cup {Nil} -> Nat] /\ hb[Nil] = 0
      /\ \A m \in In(t), c \in Side : hb[m] = hb[t.child[c][m]] + Bit(t, m) + miss(m, c)
  BY DEF Paths
<1>5. PICK h : h = H
  BY Zenon
<1>6. /\ h \in [Node \cup {Nil} -> Nat] /\ h[Nil] = 0 /\ h[n] = hb[b] /\ h[b] = hb[n]
      /\ \A m \in Node \cup {Nil} : m # n /\ m # b => h[m] = hb[m]
  BY Zenon, <1>2, <1>4, <1>5, RbTreeConstants
<1> HIDE DEF H
<1>7. SameBelow(t, u, d, n, b, i, hb, h)
  BY <1>6, TurnOthers
<1>8. /\ h[u.child[Other(d)][n]] = hb[i] /\ h[u.child[d][n]] = hb[t.child[d][n]]
      /\ h[u.child[d][b]] = h[n] /\ h[u.child[Other(d)][b]] = hb[t.child[Other(d)][b]]
      /\ \A m \in Node, c \in Side : m # n /\ m # b => h[u.child[c][m]] = hb[t.child[c][m]]
  BY <1>7 DEF SameBelow
<1>9. /\ Bit(t, n) = 1 /\ Bit(t, b) = 0 /\ Bit(u, n) = 0 /\ Bit(u, b) = 1
      /\ \A m \in Node : m # n /\ m # b => Bit(u, m) = Bit(t, m)
  <2>1. ~u.black[n] /\ u.black[b]
    BY Zenon, <1>2 DEF Recoloured
  <2>2. ASSUME NEW m \in Node, m # n, m # b PROVE u.black[m] = t.black[m]
    <3>1. u.black[m] = (m = i \/ t.black[m])
      BY Zenon, <2>2 DEF Recoloured
    <3>2. m = i => t.black[m]
      BY RbTreeConstants
    <3>3. t.black[m] \in BOOLEAN
      BY BitType DEF Shape
    <3> QED BY <3>1, <3>2, <3>3
  <2> QED BY SMTT(30), <2>1, <2>2 DEF Bit
<1>10. \A c \in Side : miss(b, c) = 0
  BY <1>2, RbTreeConstants
<1>11. miss(n, Other(d)) = 0 /\ miss(n, d) \in {0, 1}
  BY <1>3, RbTreeConstants
<1>12. \A m \in Node, c \in Side : t.child[c][m] \in Node \cup {Nil}
  BY DEF Shape, Trees
<1> DEFINE x == t.child[d][n]
           f == t.child[Other(d)][b]
<1>13. /\ hb[n] = hb[x] + 1 + miss(n, d) /\ hb[n] = hb[b] + 1
       /\ hb[b] = hb[i] /\ hb[b] = hb[f]
       /\ hb[n] \in Nat /\ hb[b] \in Nat /\ hb[i] \in Nat /\ hb[f] \in Nat /\ hb[x] \in Nat
  <2>1. hb[n] \in Nat /\ hb[b] \in Nat /\ hb[i] \in Nat /\ hb[f] \in Nat /\ hb[x] \in Nat
    BY ZenonT(40), <1>2, <1>3, <1>4, <1>12
  <2>2. /\ hb[n] = hb[x] + Bit(t, n) + miss(n, d)
        /\ hb[n] = hb[b] + Bit(t, n) + miss(n, Other(d))
        /\ hb[b] = hb[i] + Bit(t, b) + miss(b, d)
        /\ hb[b] = hb[f] + Bit(t, b) + miss(b, Other(d))
    BY Zenon, <1>2, <1>3, <1>4
  <2>3. miss(b, d) = 0 /\ miss(b, Other(d)) = 0
    BY <1>2, <1>3, <1>10
  <2> HIDE DEF miss, x, f
  <2> QED BY SMTT(30), <1>9, <1>11, <2>1, <2>2, <2>3
<1>14. /\ h[n] = h[u.child[d][n]] + Bit(u, n) + miss(n, d)
       /\ h[n] = h[u.child[Other(d)][n]] + Bit(u, n) + miss(n, Other(d))
       /\ h[b] = h[u.child[d][b]] + Bit(u, b)
       /\ h[b] = h[u.child[Other(d)][b]] + Bit(u, b)
  <2>1. /\ h[u.child[Other(d)][n]] = hb[i] /\ h[u.child[d][n]] = hb[x]
        /\ h[u.child[d][b]] = h[n] /\ h[u.child[Other(d)][b]] = hb[f]
    BY <1>8
  <2> HIDE DEF miss, x, f
  <2>2. h[n] = hb[b] /\ h[b] = hb[n] /\ Bit(u, n) = 0 /\ Bit(u, b) = 1
    BY <1>6, <1>9
  <2>3. hb[b] = hb[x] + 0 + miss(n, d) /\ hb[b] = hb[i] + 0 + miss(n, Other(d))
    BY <1>11, <1>13
  <2>4. hb[n] = hb[b] + 1 /\ hb[n] = hb[f] + 1
    BY <1>13
  <2> QED BY <2>1, <2>2, <2>3, <2>4
<1>15. ASSUME NEW m \in In(u), NEW c \in Side
       PROVE  h[m] = h[u.child[c][m]] + Bit(u, m) + miss(m, c)
  <2>0. m \in Node /\ m \in In(t)
    BY <1>15, TurnKeepsIn DEF In
  <2>1. CASE m = n
    BY <1>3, <1>14, <2>1
  <2>2. CASE m = b
    <3>1. h[u.child[c][b]] \in Nat
      BY ZenonT(40), <1>2, <1>3, <1>6, <1>8, <1>13
    <3>2. h[b] = h[u.child[c][b]] + Bit(u, b) /\ miss(b, c) = 0
      BY Zenon, <1>2, <1>3, <1>10, <1>14
    <3> HIDE DEF miss
    <3> QED BY SMTT(30), <1>9, <2>2, <3>1, <3>2
  <2>3. CASE m # n /\ m # b
    <3>1. hb[m] = hb[t.child[c][m]] + Bit(t, m) + miss(m, c)
      BY <1>4, <2>0
    <3>2. h[m] = hb[m] /\ h[u.child[c][m]] = hb[t.child[c][m]] /\ Bit(u, m) = Bit(t, m)
      BY <1>6, <1>8, <1>9, <2>0, <2>3
    <3> QED BY <3>1, <3>2
  <2> QED BY <2>1, <2>2, <2>3
<1>16. Paths(u, h, q, e)
  BY <1>6, <1>15 DEF Paths
<1> QED BY <1>5, <1>16 DEF H

(* b is red and n is black; only x, which may be on the outer side of b,   *)
(* may be red below a red node.                                            *)
RisingRed(t, d, n, b, x) ==
  /\ t.black[n] /\ ~t.black[b] /\ RedsOk(t, x)
  /\ t.child[d][n] # Nil => t.black[t.child[d][n]]
  /\ x # Nil => x = t.child[Other(d)][b]

(* Then no red node is below a red one after the rotation.                 *)
LEMMA TurnReds ==
  ASSUME NEW t, NEW below, Shape(t, below), NEW d \in Side, NEW n \in Node,
         NEW u, NEW b, NEW i, NEW p, Turned(t, u, d, n, b, i, p), b # Nil,
         Recoloured(t, u, n, b, i, FALSE), NEW x, RisingRed(t, d, n, b, x)
  PROVE  RedsOk(u, Nil)
<1>0. /\ t.black[n] /\ ~t.black[b] /\ RedsOk(t, x)
      /\ t.child[d][n] # Nil => t.black[t.child[d][n]]
      /\ x # Nil => x = t.child[Other(d)][b]
  BY DEF RisingRed
<1>1. Around(t, d, n, b, i, p)
  BY SMTT(30), TurnedAround
<1>2. /\ b \in Node /\ b # n /\ i # n /\ i # b /\ i \in Node \cup {Nil}
      /\ b = t.child[Other(d)][n] /\ i = t.child[d][b] /\ b # t.root
  BY <1>1 DEF Around
<1>3. Other(d) \in Side /\ Other(d) # d /\ \A c \in Side : c = d \/ c = Other(d)
  BY Sides
<1>4. /\ u.root = b \/ u.root = t.root
      /\ \A m \in Node : u.parent[m] = IF m = b THEN p ELSE IF m = n THEN b
                                        ELSE IF m = i THEN n ELSE t.parent[m]
  BY DEF Turned
<1>5. \A m \in Node : u.black[m] = IF m = n THEN FALSE ELSE IF m = b THEN t.black[n]
                                   ELSE (m = i \/ t.black[m])
  BY Zenon DEF Recoloured
<1>6. ASSUME NEW m \in In(u), ~u.black[m]
      PROVE  m # u.root /\ u.black[u.parent[m]]
  <2>0. m \in Node /\ m \in In(t) /\ m # Nil
    BY <1>6, TurnKeepsIn, RbTreeConstants DEF In
  <2>1. CASE m = n
    <3>1. n # u.root
      <4>1. n = t.root => u.root = b
        BY DEF Turned
      <4>2. n # t.root => u.root = t.root
        BY DEF Turned
      <4> QED BY Zenon, <1>2, <4>1, <4>2
    <3>2. u.parent[n] = b
      BY <1>2, <1>4
    <3>3. u.black[b] = t.black[n]
      BY <1>2, <1>5, Zenon
    <3>4. u.black[b]
      BY <1>0, <3>3, Zenon
    <3>5. u.parent[m] = b /\ m # u.root
      BY <2>1, <3>1, <3>2
    <3> QED BY <3>4, <3>5
  <2>2. m # b /\ m # i
    <3>1. m = i => u.black[m]
      BY Zenon, <1>2, <1>5, <2>0
    <3>2. m = b => u.black[m] = t.black[n]
      BY Zenon, <1>2, <1>5, <2>0
    <3> QED BY Zenon, <1>0, <1>6, <3>1, <3>2
  <2>3. CASE m # n /\ m = x
    <3>1. t.parent[m] = b /\ m # t.root
      <4>1. /\ x # Nil => x = t.child[Other(d)][b]
            /\ b = t.child[Other(d)][n] /\ Other(d) \in Side /\ m # Nil
        BY Zenon, <1>0, <1>2, <1>3, <2>0
      <4> QED BY <4>1, <2>3, ChildFacts
    <3> QED BY Zenon, <1>0, <1>2, <1>4, <1>5, <2>0, <2>2, <2>3, <3>1
  <2>4. CASE m # n /\ m # x
    <3>1. ~t.black[m]
      BY Zenon, <1>0, <1>5, <1>6, <2>0, <2>2, <2>4
    <3>2. m # t.root /\ t.black[t.parent[m]]
      BY <1>0, <2>0, <2>4, <3>1 DEF RedsOk, RedOk
    <3>3. PICK k : k = t.parent[m]
      OBVIOUS
    <3>4. k \in Node
      BY <2>0, <3>2, <3>3, ParentFacts
    <3>5. k # b
      BY <1>0, <3>2, <3>3
    <3>6. k # n
      <4> SUFFICES ASSUME k = n PROVE FALSE
        OBVIOUS
      <4>1. PICK c \in Side : t.child[c][n] = m
        BY <2>0, <3>2, <3>3, ParentFacts
      <4>2. c = d
        BY <1>2, <1>3, <2>2, <4>1
      <4> QED BY <1>0, <2>0, <3>1, <4>1, <4>2
    <3>7. u.parent[m] = k /\ u.black[k]
      BY Zenon, <1>4, <1>5, <2>0, <2>2, <2>4, <3>2, <3>3, <3>4, <3>5, <3>6
    <3> QED BY <1>4, <2>2, <3>2, <3>7
  <2> QED BY <2>1, <2>3, <2>4
<1> QED BY <1>6 DEF RedsOk, RedOk

(* Two black nodes turn, and what was missing below the upper one is made  *)
(* good by a red node that turns black.                                    *)
LEMMA FarPaths ==
  ASSUME NEW t, NEW below, Shape(t, below), NEW d \in Side, NEW n \in Node,
         NEW u, NEW b, NEW i, NEW p, Turned(t, u, d, n, b, i, p), b # Nil,
         NEW f, f = t.child[Other(d)][b], f # Nil, Recoloured(t, u, n, b, f, TRUE),
         t.black[b], ~t.black[f], NEW hb, Paths(t, hb, n, d)
  PROVE  \E h : Paths(u, h, Nil, "left")
<1> DEFINE miss(m, c) == IF m = n /\ c = d THEN 1 ELSE 0
           o == Other(d)
           x == t.child[d][n]
<1>1. Around(t, d, n, b, i, p)
  BY TurnedAround
<1>2. /\ b \in Node /\ b # n /\ i # n /\ i # b /\ i \in Node \cup {Nil}
      /\ b = t.child[o][n] /\ i = t.child[d][b] /\ n \in In(t) /\ b \in In(t)
  BY <1>1 DEF Around
<1>3. o \in Side /\ o # d /\ \A c \in Side : c = d \/ c = o
  BY Sides
<1>4. /\ hb \in [Node \cup {Nil} -> Nat] /\ hb[Nil] = 0
      /\ \A m \in In(t), c \in Side : hb[m] = hb[t.child[c][m]] + Bit(t, m) + miss(m, c)
  BY DEF Paths
<1>5. /\ f \in Node /\ f \in In(t) /\ f # b /\ f # n
      /\ \A m \in Node, c \in Side : t.child[c][m] = f => m = b /\ c = o
  <2>1. f \in Node /\ f \in In(t) /\ f # b /\ t.parent[f] = b
    <3>1. b \in Node /\ o \in Side /\ f = t.child[o][b]
      BY Zenon, <1>2, <1>3
    <3> HIDE DEF o
    <3> QED BY SMTT(30), <3>1, ChildIs
  <2>2. f # n
    BY Zenon, <1>1, <2>1 DEF Around
  <2>3. ASSUME NEW m \in Node, NEW c \in Side, t.child[c][m] = f PROVE m = b /\ c = o
    <3>1. /\ b \in Node /\ o \in Side
      BY Zenon, <1>2, <1>3
    <3> QED BY <3>1, <2>3, OneParent
  <2> QED BY SMTT(30), <2>1, <2>2, <2>3
<1>6. PICK k : k = [hb EXCEPT ![f] = hb[f] + 1]
  BY Zenon
<1>7. /\ k \in [Node \cup {Nil} -> Nat] /\ k[f] = hb[f] + 1
      /\ \A m \in Node \cup {Nil} : m # f => k[m] = hb[m]
  BY <1>4, <1>5, <1>6
<1>8. PICK h : h = [k EXCEPT ![n] = hb[b], ![b] = hb[n]]
  BY Zenon
<1>9. /\ h \in [Node \cup {Nil} -> Nat] /\ h[Nil] = 0 /\ h[n] = hb[b] /\ h[b] = hb[n]
      /\ h[b] = k[n]
      /\ \A m \in Node \cup {Nil} : m # n /\ m # b => h[m] = k[m]
  BY Zenon, <1>2, <1>4, <1>5, <1>7, <1>8, RbTreeConstants
<1>10. SameBelow(t, u, d, n, b, i, k, h)
  BY <1>9, TurnOthers
<1>11. \A m \in Node, c \in Side : t.child[c][m] \in Node \cup {Nil}
  BY DEF Shape, Trees
<1>12. /\ h[u.child[o][n]] = hb[i] /\ h[u.child[d][n]] = hb[x]
       /\ h[u.child[d][b]] = h[n] /\ h[u.child[o][b]] = hb[f] + 1
       /\ \A m \in Node, c \in Side : m # n /\ m # b => h[u.child[c][m]] = hb[t.child[c][m]]
  <2>1. i # f /\ x # f
    BY Zenon, <1>2, <1>3, <1>5
  <2>2. k[i] = hb[i] /\ k[x] = hb[x]
    BY Zenon, <1>2, <1>7, <1>11, <2>1
  <2>3. \A m \in Node, c \in Side : m # b => k[t.child[c][m]] = hb[t.child[c][m]]
    BY <1>5, <1>7, <1>11
  <2>4. /\ h[u.child[o][n]] = k[i] /\ h[u.child[d][n]] = k[x]
        /\ h[u.child[d][b]] = h[n] /\ h[u.child[o][b]] = k[f]
        /\ \A m \in Node, c \in Side : m # n /\ m # b => h[u.child[c][m]] = k[t.child[c][m]]
    BY Zenon, <1>10 DEF SameBelow
  <2>5. ASSUME NEW m \in Node, NEW c \in Side, m # n, m # b
        PROVE  h[u.child[c][m]] = hb[t.child[c][m]]
    <3>1. k[t.child[c][m]] = hb[t.child[c][m]]
      BY Zenon, <2>3, <2>5
    <3>2. h[u.child[c][m]] = k[t.child[c][m]]
      BY Zenon, <2>4, <2>5
    <3> QED BY Zenon, <3>1, <3>2
  <2>6. k[f] = hb[f] + 1
    BY Zenon, <1>7
  <2> HIDE DEF x, o
  <2> QED BY Zenon, <2>2, <2>4, <2>5, <2>6
<1>13. /\ Bit(t, b) = 1 /\ Bit(t, f) = 0 /\ Bit(u, n) = 1 /\ Bit(u, b) = Bit(t, n) /\ Bit(u, f) = 1
       /\ \A m \in Node : m # n /\ m # b /\ m # f => Bit(u, m) = Bit(t, m)
  <2>1. u.black[n] /\ u.black[b] = t.black[n] /\ u.black[f]
    BY Zenon, <1>2, <1>5 DEF Recoloured
  <2>2. ASSUME NEW m \in Node, m # n, m # b, m # f PROVE u.black[m] = t.black[m]
    <3>1. t.black[m] \in BOOLEAN
      BY BitType DEF Shape
    <3> QED BY Zenon, <2>2, <3>1 DEF Recoloured
  <2> QED BY SMTT(30), <2>1, <2>2 DEF Bit
<1>14. /\ hb[n] = hb[x] + Bit(t, n) + 1 /\ hb[n] = hb[b] + Bit(t, n)
       /\ hb[b] = hb[i] + 1 /\ hb[b] = hb[f] + 1
       /\ hb[n] \in Nat /\ hb[b] \in Nat /\ hb[i] \in Nat /\ hb[f] \in Nat /\ hb[x] \in Nat
       /\ Bit(t, n) \in Nat
  <2>1. /\ hb[n] \in Nat /\ hb[b] \in Nat /\ hb[i] \in Nat /\ hb[f] \in Nat /\ hb[x] \in Nat
        /\ Bit(t, n) \in Nat
    BY ZenonT(40), <1>2, <1>4, <1>5, <1>11, BitType DEF Shape
  <2>2. /\ hb[n] = hb[x] + Bit(t, n) + miss(n, d)
        /\ hb[n] = hb[b] + Bit(t, n) + miss(n, o)
        /\ hb[b] = hb[i] + Bit(t, b) + miss(b, d)
        /\ hb[b] = hb[f] + Bit(t, b) + miss(b, o)
    BY <1>2, <1>3, <1>4
  <2>3. miss(b, d) = 0 /\ miss(b, o) = 0 /\ miss(n, d) = 1 /\ miss(n, o) = 0
    BY <1>2, <1>3
  <2> HIDE DEF miss, x, o
  <2> QED BY SMTT(30), <1>13, <2>1, <2>2, <2>3
<1>15. ASSUME NEW m \in In(u), NEW c \in Side
       PROVE  h[m] = h[u.child[c][m]] + Bit(u, m)
  <2>0. m \in Node /\ m \in In(t)
    BY <1>15, TurnKeepsIn DEF In
  <2>1. CASE m = n
    <3>1. h[n] = hb[b] /\ (h[u.child[c][n]] = hb[x] \/ h[u.child[c][n]] = hb[i]) /\ Bit(u, n) = 1
      BY <1>3, <1>9, <1>12, <1>13
    <3>2. hb[b] = hb[x] + 1 /\ hb[b] = hb[i] + 1
      <4> HIDE DEF x
      <4> QED BY <1>14
    <3> HIDE DEF x
    <3> QED BY <2>1, <3>1, <3>2
  <2>2. CASE m = b
    <3>1. h[b] = hb[n] /\ (h[u.child[c][b]] = hb[b] \/ h[u.child[c][b]] = hb[f] + 1)
      BY <1>3, <1>9, <1>12
    <3>2. hb[f] + 1 = hb[b] /\ hb[n] = hb[b] + Bit(t, n)
      BY <1>14
    <3> QED BY <1>13, <2>2, <3>1, <3>2
  <2>3. CASE m = f
    <3>0. PICK g : g = t.child[c][f]
      BY Zenon
    <3>1. h[f] = hb[f] + 1 /\ h[u.child[c][f]] = hb[g]
      BY Zenon, <1>5, <1>7, <1>9, <1>12, <3>0
    <3>2. hb[f] = hb[g] + Bit(t, f) + miss(f, c) /\ miss(f, c) = 0
      BY Zenon, <1>4, <1>5, <3>0
    <3>3. hb[g] \in Nat
      BY <1>4, <1>5, <1>11, <3>0
    <3>4. Bit(t, f) = 0 /\ Bit(u, f) = 1
      BY Zenon, <1>13
    <3> HIDE DEF miss
    <3> QED BY <2>3, <3>1, <3>2, <3>3, <3>4
  <2>4. CASE m # n /\ m # b /\ m # f
    <3>1. hb[m] = hb[t.child[c][m]] + Bit(t, m) + miss(m, c) /\ miss(m, c) = 0
      BY <1>4, <2>0, <2>4
    <3>2. h[m] = hb[m] /\ h[u.child[c][m]] = hb[t.child[c][m]] /\ Bit(u, m) = Bit(t, m)
      BY <1>7, <1>9, <1>12, <1>13, <2>0, <2>4
    <3>3. hb[t.child[c][m]] \in Nat /\ Bit(t, m) \in Nat
      BY <1>4, <1>11, <2>0, BitType DEF Shape
    <3> HIDE DEF miss
    <3> QED BY <3>1, <3>2, <3>3
  <2> QED BY <2>1, <2>2, <2>3, <2>4
<1>16. Paths(u, h, Nil, "left")
  <2>1. \A m \in In(u), c \in Side :
          /\ h[u.child[c][m]] \in Nat /\ Bit(u, m) \in Nat
          /\ (IF m = Nil /\ c = "left" THEN 1 ELSE 0) = 0
    <3>1. u \in Trees
      BY Zenon DEF Turned
    <3>2. \A m \in Node : Bit(u, m) \in Nat
      BY Zenon, <3>1, BitType
    <3>3. \A m \in Node, c \in Side : u.child[c][m] \in Node \cup {Nil}
      BY <3>1 DEF Trees
    <3> QED BY <1>9, <3>2, <3>3, InNode
  <2> QED BY <1>9, <1>15, <2>1 DEF Paths
<1> QED BY <1>16

(* Nor is any red node below a red one.                                    *)
LEMMA FarReds ==
  ASSUME NEW t, NEW below, Shape(t, below), NEW d \in Side, NEW n \in Node,
         NEW u, NEW b, NEW i, NEW p, Turned(t, u, d, n, b, i, p), b # Nil,
         NEW f, f = t.child[Other(d)][b], f # Nil, Recoloured(t, u, n, b, f, TRUE),
         t.black[b], ~t.black[f], RedsOk(t, Nil)
  PROVE  RedsOk(u, Nil)
<1>1. Around(t, d, n, b, i, p)
  BY SMTT(30), TurnedAround
<1>2. /\ b \in Node /\ b # n /\ i # n /\ i # b /\ i \in Node \cup {Nil} /\ p # n /\ p # b
      /\ b = t.child[Other(d)][n] /\ i = t.child[d][b] /\ b # t.root /\ p = t.parent[n]
      /\ n \in In(t) /\ (i # Nil => i # t.root)
  BY <1>1 DEF Around
<1>3. Other(d) \in Side /\ Other(d) # d /\ \A c \in Side : c = d \/ c = Other(d)
  BY Sides
<1>4. /\ u.root = (IF n = t.root THEN b ELSE t.root)
      /\ \A m \in Node : u.parent[m] = IF m = b THEN p ELSE IF m = n THEN b
                                       ELSE IF m = i THEN n ELSE t.parent[m]
  BY DEF Turned
<1>5. \A m \in Node : u.black[m] = IF m = n THEN TRUE ELSE IF m = b THEN t.black[n]
                                   ELSE (m = f \/ t.black[m])
  BY Zenon DEF Recoloured
<1>6. ASSUME NEW m \in In(u), ~u.black[m]
      PROVE  m # u.root /\ u.black[u.parent[m]]
  <2>0. m \in Node /\ m \in In(t) /\ m # Nil /\ m # n
    BY Zenon, <1>5, <1>6, TurnKeepsIn, RbTreeConstants DEF In
  <2>1. CASE m = b
    <3>1. ~t.black[n]
      BY Zenon, <1>2, <1>5, <1>6, <2>1
    <3>2. n # t.root /\ t.black[p] /\ p \in Node
      <4>1. n # Nil
        BY SMTT(30), RbTreeConstants
      <4>2. n # t.root /\ t.black[t.parent[n]]
        BY Zenon, <1>2, <3>1, <4>1 DEF RedsOk, RedOk
      <4> QED BY <1>2, <4>2, ParentFacts
    <3> QED BY Zenon, <1>2, <1>4, <1>5, <2>1, <3>2
  <2>2. CASE m = i
    <3>1. u.parent[m] = n /\ u.black[n] /\ m # t.root
      BY Zenon, <1>2, <1>4, <1>5, <2>0, <2>2
    <3> QED BY Zenon, <1>2, <1>4, <2>2, <3>1
  <2>3. CASE m # b /\ m # i
    <3>1. ~t.black[m] /\ m # f
      BY Zenon, <1>5, <1>6, <2>0, <2>3
    <3>2. m # t.root /\ t.black[t.parent[m]]
      BY <2>0, <3>1 DEF RedsOk, RedOk
    <3>3. PICK k : k = t.parent[m]
      OBVIOUS
    <3>4. k \in Node
      BY SMTT(30), <2>0, <3>2, <3>3, ParentFacts
    <3>5. k # b
      <4> SUFFICES ASSUME k = b PROVE FALSE
        OBVIOUS
      <4>1. PICK c \in Side : t.child[c][b] = m
        BY <2>0, <3>2, <3>3, ParentFacts
      <4> QED BY <1>2, <1>3, <2>3, <3>1, <4>1
    <3>6. u.parent[m] = k /\ u.black[k]
      BY Zenon, <1>4, <1>5, <2>0, <2>3, <3>2, <3>3, <3>4, <3>5
    <3> QED BY <1>4, <2>3, <3>2, <3>6
  <2> QED BY <2>1, <2>2, <2>3
<1> QED BY <1>6 DEF RedsOk, RedOk

(* The first of two rotations of an insertion moves a red node over        *)
(* another.                                                                *)
SameBlack(t, u, i) == (\A m \in Node : u.black[m] = t.black[m]) /\ (i # Nil => t.black[i])

(* The first rotation of an insertion changes no colour: what it blackens  *)
(* is black already.                                                       *)
LEMMA InnerBlack ==
  ASSUME NEW t, NEW below, Shape(t, below), NEW d \in Side, NEW n \in Node,
         NEW u, NEW b, NEW i, NEW p, Turned(t, u, d, n, b, i, p), b # Nil,
         ~t.black[n], ~t.black[b], RedsOk(t, b),
         \A m \in Node : u.black[m] = (m # n /\ (m = i \/ t.black[m]))
  PROVE  SameBlack(t, u, i)
<1>1. Around(t, d, n, b, i, p)
  BY SMTT(30), TurnedAround
<1>2. b \in Node /\ i \in Node \cup {Nil} /\ i # b /\ (i # Nil => t.parent[i] = b /\ i \in In(t))
  BY <1>1 DEF Around
<1>3. i # Nil => t.black[i]
  BY <1>2 DEF RedsOk, RedOk
<1>4. \A m \in Node : t.black[m] \in BOOLEAN
  BY BitType DEF Shape
<1>5. ASSUME NEW m \in Node PROVE u.black[m] = t.black[m]
  <2>1. m = i => t.black[m]
    BY <1>3, RbTreeConstants
  <2> QED BY <1>4, <2>1
<1> QED BY <1>3, <1>5 DEF SameBlack

(* Two red nodes turn, and no path has more or fewer black ones.           *)
LEMMA InnerPaths ==
  ASSUME NEW t, NEW below, Shape(t, below), NEW d \in Side, NEW n \in Node,
         NEW u, NEW b, NEW i, NEW p, Turned(t, u, d, n, b, i, p), b # Nil,
         ~t.black[n], ~t.black[b], \A m \in Node : u.black[m] = t.black[m],
         NEW hb, NEW e, Paths(t, hb, Nil, e)
  PROVE  Paths(u, hb, Nil, e)
<1>1. Around(t, d, n, b, i, p)
  BY SMTT(30), TurnedAround
<1>2. /\ b \in Node /\ b # n /\ i # n /\ i # b /\ i \in Node \cup {Nil}
      /\ b = t.child[Other(d)][n] /\ i = t.child[d][b] /\ n \in In(t) /\ b \in In(t)
  BY <1>1 DEF Around
<1>3. Other(d) \in Side /\ Other(d) # d /\ \A c \in Side : c = d \/ c = Other(d)
  BY Sides
<1>4. \A m \in Node, c \in Side : t.child[c][m] \in Node \cup {Nil}
  BY DEF Shape, Trees
<1>5. /\ hb \in [Node \cup {Nil} -> Nat] /\ hb[Nil] = 0
      /\ \A m \in In(t), c \in Side : hb[m] = hb[t.child[c][m]] + Bit(t, m)
  <2>1. hb \in [Node \cup {Nil} -> Nat] /\ hb[Nil] = 0
    BY DEF Paths
  <2>2. ASSUME NEW m \in In(t), NEW c \in Side
        PROVE  hb[m] = hb[t.child[c][m]] + Bit(t, m)
    <3>1. hb[m] = hb[t.child[c][m]] + Bit(t, m) + 0
      BY InNode DEF Paths
    <3>2. hb[t.child[c][m]] \in Nat /\ Bit(t, m) \in Nat
      BY <1>4, <2>1, InNode, BitType DEF Shape
    <3> QED BY <3>1, <3>2
  <2> QED BY <2>1, <2>2
<1>6. Bit(t, n) = 0 /\ Bit(t, b) = 0 /\ \A m \in Node : Bit(u, m) = Bit(t, m)
  BY <1>2 DEF Bit
<1>7. /\ hb[n] = hb[b] /\ hb[b] = hb[i] /\ hb[n] = hb[t.child[d][n]]
      /\ hb[b] = hb[t.child[Other(d)][b]]
  <2>1. hb[n] = hb[b] + 0 /\ hb[b] = hb[i] + 0 /\ hb[n] = hb[t.child[d][n]] + 0
        /\ hb[b] = hb[t.child[Other(d)][b]] + 0
    <3>1. /\ b = t.child[Other(d)][n] /\ i = t.child[d][b] /\ n \in In(t) /\ b \in In(t)
          /\ Other(d) \in Side
          /\ \A m \in In(t), c \in Side : hb[m] = hb[t.child[c][m]] + Bit(t, m)
          /\ Bit(t, n) = 0 /\ Bit(t, b) = 0
      BY Zenon, <1>2, <1>3, <1>5, <1>6
    <3> QED BY SMTT(30), <3>1
  <2>2. /\ hb[b] \in Nat /\ hb[i] \in Nat /\ hb[t.child[d][n]] \in Nat
        /\ hb[t.child[Other(d)][b]] \in Nat
    BY <1>2, <1>3, <1>4, <1>5
  <2> QED BY SMTT(30), <2>1, <2>2
<1>8. SameBelow(t, u, d, n, b, i, hb, hb)
  BY <1>7, TurnOthers
<1>9. ASSUME NEW m \in In(u), NEW c \in Side
      PROVE  hb[m] = hb[u.child[c][m]] + Bit(u, m) + (IF m = Nil /\ c = e THEN 1 ELSE 0)
  <2>0. m \in Node /\ m \in In(t) /\ m # Nil
    BY <1>9, TurnKeepsIn, InNode DEF In
  <2>1. hb[u.child[c][m]] \in Nat /\ Bit(u, m) \in Nat
    <3>1. u \in Trees
      BY DEF Turned
    <3>2. u.child[c][m] \in Node \cup {Nil}
      BY <2>0, <3>1 DEF Trees
    <3> QED BY <1>5, <2>0, <3>1, <3>2, BitType
  <2>2. CASE m = n
    <3>1. hb[u.child[c][n]] = hb[n] /\ Bit(u, n) = 0
      BY <1>3, <1>6, <1>7, <1>8 DEF SameBelow
    <3> QED BY <2>0, <2>1, <2>2, <3>1
  <2>3. CASE m = b
    <3>1. hb[u.child[c][b]] = hb[b] /\ Bit(u, b) = 0
      BY Zenon, <1>2, <1>3, <1>6, <1>7, <1>8 DEF SameBelow
    <3> QED BY SMTT(30), <2>0, <2>1, <2>3, <3>1
  <2>4. CASE m # n /\ m # b
    <3>1. hb[u.child[c][m]] = hb[t.child[c][m]] /\ Bit(u, m) = Bit(t, m)
      BY <1>6, <1>8, <2>0, <2>4 DEF SameBelow
    <3>2. hb[m] = hb[t.child[c][m]] + Bit(t, m)
      BY <1>5, <2>0
    <3> QED BY <2>0, <2>1, <3>1, <3>2
  <2> QED BY <2>2, <2>3, <2>4
<1> QED BY <1>5, <1>9 DEF Paths

(* The node that is wrong afterwards is the one that went down.            *)
LEMMA InnerReds ==
  ASSUME NEW t, NEW below, Shape(t, below), NEW d \in Side, NEW n \in Node,
         NEW u, NEW b, NEW i, NEW p, Turned(t, u, d, n, b, i, p), b # Nil,
         ~t.black[n], ~t.black[b], \A m \in Node : u.black[m] = t.black[m],
         i # Nil => t.black[i], RedsOk(t, b)
  PROVE  RedsOk(u, n)
<1>1. Around(t, d, n, b, i, p)
  BY SMTT(30), TurnedAround
<1>2. /\ b \in Node /\ b # n /\ i # n /\ i # b /\ i \in Node \cup {Nil} /\ p # n /\ p # b
      /\ b = t.child[Other(d)][n] /\ i = t.child[d][b] /\ b # t.root /\ p = t.parent[n]
      /\ n \in In(t)
  BY Zenon, <1>1 DEF Around
<1>3. n # t.root /\ t.black[p] /\ p \in Node
  <2>1. n # t.root /\ t.black[p]
    BY <1>2 DEF RedsOk, RedOk
  <2> QED BY <1>2, <2>1, ParentFacts
<1>4. /\ u.root = t.root
      /\ \A m \in Node : u.parent[m] = IF m = b THEN p ELSE IF m = n THEN b
                                       ELSE IF m = i THEN n ELSE t.parent[m]
  BY <1>3 DEF Turned
<1>5. ASSUME NEW m \in In(u), m # n, ~u.black[m]
      PROVE  m # u.root /\ u.black[u.parent[m]]
  <2>0. m \in Node /\ m \in In(t) /\ m # Nil
    BY SMTT(30), <1>5, TurnKeepsIn, RbTreeConstants DEF In
  <2>1. CASE m = b
    BY <1>2, <1>3, <1>4, <2>1
  <2>2. CASE m # b
    <3>1. m # i
      BY <1>5, <2>0
    <3>2. m # t.root /\ t.black[t.parent[m]]
      BY <1>5, <2>0, <2>2 DEF RedsOk, RedOk
    <3>3. t.parent[m] \in Node
      BY <2>0, <3>2, ParentFacts
    <3> QED BY <1>4, <1>5, <2>0, <2>2, <3>1, <3>2, <3>3
  <2> QED BY <2>1, <2>2
<1> QED BY <1>5 DEF RedsOk, RedOk

-----------------------------------------------------------------------------
(* Colours alone                                                           *)

(* Only the colours are others.                                            *)
SameLinks(t, u) ==
  /\ u \in Trees /\ u.root = t.root /\ u.leftmost = t.leftmost
  /\ u.child = t.child /\ u.parent = t.parent /\ u.last = t.last

(* Colours alone change neither the shape nor the order.                   *)
LEMMA SameLinksShape ==
  ASSUME NEW t, NEW u, SameLinks(t, u), NEW below, Shape(t, below)
  PROVE  /\ Shape(u, below) /\ In(u) = In(t)
         /\ \A first : FirstIs(t, below, first) => FirstIs(u, below, first)
         /\ \A R : Ordered(t, below, R) => Ordered(u, below, R)
<1>1. In(u) = In(t)
  BY DEF SameLinks, In
<1>2. Links(u)
  BY <1>1 DEF SameLinks, Shape, Links
<1>3. Subtrees(u, below)
  BY <1>1 DEF SameLinks, Shape, Subtrees
<1>4. \A first : FirstIs(t, below, first) => FirstIs(u, below, first)
  BY <1>1 DEF SameLinks, FirstIs
<1>5. \A R : Ordered(t, below, R) => Ordered(u, below, R)
  BY DEF SameLinks, Ordered
<1> QED BY <1>1, <1>2, <1>3, <1>4, <1>5 DEF SameLinks, Shape

-----------------------------------------------------------------------------
(* The ends                                                                *)

(* The end kept with n is that of the last interval in its subtree.        *)
EndOf(t, below, n) ==
  /\ \A m \in below[n] : LAST[m] <= t.last[n]
  /\ \E m \in below[n] : LAST[m] = t.last[n]

(* This is kept in augmented trees only.                                   *)
Ends(t, below) == Augmented => \A n \in In(t) : EndOf(t, below, n)

(* Ends that are right at the children, and right as to them at the node,  *)
(* are right.                                                              *)
LEMMA LocalToEnd ==
  ASSUME NEW t, NEW below, Shape(t, below), NEW n \in In(t), LocalEnd(t, n),
         \A e \in Side : t.child[e][n] # Nil => EndOf(t, below, t.child[e][n])
  PROVE  EndOf(t, below, n)
<1>1. n \in Node /\ t.last[n] \in Int /\ LAST[n] \in Int
  BY InNode, RbTreeConstants DEF Shape, Trees
<1>2. \A m \in below[n] : m = n \/ \E e \in Side : m \in below[t.child[e][n]]
  BY <1>1, BelowParts
<1>3. n \in below[n] /\ \A e \in Side : \A m \in below[t.child[e][n]] : m \in below[n] /\ m \in Node
  BY <1>1, BelowParts
<1>4. \A e \in Side : t.child[e][n] = Nil => below[t.child[e][n]] = {}
  BY DEF Shape, Subtrees
<1>5. \A e \in Side : t.child[e][n] # Nil => t.child[e][n] \in Node /\ t.last[t.child[e][n]] \in Int
  BY <1>1 DEF Shape, Trees
<1>6. ASSUME NEW m \in below[n] PROVE LAST[m] <= t.last[n]
  <2>1. CASE m = n
    BY <1>1, <2>1 DEF LocalEnd
  <2>2. CASE m # n
    <3>1. PICK e \in Side : m \in below[t.child[e][n]]
      BY <1>2, <2>2
    <3>2. t.child[e][n] # Nil /\ m \in Node
      BY <1>3, <1>4, <3>1
    <3>3. LAST[m] <= t.last[t.child[e][n]] /\ t.last[t.child[e][n]] <= t.last[n]
      BY <1>1, <1>5, <3>1, <3>2 DEF LocalEnd, EndOf
    <3>4. LAST[m] \in Int
      BY <3>2, RbTreeConstants
    <3> QED BY <1>1, <1>5, <3>2, <3>3, <3>4
  <2> QED BY <2>1, <2>2
<1>7. \E m \in below[n] : LAST[m] = t.last[n]
  <2>1. CASE t.last[n] = LAST[n]
    BY <1>3, <2>1
  <2>2. CASE t.last[n] # LAST[n]
    <3>1. PICK e \in Side : t.child[e][n] # Nil /\ t.last[n] = t.last[t.child[e][n]]
      BY <2>2 DEF LocalEnd
    <3>2. PICK m \in below[t.child[e][n]] : LAST[m] = t.last[t.child[e][n]]
      BY <3>1 DEF EndOf
    <3> QED BY <1>3, <3>1, <3>2
  <2> QED BY <2>1, <2>2
<1> QED BY <1>6, <1>7 DEF EndOf

(* A rotation keeps all ends right, though it computes one only.           *)
LEMMA TurnKeepsEnds ==
  ASSUME NEW t, NEW below, Shape(t, below), NEW d \in Side, NEW n \in Node,
         NEW u, NEW b, NEW i, NEW p, Turned(t, u, d, n, b, i, p), b # Nil,
         TurnedEnds(t, u, n, b), Ends(t, below)
  PROVE  Ends(u, TurnedBelow(t, below, d, n, b, i))
<1> SUFFICES ASSUME Augmented
             PROVE  \A m \in In(u) : EndOf(u, TurnedBelow(t, below, d, n, b, i), m)
  BY DEF Ends
<1>1. PICK B, o, c, f :
           /\ B = TurnedBelow(t, below, d, n, b, i) /\ o = Other(d)
           /\ c = t.child[d][n] /\ f = t.child[o][b]
           /\ BelowTurned(t, u, below, B, d, o, n, b, c, i, f)
  BY TurnBelow
<1>2. Around(t, d, n, b, i, p)
  BY TurnedAround
<1>3. Shape(u, B)
  BY SMTT(30), <1>1, TurnKeepsShape
<1>4. b \in Node /\ b # n /\ i # n /\ i # b /\ n \in In(t) /\ b \in In(t)
  BY <1>2 DEF Around
<1>5. o \in Side /\ o # d /\ \A e \in Side : e = d \/ e = o
  BY SMTT(30), <1>1, Sides
<1>6. u.child[o][n] = i /\ u.child[d][n] = c /\ c # n /\ c # b
  <2>1. c # b
    <3>1. /\ o = Other(d) /\ c = t.child[d][n] /\ o \in Side /\ o # d
      BY Zenon, <1>1, <1>5
    <3> QED BY <3>1, OneParent DEF Turned
  <2>2. c # n
    <3>1. t.child[d][n] # Nil => t.child[d][n] # n
      BY ChildFacts
    <3> QED BY <1>1, <3>1, RbTreeConstants
  <2> QED BY Zenon, <1>1, <1>4, <1>5, <2>1, <2>2 DEF Turned
<1>7. /\ u.last[b] = t.last[n] /\ LocalEnd(u, n)
      /\ \A m \in Node : m # n /\ m # b => u.last[m] = t.last[m]
  BY DEF TurnedEnds
<1>8. \A m \in Node \cup {Nil} : m # b /\ m # n => B[m] = below[m]
  BY <1>1 DEF BelowTurned
<1>9. \A m \in Node : m \in In(u) <=> m \in In(t)
  BY TurnKeepsIn
<1>10. \A m \in In(t) : EndOf(t, below, m)
  BY DEF Ends
<1>11. \A m \in In(t) : m # n /\ m # b => EndOf(u, B, m)
  <2> SUFFICES ASSUME NEW m \in In(t), m # n, m # b PROVE EndOf(u, B, m)
    OBVIOUS
  <2>1. m \in Node
    BY InNode
  <2>2. u.last[m] = t.last[m] /\ B[m] = below[m]
    BY <1>7, <1>8, <2>1
  <2> QED BY <1>10, <2>2 DEF EndOf
<1>12. EndOf(u, B, b)
  <2>1. B[b] = below[n]
    BY <1>1 DEF BelowTurned
  <2>2. EndOf(t, below, n)
    BY <1>4, <1>10
  <2> QED BY <1>7, <2>1, <2>2 DEF EndOf
<1>13. EndOf(u, B, n)
  <2>1. \A e \in Side : u.child[e][n] # Nil => EndOf(u, B, u.child[e][n])
    <3> SUFFICES ASSUME NEW e \in Side, u.child[e][n] # Nil PROVE EndOf(u, B, u.child[e][n])
      OBVIOUS
    <3>1. u.child[e][n] \in In(u) /\ u.child[e][n] \in Node
      BY <1>3, ChildFacts
    <3>2. u.child[e][n] # n /\ u.child[e][n] # b
      BY <1>4, <1>5, <1>6
    <3> QED BY <1>9, <1>11, <3>1, <3>2
  <2>2. n \in In(u)
    BY <1>4, <1>9
  <2> QED BY <1>3, <1>7, <2>1, <2>2, LocalToEnd
<1>14. \A m \in In(u) : EndOf(u, B, m)
  BY <1>9, <1>11, <1>12, <1>13, InNode
<1> QED BY <1>1, <1>14

-----------------------------------------------------------------------------
(* What rebalancing keeps                                                  *)

(* Everything but colours is as good after as before.                      *)
Kept(t, below, u, B) ==
  /\ Shape(u, B) /\ u.leftmost = t.leftmost
  /\ \A m \in Node : m \in In(u) <=> m \in In(t)
  /\ FirstIs(t, below, t.leftmost) => FirstIs(u, B, u.leftmost)
  /\ \A R : Transitive(R) /\ Ordered(t, below, R) => Ordered(u, B, R)
  /\ Ends(t, below) => Ends(u, B)

(* Two such steps make one.                                                *)
LEMMA KeptTwice ==
  ASSUME NEW t, NEW below, NEW v, NEW C, NEW u, NEW B, Kept(t, below, v, C), Kept(v, C, u, B)
  PROVE  Kept(t, below, u, B)
BY DEF Kept

(* A whole rotation is one.                                                *)
LEMMA TurnKeeps ==
  ASSUME NEW t, NEW below, Shape(t, below), NEW d \in Side, NEW n \in Node,
         NEW u, NEW b, NEW i, NEW p, TurnStep(t, u, d, n, b, i, p), b # Nil
  PROVE  Kept(t, below, u, TurnedBelow(t, below, d, n, b, i))
<1>1. Turned(t, u, d, n, b, i, p) /\ TurnedEnds(t, u, n, b) /\ u.leftmost = t.leftmost
  BY DEF TurnStep
<1>2. PICK B : B = TurnedBelow(t, below, d, n, b, i)
  OBVIOUS
<1>3. Shape(u, B) /\ \A m \in Node : m \in In(u) <=> m \in In(t)
  BY <1>1, <1>2, TurnKeepsShape, TurnKeepsIn
<1>4. FirstIs(t, below, t.leftmost) => FirstIs(u, B, u.leftmost)
  BY <1>1, <1>2, TurnKeepsFirst
<1>5. \A R : Transitive(R) /\ Ordered(t, below, R) => Ordered(u, B, R)
  BY <1>1, <1>2, TurnKeepsOrder
<1>6. Ends(t, below) => Ends(u, B)
  BY <1>1, <1>2, TurnKeepsEnds
<1>7. Kept(t, below, u, B)
  BY <1>1, <1>3, <1>4, <1>5, <1>6 DEF Kept
<1> QED BY <1>2, <1>7

(* A change of colours is one.                                             *)
LEMMA SameLinksKeep ==
  ASSUME NEW t, NEW u, SameLinks(t, u), NEW below, Shape(t, below)
  PROVE  Kept(t, below, u, below)
<1>1. /\ Shape(u, below) /\ In(u) = In(t)
      /\ \A first : FirstIs(t, below, first) => FirstIs(u, below, first)
      /\ \A R : Ordered(t, below, R) => Ordered(u, below, R)
  BY SameLinksShape
<1>2. Ends(t, below) => Ends(u, below)
  BY <1>1 DEF SameLinks, Ends, EndOf
<1> QED BY <1>1, <1>2 DEF Kept, SameLinks

-----------------------------------------------------------------------------
(* The invariants of the loops                                             *)

(* Which paths lack a black node is told by the side of x below q.         *)
Missing(t, x, q, hb) ==
  \E d \in Side : /\ d = (IF x # t.child["right"][q] THEN "left" ELSE "right")
                  /\ x = t.child[d][q] /\ Paths(t, hb, q, d)

(* What the loops of __rb_insert and ____rb_erase_color have still to make *)
(* good: a red node that may be below a red one, or a black node that is   *)
(* missing on the paths below x; between two calls nothing.                *)
Loops(t, s, x, q, hb) ==
  /\ s \in {"idle", "insert", "erase"}
  /\ s = "idle" => x = Nil /\ q = Nil /\ RedsOk(t, Nil) /\ Paths(t, hb, Nil, "left")
  /\ s = "insert" => /\ x \in In(t) /\ ~t.black[x] /\ q = t.parent[x]
                     /\ RedsOk(t, x) /\ Paths(t, hb, Nil, "left")
  /\ s = "erase" => /\ q \in In(t) /\ (x # Nil => t.black[x])
                    /\ RedsOk(t, Nil) /\ Missing(t, x, q, hb)

(* A step of rebalancing keeps the tree and comes to the next round.       *)
Rebalanced(below) ==
  \E B, h : Kept(tree, below, tree', B) /\ Loops(tree', pc', node', parent', h)

(* If no path lacks a node, it is the same by which side.                  *)
LEMMA NoneMissing ==
  ASSUME NEW t \in Trees, NEW hb, NEW e, Paths(t, hb, Nil, e), NEW c
  PROVE  Paths(t, hb, Nil, c)
<1>1. \A n \in In(t) : n # Nil
  BY InNode
<1> QED BY <1>1 DEF Paths

(* A step that leaves nothing to be made good ends the loop.               *)
LEMMA ToIdle ==
  ASSUME NEW below, NEW u, u = tree', NEW B, Kept(tree, below, u, B), Idle,
         RedsOk(u, Nil), NEW h, NEW e, Paths(u, h, Nil, e)
  PROVE  Rebalanced(below)
<1>1. u \in Trees
  BY DEF Kept, Shape
<1>2. Paths(u, h, Nil, "left")
  BY <1>1, NoneMissing
<1>3. Loops(u, pc', node', parent', h)
  BY <1>2 DEF Loops, Idle
<1> QED BY <1>3 DEF Rebalanced

(* The node has come up to the root and turns black.                       *)
LEMMA InsertAtRootKeeps ==
  ASSUME NEW below, Shape(tree, below), NEW hb, Loops(tree, pc, node, parent, hb), InsertAtRoot
  PROVE  Rebalanced(below)
<1>1. PICK t, u, x : t = tree /\ u = tree' /\ x = node
  OBVIOUS
<1>2. /\ x \in In(t) /\ ~t.black[x] /\ t.parent[x] = Nil /\ RedsOk(t, x)
      /\ Paths(t, hb, Nil, "left") /\ u = Blacken(t, x) /\ Idle /\ t \in Trees
  BY <1>1 DEF InsertAtRoot, Loops, Shape
<1>3. x \in Node /\ x # Nil /\ x = t.root
  BY <1>2, InNode DEF In
<1>4. Blackened(t, u, x)
  BY <1>2, <1>3, BlackenFields
<1>5. SameLinks(t, u)
  BY <1>4 DEF Blackened, SameLinks
<1>6. Shape(t, below)
  BY <1>1
<1>7. Kept(t, below, u, below)
  BY <1>5, <1>6, SameLinksKeep
<1>8. /\ In(u) = In(t) /\ u.root = t.root /\ u.parent = t.parent /\ u.child = t.child
      /\ \A m \in Node : u.black[m] = (m = x \/ t.black[m])
  BY <1>4, <1>5, <1>6, SameLinksShape DEF Blackened
<1>9. RedsOk(u, Nil)
  <2> SUFFICES ASSUME NEW m \in In(u), ~u.black[m]
               PROVE  m # u.root /\ u.black[u.parent[m]]
    BY DEF RedsOk, RedOk
  <2>1. m \in In(t) /\ m \in Node /\ m # x /\ ~t.black[m]
    BY Zenon, <1>8, InNode
  <2>2. m # t.root /\ t.black[t.parent[m]]
    BY <1>2, <2>1 DEF RedsOk, RedOk
  <2>3. t.parent[m] \in Node
    BY <1>6, <2>1, <2>2, ParentFacts
  <2> QED BY Zenon, <1>8, <2>2, <2>3
<1>10. PICK h : h = [hb EXCEPT ![x] = hb[x] + 1]
  BY Zenon
<1>11. /\ hb \in [Node \cup {Nil} -> Nat] /\ hb[Nil] = 0
       /\ \A m \in In(t), c \in Side :
            hb[m] = hb[t.child[c][m]] + Bit(t, m) + (IF m = Nil /\ c = "left" THEN 1 ELSE 0)
  BY <1>2 DEF Paths
<1>12. Paths(u, h, Nil, "left")
  <2>1. h \in [Node \cup {Nil} -> Nat] /\ h[Nil] = 0
    BY <1>3, <1>10, <1>11
  <2>2. ASSUME NEW m \in In(u), NEW c \in Side
        PROVE  h[m] = h[u.child[c][m]] + Bit(u, m) + (IF m = Nil /\ c = "left" THEN 1 ELSE 0)
    <3>0. m \in In(t) /\ m \in Node /\ m # Nil
      BY <1>8, InNode
    <3>1. u.child[c][m] = t.child[c][m] /\ t.child[c][m] # x /\ t.child[c][m] \in Node \cup {Nil}
      BY <1>2, <1>3, <1>6, <1>8, <3>0, ChildFacts DEF Trees
    <3>2. h[u.child[c][m]] = hb[t.child[c][m]] /\ hb[t.child[c][m]] \in Nat
      BY <1>10, <1>11, <3>1
    <3>3. hb[m] = hb[t.child[c][m]] + Bit(t, m) + 0 /\ Bit(t, m) \in Nat
      BY <1>2, <1>11, <3>0, BitType
    <3>4. CASE m = x
      <4>1. Bit(t, x) = 0 /\ Bit(u, x) = 1 /\ h[x] = hb[x] + 1
        BY Zenon, <1>2, <1>3, <1>8, <1>10, <1>11 DEF Bit
      <4> QED BY <3>0, <3>2, <3>3, <3>4, <4>1
    <3>5. CASE m # x
      <4>1. Bit(u, m) = Bit(t, m) /\ h[m] = hb[m]
        <5>1. t.black[m] \in BOOLEAN
          BY <1>2, <3>0, BitType
        <5> QED BY <1>8, <1>10, <1>11, <3>0, <3>5, <5>1 DEF Bit
      <4> QED BY <3>0, <3>2, <3>3, <4>1
    <3> QED BY <3>4, <3>5
  <2> QED BY <2>1, <2>2 DEF Paths
<1>13. Kept(tree, below, u, below)
  BY <1>1, <1>7
<1> QED BY <1>1, <1>2, <1>9, <1>12, <1>13, ToIdle

(* Under a black parent nothing is to be done.                             *)
LEMMA InsertUnderBlackKeeps ==
  ASSUME NEW below, Shape(tree, below), NEW hb, Loops(tree, pc, node, parent, hb),
         InsertUnderBlack
  PROVE  Rebalanced(below)
<1>1. /\ node \in In(tree) /\ parent = tree.parent[node] /\ RedsOk(tree, node)
      /\ Paths(tree, hb, Nil, "left") /\ Idle /\ parent # Nil /\ tree.black[parent]
  BY DEF InsertUnderBlack, Loops
<1>2. RedsOk(tree, Nil)
  <2>1. node # tree.root
    BY <1>1, InNode DEF Shape, Links
  <2>2. RedOk(tree, node)
    BY <1>1, <2>1 DEF RedOk
  <2>3. \A m \in In(tree) : RedOk(tree, m)
    BY <1>1, <2>2 DEF RedsOk
  <2> QED BY <2>3 DEF RedsOk
<1>3. SameLinks(tree, tree)
  BY DEF SameLinks, Shape
<1>4. Kept(tree, below, tree, below)
  BY <1>3, SameLinksKeep
<1>5. tree = tree'
  BY DEF InsertUnderBlack
<1> QED BY <1>1, <1>2, <1>4, <1>5, ToIdle

(* Under a red parent there is a grandparent, a black one.                 *)
RedFamily(t, x, q, g) ==
  /\ x \in Node /\ x # Nil /\ x # t.root /\ q \in In(t) /\ q \in Node /\ q # x /\ q # t.root
  /\ t.black[g] /\ g \in In(t) /\ g \in Node /\ g # Nil /\ g # q

(* The parent is not the root, as it is red, and all three are different   *)
(* nodes.                                                                  *)
LEMMA RedParent ==
  ASSUME NEW t, NEW below, Shape(t, below), NEW x \in In(t), NEW q, q = t.parent[x], q # Nil,
         RedsOk(t, x), ~t.black[q], NEW g, g = t.parent[q]
  PROVE  RedFamily(t, x, q, g)
<1>1. x \in Node /\ x # Nil /\ x # t.root /\ q \in In(t) /\ q \in Node /\ q # x
  <2>1. x \in Node /\ x # Nil /\ x # t.root
    BY InNode DEF Shape, Links
  <2>2. q \in In(t)
    BY <2>1, ParentFacts
  <2>3. q # x
    <3>1. PICK c \in Side : t.child[c][q] = x
      BY <2>1, ParentFacts
    <3> QED BY <2>1, <2>2, <3>1, InNode, ChildFacts
  <2> QED BY <2>1, <2>2, <2>3, InNode
<1>2. q # t.root /\ t.black[g]
  BY <1>1 DEF RedsOk, RedOk
<1>3. g \in In(t) /\ g \in Node /\ g # Nil /\ g # q
  <2>1. g \in In(t)
    BY <1>1, <1>2, ParentFacts
  <2> QED BY <1>2, <2>1, InNode
<1> QED BY <1>1, <1>2, <1>3 DEF RedFamily

(* Case 1 of an insertion: the trouble moves up to the grandparent.        *)
LEMMA InsertFlipKeeps ==
  ASSUME NEW below, Shape(tree, below), NEW hb, Loops(tree, pc, node, parent, hb), InsertFlip
  PROVE  Rebalanced(below)
<1>1. PICK t, u, x, q, g, y, d :
        /\ t = tree /\ u = tree' /\ x = node /\ q = parent /\ g = GParent /\ y = Uncle
        /\ d = SideOf(g, q)
  BY SMTT(30)
<1>2. /\ x \in In(t) /\ ~t.black[x] /\ q = t.parent[x] /\ RedsOk(t, x)
      /\ Paths(t, hb, Nil, "left") /\ t \in Trees /\ Shape(t, below)
      /\ q # Nil /\ ~t.black[q] /\ y # Nil /\ ~t.black[y] /\ g = t.parent[q]
      /\ y = t.child[Other(d)][g]
      /\ u = [t EXCEPT !.black = [@ EXCEPT ![y] = TRUE, ![q] = TRUE, ![g] = FALSE]]
      /\ Fixup("insert", g, t.parent[g])
  BY Zenon, <1>1 DEF InsertFlip, Loops, Shape, Red, GParent, Uncle
<1>3. RedFamily(t, x, q, g)
  BY <1>2, RedParent
<1>4. x \in Node /\ x # Nil /\ x # t.root /\ q \in In(t) /\ q \in Node /\ q # x
  BY <1>3 DEF RedFamily
<1>5. t.black[g] /\ g \in In(t) /\ g \in Node /\ g # Nil /\ g # q
  BY <1>3 DEF RedFamily
<1>6. d \in Side /\ t.child[d][g] = q
  <2>1. d = (IF q # t.child["right"][g] THEN "left" ELSE "right")
    BY SMTT(30), <1>1 DEF SideOf
  <2>2. t.parent[q] # Nil
    BY <1>2, <1>5
  <2>3. Shape(t, below) /\ q \in Node /\ g = t.parent[q]
    BY <1>2, <1>4
  <2>4. PICK e \in Side : /\ e = (IF q # t.child["right"][t.parent[q]] THEN "left" ELSE "right")
                          /\ t.child[e][t.parent[q]] = q
    BY <2>2, <2>3, SideIs
  <2> QED BY SMTT(30), <2>1, <2>3, <2>4
<1>7. Other(d) \in Side /\ Other(d) # d /\ \A c \in Side : c = d \/ c = Other(d)
  BY <1>6, Sides
<1>8. y \in In(t) /\ y \in Node /\ y # q /\ y # g /\ t.parent[y] = g /\ y # t.root
  <2>1. y \in In(t) /\ y \in Node /\ y # g /\ t.parent[y] = g /\ y # t.root
    <3>1. /\ Shape(t, below) /\ y # Nil /\ y = t.child[Other(d)][g] /\ g \in Node
          /\ Other(d) \in Side
      BY Zenon, <1>2, <1>5, <1>7
    <3> QED BY SMTT(30), <3>1, ChildFacts
  <2>2. y # q
    <3>1. /\ Shape(t, below) /\ y # Nil /\ y = t.child[Other(d)][g] /\ g \in Node
          /\ d \in Side /\ t.child[d][g] = q /\ Other(d) \in Side /\ Other(d) # d
      BY Zenon, <1>2, <1>5, <1>6, <1>7
    <3> QED BY SMTT(30), <3>1, OneParent
  <2> QED BY SMTT(30), <2>1, <2>2
<1>9. /\ u \in Trees /\ SameLinks(t, u)
      /\ \A m \in Node : u.black[m] = IF m = g THEN FALSE ELSE IF m = q THEN TRUE
                                      ELSE IF m = y THEN TRUE ELSE t.black[m]
  BY ZenonT(40), <1>2, <1>4, <1>5, <1>8 DEF Trees, SameLinks
<1>10. Kept(t, below, u, below) /\ In(u) = In(t)
  BY ZenonT(40), <1>2, <1>9, SameLinksKeep, SameLinksShape
<1>11. \A m \in In(t), c \in Side : (t.child[c][m] = q \/ t.child[c][m] = y) => m = g
  <2> SUFFICES ASSUME NEW m \in In(t), NEW c \in Side, t.child[c][m] = q \/ t.child[c][m] = y
               PROVE  m = g
    BY SMTT(30)
  <2>0. m \in Node /\ t.child[c][m] # Nil
    BY ZenonT(40), <1>2, <1>4, <1>8, RbTreeConstants, InNode
  <2>1. t.parent[t.child[c][m]] = m
    <3>1. /\ Shape(t, below) /\ m \in Node /\ t.child[c][m] # Nil
      BY Zenon, <1>2, <2>0
    <3> QED BY <3>1, ChildFacts
  <2> QED BY Zenon, <1>2, <1>8, <2>1
<1>12. RedsOk(u, g)
  <2> SUFFICES ASSUME NEW m \in In(u), m # g, ~u.black[m]
               PROVE  m # u.root /\ u.black[u.parent[m]]
    BY DEF RedsOk, RedOk
  <2>1. m \in In(t) /\ m \in Node /\ m # q /\ m # y /\ ~t.black[m]
    BY Zenon, <1>9, <1>10, InNode
  <2>2. u.root = t.root /\ u.parent = t.parent
    BY <1>9 DEF SameLinks
  <2>3. CASE m = x
    BY ZenonT(40), <1>2, <1>4, <1>5, <1>9, <2>2, <2>3
  <2>4. CASE m # x
    <3>1. m # t.root /\ t.black[t.parent[m]]
      <4>1. RedOk(t, m)
        BY Zenon, <1>2, <2>1, <2>4 DEF RedsOk
      <4> QED BY Zenon, <2>1, <4>1 DEF RedOk
    <3>2. t.parent[m] \in Node /\ \E c \in Side : t.child[c][t.parent[m]] = m
      <4>1. Shape(t, below) /\ m \in In(t) /\ m # t.root
        BY <1>2, <2>1, <3>1
      <4> QED BY Zenon, <4>1, ParentFacts
    <3>3. t.parent[m] # g
      <4> SUFFICES ASSUME t.parent[m] = g PROVE FALSE
        OBVIOUS
      <4>1. PICK c \in Side : t.child[c][g] = m
        BY SMTT(30), <3>2
      <4> QED BY Zenon, <1>2, <1>6, <1>7, <2>1, <4>1
    <3> QED BY Zenon, <1>9, <2>2, <3>1, <3>2, <3>3
  <2> QED BY <2>3, <2>4
<1>13. /\ hb \in [Node \cup {Nil} -> Nat] /\ hb[Nil] = 0
       /\ \A m \in In(t), c \in Side :
            hb[m] = hb[t.child[c][m]] + Bit(t, m) + (IF m = Nil /\ c = "left" THEN 1 ELSE 0)
  BY <1>2 DEF Paths
<1>14. PICK h : h = [hb EXCEPT ![q] = hb[q] + 1, ![y] = hb[y] + 1]
  BY Zenon
<1>15. /\ h \in [Node \cup {Nil} -> Nat] /\ h[Nil] = 0 /\ h[q] = hb[q] + 1 /\ h[y] = hb[y] + 1
       /\ \A m \in Node \cup {Nil} : m # q /\ m # y => h[m] = hb[m]
  BY <1>4, <1>8, <1>13, <1>14, RbTreeConstants
<1>16. Paths(u, h, Nil, "left")
  <2>2. ASSUME NEW m \in In(u), NEW c \in Side
        PROVE  h[m] = h[u.child[c][m]] + Bit(u, m) + (IF m = Nil /\ c = "left" THEN 1 ELSE 0)
    <3>0. m \in In(t) /\ m \in Node /\ m # Nil /\ u.child = t.child
      BY <1>9, <1>10, InNode DEF SameLinks
    <3>1. PICK k : k = t.child[c][m]
      BY SMTT(30)
    <3>2. k \in Node \cup {Nil}
      <4>1. /\ t \in Trees /\ m \in Node /\ k = t.child[c][m]
        BY Zenon, <1>2, <3>0, <3>1
      <4> QED BY SMTT(30), <4>1 DEF Trees
    <3>3. hb[m] = hb[k] + Bit(t, m) + 0 /\ Bit(t, m) \in Nat /\ hb[k] \in Nat /\ hb[m] \in Nat
      BY Zenon, <1>2, <1>13, <3>0, <3>1, <3>2, BitType
    <3>4. CASE m = g
      <4>1. k = q \/ k = y
        BY Zenon, <1>2, <1>6, <1>7, <3>1, <3>4
      <4>2. h[k] = hb[k] + 1 /\ h[m] = hb[m] /\ Bit(t, m) = 1 /\ Bit(u, m) = 0
        BY Zenon, <1>5, <1>8, <1>9, <1>15, <3>4, <4>1 DEF Bit
      <4> QED BY SMTT(30), <3>0, <3>1, <3>3, <4>2
    <3>5. CASE m = q \/ m = y
      <4>1. k # q /\ k # y
        BY SMTT(30), <1>5, <1>8, <1>11, <3>0, <3>1, <3>5
      <4>2. h[k] = hb[k] /\ h[m] = hb[m] + 1 /\ Bit(t, m) = 0 /\ Bit(u, m) = 1
        BY ZenonT(40), <1>2, <1>4, <1>5, <1>8, <1>9, <1>15, <3>2, <3>5, <4>1 DEF Bit
      <4> QED BY <3>0, <3>1, <3>3, <4>2
    <3>6. CASE m # g /\ m # q /\ m # y
      <4>1. k # q /\ k # y
        BY <1>11, <3>0, <3>1, <3>6
      <4>2. h[k] = hb[k] /\ h[m] = hb[m] /\ Bit(u, m) = Bit(t, m)
        BY Zenon, <1>9, <1>15, <3>0, <3>2, <3>6, <4>1 DEF Bit
      <4> QED BY <3>0, <3>1, <3>3, <4>2
    <3> QED BY <3>4, <3>5, <3>6
  <2> QED BY <1>15, <2>2 DEF Paths
<1>17. Loops(u, pc', node', parent', h)
  <2>1. g \in In(u) /\ ~u.black[g] /\ u.parent = t.parent
    BY Zenon, <1>5, <1>9, <1>10 DEF SameLinks
  <2>2. pc' = "insert" /\ node' = g /\ parent' = t.parent[g]
    BY <1>2 DEF Fixup
  <2> QED BY <1>12, <1>16, <2>1, <2>2 DEF Loops
<1> QED BY <1>1, <1>10, <1>17 DEF Rebalanced

(* Cases 2 and 3 of an insertion: rotations end the loop.                  *)
LEMMA InsertTurnKeeps ==
  ASSUME NEW below, Shape(tree, below), NEW hb, Loops(tree, pc, node, parent, hb), InsertTurn
  PROVE  Rebalanced(below)
<1>1. PICK x, q, g, d : x = node /\ q = parent /\ g = GParent /\ d = SideOf(g, q)
  OBVIOUS
<1>2. /\ x \in In(tree) /\ ~tree.black[x] /\ q = tree.parent[x] /\ RedsOk(tree, x)
      /\ Paths(tree, hb, Nil, "left") /\ tree \in Trees
      /\ q # Nil /\ ~tree.black[q] /\ g = tree.parent[q] /\ ~Red(Uncle) /\ Idle
  BY <1>1 DEF InsertTurn, Loops, Shape, Red, GParent
<1>3. RedFamily(tree, x, q, g)
  BY <1>2, RedParent
<1>4. /\ x \in Node /\ x # Nil /\ x # tree.root /\ q \in In(tree) /\ q \in Node /\ q # x
      /\ tree.black[g] /\ g \in In(tree) /\ g \in Node /\ g # Nil /\ g # q
  BY <1>3 DEF RedFamily
<1>5. Uncle = tree.child[Other(d)][g]
  BY <1>1 DEF Uncle
<1>6. CASE x # tree.child[Other(d)][q]
  <2>1. PICK i, p : /\ d \in Side /\ tree.child[d][g] = q
                    /\ i = tree.child[Other(d)][q] /\ p = tree.parent[g]
                    /\ TurnStep(tree, tree', Other(d), g, q, i, p)
                    /\ Recoloured(tree, tree', g, q, i, FALSE)
    BY Zenon, <1>1, <1>4, <1>6, InsertOuterTree
  <2>2. PICK u : u = tree'
    OBVIOUS
  <2>3. PICK o : o = Other(d)
    OBVIOUS
  <2>4. /\ o \in Side /\ Other(o) = d /\ TurnStep(tree, u, o, g, q, i, p)
        /\ Recoloured(tree, u, g, q, i, FALSE)
    BY Zenon, <2>1, <2>2, <2>3 DEF Side, Other
  <2>5. Turned(tree, u, o, g, q, i, p)
    BY <2>4 DEF TurnStep
  <2>6. Kept(tree, below, u, TurnedBelow(tree, below, o, g, q, i))
    BY <1>2, <1>4, <2>4, TurnKeeps
  <2>7. x = tree.child[d][q]
    <3>1. \E c \in Side : tree.child[c][q] = x
      BY <1>2, <1>4, ParentFacts
    <3> QED BY <1>6, <2>1, <3>1, Sides
  <2>8. i # Nil => tree.black[i]
    <3> SUFFICES ASSUME i # Nil PROVE tree.black[i]
      OBVIOUS
    <3>1. i \in In(tree) /\ tree.parent[i] = q
      BY <1>4, <2>1, <2>3, <2>4, ChildFacts
    <3>2. i # x
      BY <1>6, <2>1
    <3> QED BY <1>2, <3>1, <3>2 DEF RedsOk, RedOk
  <2>9. tree.child[o][g] # Nil => tree.black[tree.child[o][g]]
    BY <1>2, <1>5, <2>3 DEF Red
  <2>10. PICK h : h = [hb EXCEPT ![g] = hb[q], ![q] = hb[g]]
    BY Zenon
  <2>11. Paths(u, h, Nil, "left")
    BY Zenon, <1>2, <1>4, <2>4, <2>5, <2>8, <2>10, TurnPaths
  <2>12. RedsOk(u, Nil)
    <3>1. x = tree.child[Other(o)][q] /\ q # Nil
      BY ZenonT(40), <1>2, <2>4, <2>7
    <3>2. RisingRed(tree, o, g, q, x)
      BY Zenon, <1>2, <1>4, <2>9, <3>1 DEF RisingRed
    <3>3. o \in Side /\ Recoloured(tree, u, g, q, i, FALSE) /\ g \in Node
      BY Zenon, <1>4, <2>4
    <3> QED BY Zenon, <2>5, <3>1, <3>2, <3>3, TurnReds
  <2> QED BY <1>2, <2>2, <2>6, <2>11, <2>12, ToIdle
<1>7. CASE x = tree.child[Other(d)][q]
  <2>1. PICK v, i, j, p : InsertTwice(v, tree', d, g, q, x, i, j, p)
    BY <1>1, <1>4, <1>7, InsertInnerTree
  <2>2. PICK u : u = tree'
    OBVIOUS
  <2>3. PICK o : o = Other(d)
    OBVIOUS
  <2>4. /\ d \in Side /\ tree.child[d][g] = q /\ x = tree.child[o][q]
        /\ TurnStep(tree, v, d, q, x, i, g)
        /\ \A m \in Node : v.black[m] = (m # q /\ (m = i \/ tree.black[m]))
        /\ x = v.child[d][g] /\ j = v.child[o][x] /\ p = v.parent[g]
        /\ TurnStep(v, u, o, g, x, j, p) /\ Recoloured(v, u, g, x, j, FALSE)
    BY Zenon, <2>1, <2>2, <2>3 DEF InsertTwice
  <2>5. o \in Side /\ Other(o) = d /\ o # d
    BY <2>3, <2>4 DEF Side, Other
  <2>6. Turned(tree, v, d, q, x, i, g) /\ Turned(v, u, o, g, x, j, p)
    BY <2>4 DEF TurnStep
  <2>7. PICK C : C = TurnedBelow(tree, below, d, q, x, i)
    OBVIOUS
  <2>8. Kept(tree, below, v, C)
    BY <1>4, <2>4, <2>7, TurnKeeps
  <2>9. Shape(v, C)
    BY <2>8 DEF Kept
  <2>10. PICK B : B = TurnedBelow(v, C, o, g, x, j)
    OBVIOUS
  <2>11. Kept(v, C, u, B)
    BY <1>4, <2>4, <2>5, <2>9, <2>10, TurnKeeps
  <2>12. Kept(tree, below, u, B)
    BY <2>8, <2>11, KeptTwice
  <2>13. (\A m \in Node : v.black[m] = tree.black[m]) /\ (i # Nil => tree.black[i])
    <3>1. SameBlack(tree, v, i)
      BY ZenonT(40), <1>2, <1>4, <2>4, <2>6, InnerBlack
    <3> QED BY SMTT(30), <3>1 DEF SameBlack
  <2>14. Paths(v, hb, Nil, "left")
    BY ZenonT(40), <1>2, <1>4, <2>4, <2>6, <2>13, InnerPaths
  <2>15. RedsOk(v, q)
    BY Zenon, <1>2, <1>4, <2>4, <2>6, <2>13, InnerReds
  <2>16. /\ v.child[d][x] = q /\ v.child[o][g] = tree.child[o][g]
    <3>0. Around(tree, d, q, x, i, g)
      BY <1>4, <2>4, <2>6, TurnedAround
    <3>1. g # x /\ x # q /\ tree.child[o][g] # q
      <4>1. g # x /\ x # q
        BY SMTT(30), <3>0 DEF Around
      <4>2. tree.child[d][g] = q /\ q # Nil /\ g \in Node /\ d \in Side /\ o \in Side /\ o # d
        BY Zenon, <1>2, <1>4, <2>4, <2>5
      <4>3. tree.child[o][g] = q => FALSE
        BY SMTT(30), <4>2, OneParent
      <4> QED BY <4>1, <4>3
    <3>2. \A e \in Side, m \in Node :
            v.child[e][m] = IF e = Other(d) /\ m = q THEN i ELSE IF e = d /\ m = x THEN q
                            ELSE IF m = g /\ tree.child[e][m] = q THEN x ELSE tree.child[e][m]
      BY Zenon, <2>6 DEF Turned
    <3> QED BY <1>4, <2>3, <2>4, <2>5, <3>1, <3>2
  <2>17. v.black[g] /\ ~v.black[x] /\ (v.child[o][g] # Nil => v.black[v.child[o][g]])
    <3>1. tree.child[o][g] # Nil => tree.black[tree.child[o][g]]
      BY <1>2, <1>5, <2>3 DEF Red
    <3>2. tree.child[o][g] \in Node \cup {Nil}
      BY <1>2, <1>4, <2>5 DEF Trees
    <3> QED BY <1>2, <1>4, <2>13, <2>16, <3>1, <3>2
  <2>18. j # Nil => v.black[j]
    <3> SUFFICES ASSUME j # Nil PROVE v.black[j]
      BY SMTT(30)
    <3>1. j \in In(v) /\ v.parent[j] = x
      <4>1. /\ x # Nil /\ g \in Node /\ d \in Side /\ x = v.child[d][g] /\ j = v.child[o][x]
            /\ o \in Side /\ Shape(v, C)
        BY <1>4, <2>4, <2>5, <2>9
      <4> QED BY <4>1, ChildFacts
    <3>2. j # q
      BY SMTT(30), <1>4, <2>4, <2>5, <2>9, <2>16, OneParent
    <3> QED BY <2>15, <2>17, <3>1, <3>2 DEF RedsOk, RedOk
  <2>19. PICK h : h = [hb EXCEPT ![g] = hb[x], ![x] = hb[g]]
    BY Zenon
  <2>20. Paths(u, h, Nil, "left")
    BY Zenon, <1>4, <2>4, <2>5, <2>6, <2>9, <2>14, <2>17, <2>18, <2>19, TurnPaths
  <2>21. RedsOk(u, Nil)
    <3>1. q = v.child[Other(o)][x] /\ x # Nil
      BY <1>4, <2>5, <2>16
    <3>2. o \in Side /\ Recoloured(v, u, g, x, j, FALSE) /\ g \in Node
      BY Zenon, <1>4, <2>4, <2>5
    <3>3. RisingRed(v, o, g, x, q)
      BY <2>15, <2>17, <3>1 DEF RisingRed
    <3> QED BY Zenon, <2>6, <2>9, <3>1, <3>2, <3>3, TurnReds
  <2> QED BY <1>2, <2>2, <2>12, <2>20, <2>21, ToIdle
<1> QED BY <1>6, <1>7

(* At the head of the loop of ____rb_erase_color there is a sibling, of    *)
(* more black nodes than x.                                                *)
EraseRound(t, x, q, d, s, hb) ==
  /\ d \in Side /\ q \in In(t) /\ q \in Node /\ q # Nil /\ x = t.child[d][q]
  /\ s = t.child[Other(d)][q] /\ s \in Node /\ s # Nil /\ s # q /\ s # x
  /\ s \in In(t) /\ s # t.root /\ t.parent[s] = q
  /\ x # Nil => t.black[x] /\ x \in In(t) /\ x \in Node /\ x # q
  /\ RedsOk(t, Nil) /\ Paths(t, hb, q, d)
  /\ hb[x] \in Nat /\ hb[s] = hb[x] + 1 /\ hb[q] = hb[x] + Bit(t, q) + 1

(* Since a black node is missing below x, its sibling has one and is       *)
(* there.                                                                  *)
LEMMA EraseRoundFacts ==
  ASSUME NEW t, NEW below, Shape(t, below), NEW x, NEW q, NEW hb,
         Loops(t, "erase", x, q, hb)
  PROVE  \E d, s : /\ EraseRound(t, x, q, d, s, hb)
                   /\ d = (IF x # t.child["right"][q] THEN "left" ELSE "right")
<1>1. PICK d \in Side :
        /\ d = (IF x # t.child["right"][q] THEN "left" ELSE "right")
        /\ x = t.child[d][q] /\ Paths(t, hb, q, d)
  BY DEF Loops, Missing
<1>2. PICK s : s = t.child[Other(d)][q]
  OBVIOUS
<1>3. /\ q \in In(t) /\ q \in Node /\ q # Nil /\ RedsOk(t, Nil) /\ t \in Trees
      /\ x # Nil => t.black[x]
  BY InNode DEF Loops, Shape
<1>4. Other(d) \in Side /\ Other(d) # d
  BY SMTT(30), Sides
<1>5. /\ hb \in [Node \cup {Nil} -> Nat] /\ hb[Nil] = 0
      /\ \A c \in Side : hb[q] = hb[t.child[c][q]] + Bit(t, q) + (IF q = q /\ c = d THEN 1 ELSE 0)
  BY Zenon, <1>1, <1>3 DEF Paths
<1>6. x \in Node \cup {Nil} /\ s \in Node \cup {Nil}
  <2>1. \A c \in Side : t.child[c][q] \in Node \cup {Nil}
    BY <1>3 DEF Trees
  <2> QED BY Zenon, <1>1, <1>2, <1>4, <2>1
<1>7. /\ hb[x] \in Nat /\ hb[s] \in Nat /\ Bit(t, q) \in Nat
      /\ hb[q] = hb[x] + Bit(t, q) + 1 /\ hb[q] = hb[s] + Bit(t, q) + 0
  BY ZenonT(40), <1>1, <1>2, <1>3, <1>4, <1>5, <1>6, BitType
<1>8. hb[s] = hb[x] + 1
  BY <1>7
<1>9. s # Nil /\ s # x
  BY <1>5, <1>7, <1>8
<1>10. s \in Node /\ s # q /\ s \in In(t) /\ s # t.root /\ t.parent[s] = q
  BY <1>2, <1>3, <1>4, <1>9, ChildFacts
<1>11. x # Nil => t.black[x] /\ x \in In(t) /\ x \in Node /\ x # q
  <2>1. x # Nil => x \in In(t) /\ x \in Node /\ x # q
    <3>1. /\ x = t.child[d][q] /\ q \in Node
      BY Zenon, <1>1, <1>3
    <3> QED BY SMTT(30), <3>1, ChildFacts
  <2> QED BY <1>3, <2>1
<1>12. EraseRound(t, x, q, d, s, hb)
  BY Zenon, <1>1, <1>2, <1>3, <1>7, <1>8, <1>9, <1>10, <1>11 DEF EraseRound
<1> QED BY <1>1, <1>12

(* What the code calls sibling, and its children.                          *)
LEMMA EraseNames ==
  ASSUME NEW below, Shape(tree, below), NEW hb, Loops(tree, pc, node, parent, hb), pc = "erase"
  PROVE  \E t, d, s : /\ t = tree /\ d = D /\ s = Sibling /\ Near = t.child[d][s]
                      /\ Far = t.child[Other(d)][s] /\ EraseRound(t, node, parent, d, s, hb)
<1>1. PICK t : t = tree
  OBVIOUS
<1>2. Loops(t, "erase", node, parent, hb) /\ Shape(t, below)
  BY <1>1
<1>3. PICK d, s : /\ EraseRound(t, node, parent, d, s, hb)
                  /\ d = (IF node # t.child["right"][parent] THEN "left" ELSE "right")
  BY <1>2, EraseRoundFacts
<1>4. d = D
  BY SMTT(30), <1>1, <1>3 DEF D
<1>5. s = t.child[Other(d)][parent]
  BY Zenon, <1>3 DEF EraseRound
<1> QED BY <1>1, <1>3, <1>4, <1>5 DEF Sibling, Near, Far

(* The children of a red node are black.                                   *)
LEMMA RedsBelow ==
  ASSUME NEW t, NEW below, Shape(t, below), RedsOk(t, Nil), NEW s \in Node, ~t.black[s],
         NEW c \in Side
  PROVE  t.child[c][s] # Nil => t.black[t.child[c][s]]
<1> SUFFICES ASSUME t.child[c][s] # Nil PROVE t.black[t.child[c][s]]
  OBVIOUS
<1>1. PICK k : k = t.child[c][s]
  OBVIOUS
<1>2. k \in In(t) /\ t.parent[k] = s /\ k # Nil
  BY <1>1, ChildFacts
<1>3. RedOk(t, k)
  BY <1>2 DEF RedsOk
<1> QED BY <1>1, <1>2, <1>3 DEF RedOk

(* Case 1 of an erasure: afterwards the sibling is black.                  *)
LEMMA EraseSiblingKeeps ==
  ASSUME NEW below, Shape(tree, below), NEW hb, Loops(tree, pc, node, parent, hb), EraseSibling
  PROVE  Rebalanced(below)
<1>1. pc = "erase" /\ Red(Sibling) /\ UNCHANGED <<pc, node, parent>>
  BY DEF EraseSibling
<1>2. PICK t, d0, s : /\ t = tree /\ d0 = D /\ s = Sibling
                      /\ EraseRound(t, node, parent, d0, s, hb)
  BY <1>1, EraseNames
<1>3. parent \in Node
  BY <1>2 DEF EraseRound
<1>4. PICK u, x, q : u = tree' /\ x = node /\ q = parent
  OBVIOUS
<1>5. PICK d, b, i, p :
           /\ d \in Side /\ d = D /\ b = Sibling /\ i = Near /\ p = tree.parent[parent]
           /\ b = tree.child[Other(d)][parent] /\ i = tree.child[d][b] /\ b # Nil
           /\ TurnStep(tree, tree', d, parent, b, i, p)
           /\ Recoloured(tree, tree', parent, b, i, FALSE)
  BY Zenon, <1>3, EraseSiblingTree
<1>6. EraseRound(t, x, q, d, b, hb) /\ Shape(t, below)
  BY <1>2, <1>4, <1>5
<1>7. /\ d \in Side /\ i = t.child[d][b] /\ TurnStep(t, u, d, q, b, i, p)
      /\ Recoloured(t, u, q, b, i, FALSE) /\ ~t.black[b]
  BY Zenon, <1>1, <1>2, <1>4, <1>5 DEF Red
<1>8. /\ q \in In(t) /\ q \in Node /\ q # Nil /\ x = t.child[d][q]
      /\ b = t.child[Other(d)][q] /\ b \in Node /\ b # Nil /\ b # q /\ b # x
      /\ b \in In(t) /\ b # t.root /\ t.parent[b] = q
  BY <1>6 DEF EraseRound
<1>9. /\ x # Nil => t.black[x] /\ x \in In(t) /\ x \in Node /\ x # q
      /\ RedsOk(t, Nil) /\ Paths(t, hb, q, d)
  BY <1>6 DEF EraseRound
<1>10. hb[x] \in Nat /\ hb[b] = hb[x] + 1
  BY <1>6 DEF EraseRound
<1>11. Turned(t, u, d, q, b, i, p)
  BY <1>7 DEF TurnStep
<1>12. t.black[q]
  BY Zenon, <1>7, <1>8, <1>9 DEF RedsOk, RedOk
<1>13. i # Nil => t.black[i]
  BY Zenon, <1>6, <1>7, <1>8, <1>9, RedsBelow
<1>14. PICK h : h = [hb EXCEPT ![q] = hb[b], ![b] = hb[q]]
  BY Zenon
<1>15. Paths(u, h, q, d)
  BY ZenonT(90), <1>6, <1>7, <1>8, <1>9, <1>11, <1>12, <1>13, <1>14, TurnPaths
<1>16. RedsOk(u, Nil)
  <2>1. RisingRed(t, d, q, b, Nil)
    BY <1>7, <1>8, <1>9, <1>12 DEF RisingRed
  <2> QED BY Zenon, <1>6, <1>7, <1>8, <1>11, <2>1, TurnReds
<1>17. Kept(t, below, u, TurnedBelow(t, below, d, q, b, i))
  BY <1>6, <1>7, <1>8, TurnKeeps
<1>18. Around(t, d, q, b, i, p)
  BY <1>6, <1>7, <1>8, <1>11, TurnedAround
<1>19. Other(d) \in Side /\ Other(d) # d
  BY <1>7, Sides
<1>20. i # x
  <2>1. \A m \in In(t), c \in Side :
          hb[m] = hb[t.child[c][m]] + Bit(t, m) + (IF m = q /\ c = d THEN 1 ELSE 0)
    BY <1>9 DEF Paths
  <2>2. hb[b] = hb[i] + Bit(t, b) + 0
    BY <1>7, <1>8, <2>1
  <2>3. Bit(t, b) = 0
    BY <1>7 DEF Bit
  <2> QED BY <1>10, <2>2, <2>3
<1>21. u.child[d][q] = x /\ u.child[Other(d)][q] = i
  <2>1. \A e \in Side, m \in Node :
          u.child[e][m] = IF e = Other(d) /\ m = q THEN i ELSE IF e = d /\ m = b THEN q
                          ELSE IF m = p /\ t.child[e][m] = q THEN b ELSE t.child[e][m]
    BY <1>11 DEF Turned
  <2>2. p # q
    BY <1>18 DEF Around
  <2> QED BY <1>7, <1>8, <1>19, <2>1, <2>2
<1>22. Missing(u, x, q, h)
  <2>1. d = (IF x # u.child["right"][q] THEN "left" ELSE "right")
    <3>1. CASE d = "left"
      <4>1. Other(d) = "right"
        BY <3>1 DEF Other
      <4> QED BY <1>20, <1>21, <3>1, <4>1
    <3>2. CASE d = "right"
      BY <1>21, <3>2
    <3> QED BY <1>7, <3>1, <3>2 DEF Side
  <2> QED BY <1>7, <1>15, <1>21, <2>1 DEF Missing
<1>23. x # Nil => u.black[x]
  <2> SUFFICES ASSUME x # Nil PROVE u.black[x]
    OBVIOUS
  <2>1. u.black[x] = IF x = q THEN FALSE ELSE IF x = b THEN t.black[q] ELSE (x = i \/ t.black[x])
    BY Zenon, <1>7, <1>9 DEF Recoloured
  <2> QED BY Zenon, <1>8, <1>9, <2>1
<1>24. q \in In(u)
  BY <1>8, <1>17 DEF Kept
<1>25. pc' = "erase" /\ node' = x /\ parent' = q
  BY <1>1, <1>4
<1>26. Loops(u, pc', node', parent', h)
  BY <1>16, <1>22, <1>23, <1>24, <1>25 DEF Loops
<1> QED BY <1>2, <1>4, <1>17, <1>26 DEF Rebalanced

(* Case 2 of an erasure: the sibling turns red, and the parent black, or   *)
(* the trouble moves up to it.                                             *)
LEMMA EraseFlipKeeps ==
  ASSUME NEW below, Shape(tree, below), NEW hb, Loops(tree, pc, node, parent, hb), EraseFlip
  PROVE  Rebalanced(below)
<1>1. PICK u, x, q : u = tree' /\ x = node /\ q = parent
  OBVIOUS
<1>2. pc = "erase" /\ ~Red(Sibling) /\ ~Red(Far) /\ ~Red(Near)
  BY DEF EraseFlip
<1>3. PICK t, d, s : /\ t = tree /\ d = D /\ s = Sibling /\ Near = t.child[d][s]
                     /\ Far = t.child[Other(d)][s] /\ EraseRound(t, x, q, d, s, hb)
  BY <1>1, <1>2, EraseNames
<1>4. /\ d \in Side /\ q \in In(t) /\ q \in Node /\ q # Nil /\ x = t.child[d][q]
      /\ s = t.child[Other(d)][q] /\ s \in Node /\ s # Nil /\ s # q /\ s # x
      /\ s \in In(t) /\ s # t.root /\ t.parent[s] = q
  BY <1>3 DEF EraseRound
<1>5. /\ x # Nil => t.black[x] /\ x \in In(t) /\ x \in Node /\ x # q
      /\ RedsOk(t, Nil) /\ Paths(t, hb, q, d) /\ Shape(t, below) /\ t \in Trees
  BY <1>3 DEF EraseRound, Shape
<1>6. hb[x] \in Nat /\ hb[s] = hb[x] + 1 /\ hb[q] = hb[x] + Bit(t, q) + 1
  BY <1>3 DEF EraseRound
<1>7. Other(d) \in Side /\ Other(d) # d /\ \A c \in Side : c = d \/ c = Other(d)
  BY <1>4, Sides
<1>8. /\ t.black[s]
      /\ \A c \in Side : t.child[c][s] # Nil => t.black[t.child[c][s]]
  <2>1. t.black[s]
    BY <1>2, <1>3, <1>4 DEF Red
  <2>2. \A c \in Side : t.child[c][s] # Nil => t.black[t.child[c][s]]
    <3>1. t.child[d][s] # Nil => t.black[t.child[d][s]]
      BY <1>2, <1>3 DEF Red
    <3>2. t.child[Other(d)][s] # Nil => t.black[t.child[Other(d)][s]]
      BY <1>2, <1>3 DEF Red
    <3> QED BY <1>7, <3>1, <3>2
  <2> QED BY <2>1, <2>2
<1>9. /\ u = [t EXCEPT !.black = [@ EXCEPT ![s] = FALSE, ![q] = TRUE]]
      /\ IF ~t.black[q] \/ t.parent[q] = Nil THEN Idle ELSE Fixup("erase", q, t.parent[q])
  BY <1>1, <1>3, <1>4 DEF EraseFlip, Red
<1>10. /\ u \in Trees /\ SameLinks(t, u)
       /\ \A m \in Node : u.black[m] = IF m = q THEN TRUE ELSE IF m = s THEN FALSE
                                       ELSE t.black[m]
  BY Zenon, <1>4, <1>5, <1>9 DEF Trees, SameLinks
<1>11. Kept(t, below, u, below) /\ In(u) = In(t)
  BY <1>5, <1>10, SameLinksKeep, SameLinksShape
<1>12. u.root = t.root /\ u.parent = t.parent /\ u.child = t.child
  BY <1>10 DEF SameLinks
<1>13. RedsOk(u, Nil)
  <2> SUFFICES ASSUME NEW m \in In(u), ~u.black[m]
               PROVE  m # u.root /\ u.black[u.parent[m]]
    BY DEF RedsOk, RedOk
  <2>1. m \in In(t) /\ m \in Node /\ m # q /\ m # Nil
    BY Zenon, <1>10, <1>11, InNode
  <2>2. CASE m = s
    BY Zenon, <1>4, <1>10, <1>12, <2>2
  <2>3. CASE m # s
    <3>1. ~t.black[m]
      BY Zenon, <1>10, <2>1, <2>3
    <3>2. m # t.root /\ t.black[t.parent[m]]
      BY <1>5, <2>1, <3>1 DEF RedsOk, RedOk
    <3>3. t.parent[m] \in Node /\ \E c \in Side : t.child[c][t.parent[m]] = m
      BY <1>5, <2>1, <3>2, ParentFacts
    <3>4. t.parent[m] # s
      <4> SUFFICES ASSUME t.parent[m] = s PROVE FALSE
        OBVIOUS
      <4>1. PICK c \in Side : t.child[c][s] = m
        BY <3>3
      <4> QED BY <1>8, <2>1, <3>1, <4>1
    <3>5. PICK k : k = t.parent[m]
      OBVIOUS
    <3>6. u.black[k]
      BY Zenon, <1>10, <3>2, <3>3, <3>4, <3>5
    <3> QED BY <1>12, <3>2, <3>5, <3>6
  <2> QED BY <2>2, <2>3
<1>14. \A m \in In(t), c \in Side :
         /\ t.child[c][m] = s => m = q /\ c = Other(d)
         /\ t.child[c][m] = q => m = t.parent[q] /\ m # q /\ q # t.root
  <2> SUFFICES ASSUME NEW m \in In(t), NEW c \in Side
               PROVE  /\ t.child[c][m] = s => m = q /\ c = Other(d)
                      /\ t.child[c][m] = q => m = t.parent[q] /\ m # q /\ q # t.root
    OBVIOUS
  <2>0. m \in Node
    BY InNode
  <2>1. t.child[c][m] = s => m = q /\ c = Other(d)
    BY <1>4, <1>5, <1>7, <2>0, OneParent
  <2>2. t.child[c][m] = q => m = t.parent[q] /\ m # q /\ q # t.root
    BY <1>4, <1>5, <2>0, ChildFacts
  <2> QED BY <2>1, <2>2
<1>15. /\ hb \in [Node \cup {Nil} -> Nat] /\ hb[Nil] = 0
       /\ \A m \in In(t), c \in Side :
            hb[m] = hb[t.child[c][m]] + Bit(t, m) + (IF m = q /\ c = d THEN 1 ELSE 0)
  BY <1>5 DEF Paths
<1>16. \A m \in In(t), c \in Side :
         /\ m \in Node /\ t.child[c][m] \in Node \cup {Nil}
         /\ hb[m] \in Nat /\ hb[t.child[c][m]] \in Nat
  <2>1. \A m \in In(t) : m \in Node
    BY InNode
  <2>2. \A m \in Node, c \in Side : t.child[c][m] \in Node \cup {Nil}
    BY <1>5 DEF Trees
  <2> QED BY <1>15, <2>1, <2>2
<1>17. PICK h : h = [hb EXCEPT ![s] = hb[x], ![q] = hb[x] + 1]
  BY Zenon
<1>18. /\ h \in [Node \cup {Nil} -> Nat] /\ h[Nil] = 0 /\ h[s] = hb[x] /\ h[q] = hb[x] + 1
       /\ \A m \in Node \cup {Nil} : m # s /\ m # q => h[m] = hb[m]
  BY <1>4, <1>6, <1>15, <1>17, RbTreeConstants
<1>22. \A e \in Side : t.child[e][s] # q
  <2> SUFFICES ASSUME NEW e \in Side, t.child[e][s] = q PROVE FALSE
    OBVIOUS
  <2>1. q \in below[s]
    BY <1>4, <1>5, ChildFacts
  <2>2. q \notin below[t.child[Other(d)][q]]
    BY <1>4, <1>5, <1>7 DEF Shape, Subtrees
  <2> QED BY <1>4, <2>1, <2>2
<1>19. /\ \A c \in Side : h[q] = h[u.child[c][q]] + Bit(u, q)
       /\ \A c \in Side : h[s] = h[u.child[c][s]] + Bit(u, s)
       /\ \A m \in In(u), c \in Side : u.child[c][m] # q /\ m # q /\ m # s =>
            h[m] = h[u.child[c][m]] + Bit(u, m)
  <2>1. Bit(u, q) = 1 /\ Bit(u, s) = 0 /\ Bit(t, s) = 1
    BY Zenon, <1>4, <1>8, <1>10 DEF Bit
  <2>2. ASSUME NEW c \in Side
        PROVE  h[q] = h[u.child[c][q]] + Bit(u, q)
    <3>1. CASE c = d
      <4>1. h[x] = hb[x]
        <5>1. x \in Node \cup {Nil} /\ x # q
          BY <1>4, <1>5, <1>16
        <5> QED BY <1>4, <1>18, <5>1
      <4> QED BY <1>4, <1>6, <1>12, <1>18, <2>1, <3>1, <4>1
    <3>2. CASE c = Other(d)
      BY <1>4, <1>6, <1>12, <1>18, <2>1, <3>2
    <3> QED BY <1>7, <3>1, <3>2
  <2>3. ASSUME NEW c \in Side
        PROVE  h[s] = h[u.child[c][s]] + Bit(u, s)
    <3>1. PICK k : k = t.child[c][s]
      OBVIOUS
    <3>2. hb[s] = hb[k] + Bit(t, s) + 0 /\ hb[k] \in Nat /\ k \in Node \cup {Nil}
      BY <1>4, <1>15, <1>16, <3>1
    <3>3. k # s /\ k # q
      BY <1>4, <1>14, <1>22, <3>1
    <3>4. h[k] = hb[k] /\ u.child[c][s] = k
      BY <1>12, <1>18, <3>1, <3>2, <3>3
    <3> QED BY <1>6, <1>18, <2>1, <3>2, <3>4
  <2>4. ASSUME NEW m \in In(u), NEW c \in Side, u.child[c][m] # q, m # q, m # s
        PROVE  h[m] = h[u.child[c][m]] + Bit(u, m)
    <3>1. PICK k : k = t.child[c][m]
      OBVIOUS
    <3>2. m \in In(t) /\ m \in Node /\ hb[k] \in Nat /\ k \in Node \cup {Nil}
      BY <1>11, <1>16, <3>1
    <3>3. hb[m] = hb[k] + Bit(t, m) + 0 /\ Bit(t, m) \in Nat
      BY <1>5, <1>15, <2>4, <3>1, <3>2, BitType
    <3>4. k # q /\ k # s
      BY <1>12, <1>14, <2>4, <3>1, <3>2
    <3>5. h[k] = hb[k] /\ h[m] = hb[m] /\ u.child[c][m] = k /\ Bit(u, m) = Bit(t, m)
      BY Zenon, <1>10, <1>12, <1>18, <2>4, <3>1, <3>2, <3>4 DEF Bit
    <3> QED BY <3>2, <3>3, <3>5
  <2> QED BY <2>2, <2>3, <2>4
<1>20. CASE ~t.black[q] \/ t.parent[q] = Nil
  <2>1. Idle
    BY <1>9, <1>20
  <2>2. ASSUME NEW m \in In(u), NEW c \in Side
        PROVE  h[m] = h[u.child[c][m]] + Bit(u, m) + (IF m = Nil /\ c = "left" THEN 1 ELSE 0)
    <3>0. m \in In(t) /\ m \in Node /\ m # Nil
      BY <1>11, InNode
    <3>1. Bit(u, m) \in Nat /\ h[m] \in Nat
      BY <1>10, <1>18, <3>0, BitType
    <3>2. CASE m = q \/ m = s
      <4>1. h[m] = h[u.child[c][m]] + Bit(u, m)
        BY <1>19, <3>2
      <4>2. h[u.child[c][m]] \in Nat
        BY <1>12, <1>16, <1>18, <3>0
      <4> QED BY <3>0, <3>1, <4>1, <4>2
    <3>3. CASE m # q /\ m # s /\ u.child[c][m] # q
      <4>1. h[m] = h[u.child[c][m]] + Bit(u, m)
        BY <1>19, <3>3
      <4>2. h[u.child[c][m]] \in Nat
        BY <1>12, <1>16, <1>18, <3>0
      <4> QED BY <3>0, <3>1, <4>1, <4>2
    <3>4. CASE m # q /\ m # s /\ u.child[c][m] = q
      <4>1. m = t.parent[q]
        BY <1>12, <1>14, <3>0, <3>4
      <4>2. ~t.black[q]
        BY <1>20, <3>0, <4>1
      <4>3. hb[q] = hb[x] + 1
        BY <1>6, <4>2 DEF Bit
      <4>4. hb[m] = hb[q] + Bit(t, m) + 0
        BY <1>12, <1>15, <3>0, <3>4
      <4>5. Bit(u, m) = Bit(t, m) /\ h[m] = hb[m]
        BY Zenon, <1>10, <1>18, <3>0, <3>4 DEF Bit
      <4> QED BY <1>6, <1>18, <3>0, <3>1, <3>4, <4>3, <4>4, <4>5
    <3> QED BY <3>2, <3>3, <3>4
  <2>3. Paths(u, h, Nil, "left")
    BY <1>18, <2>2 DEF Paths
  <2>4. Kept(tree, below, u, below)
    BY <1>3, <1>11
  <2> QED BY <1>1, <1>13, <2>1, <2>3, <2>4, ToIdle
<1>21. CASE ~(~t.black[q] \/ t.parent[q] = Nil)
  <2>0. PICK g : g = t.parent[q]
    OBVIOUS
  <2>1. t.black[q] /\ g # Nil /\ Fixup("erase", q, g)
    BY <1>9, <1>21, <2>0
  <2>2. PICK e \in Side : /\ e = (IF q # t.child["right"][t.parent[q]] THEN "left" ELSE "right")
                          /\ t.child[e][t.parent[q]] = q
    BY <1>4, <1>5, <2>0, <2>1, SideIs
  <2>3. q # t.root
    BY <1>4, <1>5, <2>0, <2>1 DEF Shape, Links
  <2>4. g \in In(t) /\ g \in Node
    BY <1>4, <1>5, <2>0, <2>3, ParentFacts
  <2>5. g # s /\ g # q /\ t.child[e][g] = q
    <3>1. t.child[e][g] = q
      BY <2>0, <2>2
    <3>2. g # q
      BY <1>14, <2>4, <3>1
    <3>3. g # s
      BY <1>22, <3>1
    <3> QED BY <3>1, <3>2, <3>3
  <2>6. hb[q] = h[q] + 1 /\ h[q] \in Nat
    BY <1>6, <1>18, <2>1 DEF Bit
  <2>7. ASSUME NEW m \in In(u), NEW c \in Side
        PROVE  h[m] = h[u.child[c][m]] + Bit(u, m) + (IF m = g /\ c = e THEN 1 ELSE 0)
    <3>0. m \in In(t) /\ m \in Node /\ m # Nil
      BY <1>11, InNode
    <3>1. Bit(u, m) \in Nat /\ h[m] \in Nat
      BY <1>10, <1>18, <3>0, BitType
    <3>2. CASE ~(m = g /\ c = e)
      <4>1. u.child[c][m] # q
        <5> SUFFICES ASSUME u.child[c][m] = q PROVE FALSE
          OBVIOUS
        <5>1. t.child[c][m] = t.child[e][g] /\ t.child[e][g] # Nil
          BY <1>4, <1>12, <2>5
        <5> QED BY <1>5, <2>4, <3>0, <3>2, <5>1, OneParent
      <4>2. h[m] = h[u.child[c][m]] + Bit(u, m)
        BY <1>19, <4>1
      <4>3. h[u.child[c][m]] \in Nat
        BY <1>12, <1>16, <1>18, <3>0
      <4> QED BY <3>1, <3>2, <4>2, <4>3
    <3>3. CASE m = g /\ c = e
      <4>1. u.child[c][m] = q
        BY <1>12, <2>5, <3>3
      <4>2. hb[m] = hb[q] + Bit(t, m) + 0
        BY <1>12, <1>15, <2>5, <3>0, <3>3, <4>1
      <4>3. Bit(u, m) = Bit(t, m) /\ h[m] = hb[m]
        BY Zenon, <1>10, <1>18, <2>5, <3>0, <3>3 DEF Bit
      <4> QED BY <2>6, <3>1, <3>3, <4>1, <4>2, <4>3
    <3> QED BY <3>2, <3>3
  <2>8. Paths(u, h, g, e)
    BY <1>18, <2>7 DEF Paths
  <2>9. Missing(u, q, g, h)
    <3>1. e = (IF q # u.child["right"][g] THEN "left" ELSE "right") /\ q = u.child[e][g]
      BY <1>12, <2>0, <2>2
    <3> QED BY <2>8, <3>1 DEF Missing
  <2>10. u.black[q] /\ g \in In(u)
    BY Zenon, <1>4, <1>10, <1>11, <2>4
  <2>11. pc' = "erase" /\ node' = q /\ parent' = g
    BY <2>1 DEF Fixup
  <2>12. Loops(u, pc', node', parent', h)
    BY <1>13, <2>9, <2>10, <2>11 DEF Loops
  <2> QED BY <1>1, <1>3, <1>11, <2>12 DEF Rebalanced
<1> QED BY <1>20, <1>21

(* Case 4 is about to be done.                                             *)
FarRed(t, d, b, f) ==
  /\ f = t.child[Other(d)][b] /\ f # Nil /\ t.black[b] /\ ~t.black[f] /\ RedsOk(t, Nil)

(* Case 4 makes everything good.                                           *)
LEMMA FarTurn ==
  ASSUME NEW t, NEW below, Shape(t, below), NEW d \in Side, NEW n \in Node,
         NEW u, NEW b, NEW i, NEW p, Turned(t, u, d, n, b, i, p), b # Nil,
         NEW f, FarRed(t, d, b, f), Recoloured(t, u, n, b, f, TRUE),
         NEW hb, Paths(t, hb, n, d)
  PROVE  RedsOk(u, Nil) /\ \E h : Paths(u, h, Nil, "left")
<1>1. f = t.child[Other(d)][b] /\ f # Nil /\ t.black[b] /\ ~t.black[f] /\ RedsOk(t, Nil)
  BY DEF FarRed
<1>2. \E h : Paths(u, h, Nil, "left")
  BY Zenon, <1>1, FarPaths
<1>3. RedsOk(u, Nil)
  BY Zenon, <1>1, FarReds
<1> QED BY <1>2, <1>3

(* Cases 3 and 4 of an erasure: rotations end the loop.                    *)
LEMMA EraseTurnKeeps ==
  ASSUME NEW below, Shape(tree, below), NEW hb, Loops(tree, pc, node, parent, hb), EraseTurn
  PROVE  Rebalanced(below)
<1>1. PICK u, x, q : u = tree' /\ x = node /\ q = parent
  OBVIOUS
<1>2. pc = "erase" /\ ~Red(Sibling) /\ (Red(Far) \/ Red(Near)) /\ Idle
  BY DEF EraseTurn
<1>3. PICK t, d, s : /\ t = tree /\ d = D /\ s = Sibling /\ Near = t.child[d][s]
                     /\ Far = t.child[Other(d)][s] /\ EraseRound(t, x, q, d, s, hb)
  BY <1>1, <1>2, EraseNames
<1>4. /\ d \in Side /\ q \in In(t) /\ q \in Node /\ q # Nil /\ x = t.child[d][q]
      /\ s = t.child[Other(d)][q] /\ s \in Node /\ s # Nil /\ s # q /\ s # x
      /\ s \in In(t) /\ s # t.root /\ t.parent[s] = q
  BY <1>3 DEF EraseRound
<1>5. RedsOk(t, Nil) /\ Paths(t, hb, q, d) /\ Shape(t, below)
  BY <1>3 DEF EraseRound
<1>6. Other(d) \in Side /\ Other(d) # d /\ Other(Other(d)) = d
  BY <1>4 DEF Side, Other
<1>7. t.black[s]
  BY <1>2, <1>3, <1>4 DEF Red
<1>8. CASE Red(Far)
  <2>1. PICK c, b, i, p, f :
           /\ c \in Side /\ c = D /\ b = Sibling /\ i = Near /\ f = Far /\ f # Nil
           /\ p = tree.parent[parent]
           /\ b = tree.child[Other(c)][parent] /\ i = tree.child[c][b]
           /\ f = tree.child[Other(c)][b]
           /\ TurnStep(tree, tree', c, parent, b, i, p)
           /\ Recoloured(tree, tree', parent, b, f, TRUE)
    BY Zenon, <1>1, <1>2, <1>3, <1>4, <1>8, EraseFarTree
  <2>2. /\ c = d /\ b = s /\ f = t.child[Other(d)][s] /\ f # Nil
        /\ TurnStep(t, u, d, q, s, i, p) /\ Recoloured(t, u, q, s, f, TRUE)
    BY Zenon, <1>1, <1>3, <2>1
  <2>3. Turned(t, u, d, q, s, i, p)
    BY <2>2 DEF TurnStep
  <2>4. ~t.black[f]
    BY <1>3, <1>8, <2>1 DEF Red
  <2>5. FarRed(t, d, s, f)
    BY <1>5, <1>7, <2>2, <2>4 DEF FarRed
  <2>6. RedsOk(u, Nil) /\ \E h : Paths(u, h, Nil, "left")
    <3>1. /\ Shape(t, below) /\ d \in Side /\ q \in Node /\ s # Nil
          /\ Recoloured(t, u, q, s, f, TRUE) /\ Paths(t, hb, q, d)
      BY Zenon, <1>4, <1>5, <2>2
    <3> QED BY Zenon, <2>3, <2>5, <3>1, FarTurn
  <2>7. Kept(t, below, u, TurnedBelow(t, below, d, q, s, i))
    BY <1>4, <1>5, <2>2, TurnKeeps
  <2>8. Kept(tree, below, u, TurnedBelow(t, below, d, q, s, i))
    BY <1>3, <2>7
  <2> QED BY SMTT(30), <1>1, <1>2, <2>6, <2>8, ToIdle
<1>9. CASE ~Red(Far)
  <2>1. PICK v, i, j, p : EraseTwice(v, tree', D, parent, Sibling, Near, i, j, p)
    BY <1>1, <1>2, <1>3, <1>4, <1>9, EraseNearTree
  <2>2. PICK b : b = Near
    OBVIOUS
  <2>3. PICK o : o = Other(d)
    OBVIOUS
  <2>4. EraseTwice(v, u, d, q, s, b, i, j, p)
    BY SMTT(30), <1>1, <1>3, <2>1, <2>2
  <2>5. /\ s = t.child[o][q] /\ t.parent[s] = q
        /\ b = t.child[d][s] /\ b # Nil /\ i = t.child[o][b]
        /\ TurnStep(t, v, o, s, b, i, q) /\ Recoloured(t, v, s, b, i, FALSE)
    BY ZenonT(40), <1>3, <2>3, <2>4 DEF EraseTwice
  <2>6. /\ b = v.child[o][q] /\ j = v.child[d][b] /\ p = v.parent[q] /\ s = v.child[o][b]
        /\ TurnStep(v, u, d, q, b, j, p) /\ Recoloured(v, u, q, b, s, TRUE)
    BY Zenon, <2>3, <2>4 DEF EraseTwice
  <2>7. o \in Side /\ Other(o) = d /\ o # d /\ o = Other(d)
    BY <1>6, <2>3
  <2>8. ~t.black[b] /\ b \in Node /\ b # q /\ b # s
    <3>1. ~t.black[b]
      BY <1>2, <1>3, <1>9, <2>2 DEF Red
    <3>2. b \in Node /\ b # s
      <4>1. s \in Node /\ d \in Side /\ Shape(t, below) /\ b = t.child[d][s] /\ b # Nil
        BY <1>4, <1>5, <2>5
      <4> QED BY SMTT(30), <4>1, ChildFacts
    <3>3. b # q
      <4>1. b \in below[s]
        BY Zenon, <1>4, <1>5, <2>5, ChildFacts
      <4>2. q \notin below[s]
        BY SMTT(30), <1>4, <1>5, <1>6 DEF Shape, Subtrees
      <4> QED BY SMTT(30), <4>1, <4>2
    <3> QED BY <3>1, <3>2, <3>3
  <2>9. Turned(t, v, o, s, b, i, q) /\ Turned(v, u, d, q, b, j, p)
    BY Zenon, <2>5, <2>6 DEF TurnStep
  <2>10. i # Nil => t.black[i]
    BY ZenonT(40), <1>5, <2>5, <2>7, <2>8, RedsBelow
  <2>11. PICK h1 : h1 = [hb EXCEPT ![s] = hb[b], ![b] = hb[s]]
    BY Zenon
  <2>12. Paths(v, h1, q, d)
    <3>1. q = Nil \/ (q = s /\ d = o) \/ (q # s /\ q # b)
      BY <1>4, <2>8
    <3> QED BY ZenonT(90), <1>4, <1>5, <1>7, <2>5, <2>7, <2>8, <2>9, <2>10, <2>11, <3>1, TurnPaths
  <2>13. RedsOk(v, Nil)
    <3>1. t.child[o][s] # Nil => t.black[t.child[o][s]]
      BY <1>3, <1>9, <2>3 DEF Red
    <3>2. RisingRed(t, o, s, b, Nil)
      BY <1>5, <1>7, <2>8, <3>1 DEF RisingRed
    <3> QED BY Zenon, <1>4, <1>5, <2>5, <2>7, <2>9, <3>2, TurnReds
  <2>14. PICK C : C = TurnedBelow(t, below, o, s, b, i)
    OBVIOUS
  <2>15. Kept(t, below, v, C)
    BY Zenon, <1>4, <1>5, <2>5, <2>7, <2>14, TurnKeeps
  <2>16. Shape(v, C)
    BY SMTT(30), <2>15 DEF Kept
  <2>17. v.black[b] = t.black[s] /\ v.black[s] = FALSE
    BY Zenon, <1>4, <2>5, <2>8 DEF Recoloured
  <2>18. v.black[b] /\ ~v.black[s]
    BY SMTT(30), <1>7, <2>17
  <2>19. FarRed(v, d, b, s)
    BY Zenon, <1>4, <2>6, <2>7, <2>13, <2>18 DEF FarRed
  <2>20. RedsOk(u, Nil) /\ \E h : Paths(u, h, Nil, "left")
    BY ZenonT(40), <1>4, <2>5, <2>6, <2>9, <2>12, <2>16, <2>19, FarTurn
  <2>21. Kept(v, C, u, TurnedBelow(v, C, d, q, b, j))
    BY Zenon, <1>4, <2>5, <2>6, <2>16, TurnKeeps
  <2>22. Kept(tree, below, u, TurnedBelow(v, C, d, q, b, j))
    BY <1>3, <2>15, <2>21, KeptTwice
  <2> QED BY <1>1, <1>2, <2>20, <2>22, ToIdle
<1> QED BY <1>8, <1>9

(* Every step of the loops.                                                *)
LEMMA RebalanceKeeps ==
  ASSUME NEW below, Shape(tree, below), NEW hb, Loops(tree, pc, node, parent, hb), Rebalance
  PROVE  Rebalanced(below)
BY InsertAtRootKeeps, InsertUnderBlackKeeps, InsertFlipKeeps, InsertTurnKeeps,
   EraseSiblingKeeps, EraseFlipKeeps, EraseTurnKeeps DEF Rebalance

-----------------------------------------------------------------------------
(* The walks through a tree, which are recursive functions                 *)

(* E[x] gives the value at x from those at the places of a lower rank.     *)
Founded(S, V, E, rank) ==
  \A x \in S : \A f, g \in [S -> V] :
    (\A y \in S : rank[y] < rank[x] => f[y] = g[y]) => E[x][f] = E[x][g]

(* The equations E have values in V, and refer to places of lower rank     *)
(* only.                                                                   *)
Recursive(S, V, E, N, rank) ==
  /\ V # {} /\ E \in [S -> [[S -> V] -> V]]
  /\ N \in Nat /\ rank \in [S -> 0..N] /\ Founded(S, V, E, rank)

(* f satisfies all of them.                                                *)
Solution(S, V, E, f) == f \in [S -> V] /\ \A x \in S : f[x] = E[x][f]

(* Such equations have a solution, by induction over the ranks.            *)
LEMMA Recursion ==
  ASSUME NEW S, NEW V, NEW E, NEW N, NEW rank, Recursive(S, V, E, N, rank)
  PROVE  \E f : Solution(S, V, E, f)
<1>0. /\ V # {} /\ E \in [S -> [[S -> V] -> V]]
      /\ N \in Nat /\ rank \in [S -> 0..N] /\ Founded(S, V, E, rank)
  BY Zenon DEF Recursive
<1> DEFINE upto(k) == {f \in [S -> V] : \A x \in S : rank[x] < k => f[x] = E[x][f]}
           bad == {k \in Nat : upto(k) = {}}
<1>1. 0 \notin bad
  <2>1. PICK v \in V : TRUE
    BY <1>0
  <2>2. [x \in S |-> v] \in upto(0)
    BY <1>0, <2>1
  <2> QED BY <2>2
<1>2. ASSUME NEW k \in Nat, k \notin bad
      PROVE  k + 1 \notin bad
  <2>1. PICK f \in upto(k) : TRUE
    BY <1>2
  <2>2. PICK g : g = [x \in S |-> E[x][f]]
    BY Zenon
  <2>3. f \in [S -> V] /\ \A x \in S : rank[x] < k => f[x] = E[x][f]
    BY <2>1
  <2>4. g \in [S -> V] /\ \A x \in S : g[x] = E[x][f]
    BY <1>0, <2>2, <2>3
  <2>5. ASSUME NEW x \in S, rank[x] < k + 1
        PROVE  g[x] = E[x][g]
    <3>1. \A y \in S : rank[y] < rank[x] => f[y] = g[y]
      <4> SUFFICES ASSUME NEW y \in S, rank[y] < rank[x] PROVE f[y] = g[y]
        OBVIOUS
      <4>1. rank[y] < k
        BY <1>0, <2>5
      <4> QED BY <2>3, <2>4, <4>1
    <3>2. E[x][f] = E[x][g]
      BY Zenon, <1>0, <2>3, <2>4, <3>1 DEF Founded
    <3> QED BY <2>4, <3>2
  <2>6. g \in upto(k + 1)
    BY <2>4, <2>5
  <2> QED BY <2>6
<1>3. bad = {}
  <2> SUFFICES ASSUME bad # {} PROVE FALSE
    OBVIOUS
  <2>1. bad \in SUBSET Nat
    OBVIOUS
  <2>2. PICK m : m = Min(bad)
    BY Zenon
  <2>3. m \in bad /\ \A y \in bad : m <= y
    BY Zenon, <2>1, <2>2, LeastElement
  <2>4. m \in Nat /\ m # 0
    BY <1>1, <2>1, <2>3
  <2>5. m - 1 \in Nat /\ m - 1 \notin bad
    <3> HIDE DEF bad
    <3> QED BY <2>3, <2>4
  <2>6. (m - 1) + 1 \notin bad
    <3> HIDE DEF bad
    <3> QED BY <1>2, <2>5
  <2> QED BY <2>3, <2>4, <2>6
<1>4. PICK f \in upto(N + 1) : TRUE
  <2>1. N + 1 \in Nat
    BY <1>0
  <2> QED BY <1>3, <2>1
<1>5. f \in [S -> V] /\ \A x \in S : f[x] = E[x][f]
  BY <1>0, <1>4
<1> QED BY <1>5 DEF Solution

(* Two ranks of the nodes: from the leaves up, and from the root down.     *)
Height(t, below) ==
  [m \in Node \cup {Nil} |-> IF m \in In(t) THEN Cardinality(below[m]) + 1
                             ELSE IF m = Nil THEN 0 ELSE 1]

(* The rank from the root down.                                            *)
Deep(t, below) ==
  [m \in Node \cup {Nil} |-> IF m \in In(t) THEN Cardinality(In(t)) - Cardinality(below[m]) + 2
                             ELSE IF m = Nil THEN 0 ELSE 1]

(* A child is of lower rank than its parent.                               *)
LEMMA HeightRanks ==
  ASSUME NEW t, NEW below, Shape(t, below), NEW rank, rank = Height(t, below)
  PROVE  \E N \in Nat : /\ rank \in [Node \cup {Nil} -> 0..N]
                        /\ \A m \in Node, d \in Side : rank[t.child[d][m]] < rank[m]
<1>1. \A m \in In(t) : /\ Cardinality(below[m]) \in Nat
                       /\ Cardinality(below[m]) <= Cardinality(In(t))
  BY Smaller
<1>2. Cardinality(In(t)) \in Nat
  BY FS_CardinalityType DEF Shape, Subtrees
<1>3. PICK N : N = Cardinality(In(t)) + 1
  OBVIOUS
<1>4. N \in Nat /\ rank \in [Node \cup {Nil} -> 0..N]
  <2>1. \A m \in In(t) : Cardinality(below[m]) + 1 \in 0..N
    BY <1>1, <1>2, <1>3
  <2>2. 0 \in 0..N /\ 1 \in 0..N /\ N \in Nat
    BY <1>2, <1>3
  <2> HIDE DEF In
  <2> QED BY <2>1, <2>2 DEF Height
<1>5. ASSUME NEW m \in Node, NEW d \in Side
      PROVE  rank[t.child[d][m]] < rank[m]
  <2>1. t.child[d][m] \in Node \cup {Nil} /\ Nil \notin In(t)
    BY InNode DEF Shape, Trees
  <2>2. CASE t.child[d][m] = Nil
    <3>1. rank[t.child[d][m]] = 0
      BY <2>1, <2>2 DEF Height
    <3>2. rank[m] > 0
      <4>1. CASE m \in In(t)
        <5>1. rank[m] = Cardinality(below[m]) + 1
          BY <4>1 DEF Height
        <5> QED BY <1>1, <4>1, <5>1
      <4>2. CASE m \notin In(t)
        <5>1. rank[m] = 1
          BY <4>2, RbTreeConstants DEF Height
        <5> QED BY <5>1
      <4> QED BY <4>1, <4>2
    <3>3. rank[m] \in Nat
      BY <1>4
    <3> QED BY <3>1, <3>2, <3>3
  <2>3. CASE t.child[d][m] # Nil
    <3>1. t.child[d][m] \in In(t) /\ m \in In(t)
      BY <2>3, ChildFacts
    <3>2. Cardinality(below[t.child[d][m]]) < Cardinality(below[m])
      BY <2>3, <3>1, Smaller
    <3>3. rank[m] = Cardinality(below[m]) + 1
      BY <3>1 DEF Height
    <3>4. rank[t.child[d][m]] = Cardinality(below[t.child[d][m]]) + 1
      BY <2>1, <3>1 DEF Height
    <3> QED BY <1>1, <3>1, <3>2, <3>3, <3>4
  <2> QED BY <2>2, <2>3
<1> QED BY <1>4, <1>5

(* A parent is of lower rank than its children.                            *)
LEMMA DeepRanks ==
  ASSUME NEW t, NEW below, Shape(t, below), NEW rank, rank = Deep(t, below)
  PROVE  \E N \in Nat : /\ rank \in [Node \cup {Nil} -> 0..N]
                        /\ \A m \in Node : rank[t.parent[m]] < rank[m]
<1>1. \A m \in In(t) : /\ Cardinality(below[m]) \in Nat
                       /\ Cardinality(below[m]) <= Cardinality(In(t))
  BY Smaller
<1>2. Cardinality(In(t)) \in Nat
  BY FS_CardinalityType DEF Shape, Subtrees
<1>3. PICK N : N = Cardinality(In(t)) + 2
  OBVIOUS
<1>4. N \in Nat /\ rank \in [Node \cup {Nil} -> 0..N]
  <2>1. \A m \in In(t) : Cardinality(In(t)) - Cardinality(below[m]) + 2 \in 0..N
    BY <1>1, <1>2, <1>3
  <2>2. 0 \in 0..N /\ 1 \in 0..N /\ N \in Nat
    BY <1>2, <1>3
  <2> HIDE DEF In
  <2> QED BY <2>1, <2>2 DEF Deep
<1>5. ASSUME NEW m \in Node
      PROVE  rank[t.parent[m]] < rank[m]
  <2>1. t.parent[m] \in Node \cup {Nil} /\ Nil \notin In(t)
    BY InNode DEF Shape, Trees
  <2>2. CASE t.parent[m] = Nil
    <3>1. rank[t.parent[m]] = 0
      BY <2>1, <2>2 DEF Deep
    <3>2. rank[m] > 0
      <4>1. CASE m \in In(t)
        <5>1. rank[m] = Cardinality(In(t)) - Cardinality(below[m]) + 2
          BY <4>1 DEF Deep
        <5> QED BY <1>1, <1>2, <4>1, <5>1
      <4>2. CASE m \notin In(t)
        <5>1. rank[m] = 1
          BY <4>2, RbTreeConstants DEF Deep
        <5> QED BY <5>1
      <4> QED BY <4>1, <4>2
    <3>3. rank[m] \in Nat
      BY <1>4
    <3> QED BY <3>1, <3>2, <3>3
  <2>3. CASE t.parent[m] # Nil
    <3>1. m \in In(t) /\ m # t.root
      BY <2>3, RbTreeConstants DEF In, Shape, Links
    <3>2. t.parent[m] \in In(t) /\ \E d \in Side : t.child[d][t.parent[m]] = m
      BY <3>1, ParentFacts
    <3>3. PICK d \in Side : t.child[d][t.parent[m]] = m
      BY <3>2
    <3>4. m # Nil
      BY RbTreeConstants
    <3>5. Cardinality(below[m]) < Cardinality(below[t.parent[m]])
      BY <3>2, <3>3, <3>4, Smaller
    <3>6. rank[m] = Cardinality(In(t)) - Cardinality(below[m]) + 2
      BY <3>1 DEF Deep
    <3>7. rank[t.parent[m]] = Cardinality(In(t)) - Cardinality(below[t.parent[m]]) + 2
      BY <2>1, <3>2 DEF Deep
    <3> QED BY <1>1, <1>2, <3>1, <3>2, <3>5, <3>6, <3>7
  <2> QED BY <2>2, <2>3
<1> QED BY <1>4, <1>5

(* What holds at a place if it holds at all of a lower rank holds at all.  *)
LEMMA RankInduction ==
  ASSUME NEW S, NEW N \in Nat, NEW rank \in [S -> 0..N], NEW P,
         \A x \in S : (\A y \in S : rank[y] < rank[x] => y \in P) => x \in P
  PROVE  \A x \in S : x \in P
<1> DEFINE bad == {rank[x] : x \in {y \in S : y \notin P}}
<1> SUFFICES ASSUME NEW x \in S, x \notin P PROVE FALSE
  OBVIOUS
<1>1. bad \in SUBSET Nat /\ bad # {}
  OBVIOUS
<1>2. PICK m : m = Min(bad)
  BY Zenon
<1>3. m \in bad /\ \A k \in bad : m <= k
  BY Zenon, <1>1, <1>2, LeastElement
<1>4. PICK y \in S : y \notin P /\ rank[y] = m
  BY <1>3
<1>5. ASSUME NEW z \in S, rank[z] < rank[y], z \notin P PROVE FALSE
  <2>1. rank[z] \in bad
    BY <1>5
  <2>2. rank[z] \in Nat /\ rank[y] \in Nat
    OBVIOUS
  <2> HIDE DEF bad
  <2> QED BY <1>3, <1>4, <1>5, <2>1, <2>2
<1> QED BY <1>4, <1>5

(* On the way up from a node there is one node after the other, until Nil  *)
(* or stop, whenever the parents of all others have a lower rank.          *)
Ranked(t, stop, N, rank) ==
  /\ t.parent \in [Node -> Node \cup {Nil}]
  /\ N \in Nat /\ rank \in [Node \cup {Nil} -> 0..N]
  /\ \A m \in Node : m # stop => rank[t.parent[m]] < rank[m]

(* The way up is the node, then the way up from its parent.                *)
UpwardsIs(t, stop) ==
  \A m \in Node \cup {Nil} :
    /\ Upwards(t, m, stop) \in Seq(Node)
    /\ Upwards(t, m, stop) = IF m = Nil \/ m = stop THEN <<>>
                             ELSE <<m>> \o Upwards(t, t.parent[m], stop)

(* So the recursive function is defined, and does what its equation says.  *)
LEMMA UpwardsSteps ==
  ASSUME NEW t, NEW stop, NEW N, NEW rank, Ranked(t, stop, N, rank)
  PROVE  UpwardsIs(t, stop)
<1> DEFINE S == Node \cup {Nil}
           V == Seq(Node)
           step(f, m) == IF m \in {Nil, stop} THEN <<>> ELSE <<m>> \o f[t.parent[m]]
           E == [m \in S |-> [f \in [S -> V] |-> step(f, m)]]
           iter == CHOOSE f : f = [m \in S |-> step(f, m)]
<1>1. /\ t.parent \in [Node -> Node \cup {Nil}] /\ N \in Nat /\ rank \in [S -> 0..N]
      /\ \A m \in Node : m # stop => rank[t.parent[m]] < rank[m]
  BY DEF Ranked
<1>2. /\ N \in Nat /\ rank \in [S -> 0..N]
      /\ \A m \in Node : m # stop => rank[t.parent[m]] < rank[m]
  BY <1>1
<1>3. \A m \in Node : t.parent[m] \in S
  BY <1>1
<1>4. V # {}
  <2>1. <<>> \in V
    OBVIOUS
  <2> QED BY Zenon, <2>1
<1>5. E \in [S -> [[S -> V] -> V]]
  <2> SUFFICES ASSUME NEW m \in S, NEW f \in [S -> V] PROVE step(f, m) \in V
    BY Zenon
  <2>1. CASE m \in {Nil, stop}
    BY <2>1
  <2>2. CASE m \notin {Nil, stop}
    <3>1. m \in Node /\ f[t.parent[m]] \in V
      BY <1>3, <2>2
    <3> QED BY <2>2, <3>1
  <2> QED BY <2>1, <2>2
<1>6. Founded(S, V, E, rank)
  <2> SUFFICES ASSUME NEW m \in S, NEW f \in [S -> V], NEW g \in [S -> V],
                      \A y \in S : rank[y] < rank[m] => f[y] = g[y]
               PROVE  step(f, m) = step(g, m)
    BY Zenon DEF Founded
  <2>1. m \in Node /\ m # stop => f[t.parent[m]] = g[t.parent[m]]
    BY <1>2, <1>3
  <2> QED BY <2>1
<1> HIDE DEF S, V
<1>7. PICK f : Solution(S, V, E, f)
  <2> HIDE DEF E
  <2>1. Recursive(S, V, E, N, rank)
    BY Zenon, <1>2, <1>4, <1>5, <1>6 DEF Recursive
  <2> QED BY <2>1, Recursion
<1>8. f = [m \in S |-> step(f, m)]
  <2>1. f \in [S -> V] /\ \A m \in S : f[m] = E[m][f]
    BY <1>7 DEF Solution
  <2>2. \A m \in S : E[m][f] = step(f, m)
    BY <2>1
  <2> HIDE DEF step, E
  <2> QED BY <2>1, <2>2
<1>9. iter = [m \in S |-> step(iter, m)]
  <2> HIDE DEF step
  <2> QED BY <1>8, Zenon
<1>10. \A m \in S : iter[m] = step(iter, m)
  <2> HIDE DEF step, iter
  <2> QED BY <1>9, Zenon
<1> HIDE DEF iter
<1>11. PICK P : P = {m \in S : iter[m] \in V}
  BY Zenon
<1>12. \A m \in S : (\A y \in S : rank[y] < rank[m] => y \in P) => m \in P
  <2> SUFFICES ASSUME NEW m \in S, \A y \in S : rank[y] < rank[m] => y \in P
               PROVE  step(iter, m) \in V
    BY Zenon, <1>10, <1>11
  <2>1. CASE m \in {Nil, stop}
    BY <2>1 DEF V
  <2>2. CASE m \notin {Nil, stop}
    <3>1. m \in Node
      BY <2>2 DEF S
    <3>2. iter[t.parent[m]] \in V
      BY <1>2, <1>3, <1>11, <2>2, <3>1
    <3> QED BY <2>2, <3>1, <3>2 DEF V
  <2> QED BY <2>1, <2>2
<1>13. \A m \in S : m \in P
  <2> HIDE DEF step
  <2> QED BY <1>2, <1>12, RankInduction
<1>14. \A m : Upwards(t, m, stop) = iter[m]
  BY Zenon DEF Upwards, iter, S
<1> QED BY Zenon, <1>3, <1>10, <1>11, <1>13, <1>14 DEF UpwardsIs, S, V

(* The walk to the last child on a side does what its equation says.       *)
LEMMA OutermostSteps ==
  ASSUME NEW t, NEW below, Shape(t, below), NEW d \in Side
  PROVE  \A m \in Node :
           /\ Outermost(t, m, d) \in Node
           /\ Outermost(t, m, d) = IF t.child[d][m] = Nil THEN m
                                   ELSE Outermost(t, t.child[d][m], d)
<1> DEFINE step(f, m) == IF t.child[d][m] = Nil THEN m ELSE f[t.child[d][m]]
           E == [m \in Node |-> [f \in [Node -> Node] |-> step(f, m)]]
           iter == CHOOSE f : f = [m \in Node |-> step(f, m)]
<1>1. PICK full : full = Height(t, below)
  OBVIOUS
<1>2. PICK N \in Nat : /\ full \in [Node \cup {Nil} -> 0..N]
                       /\ \A m \in Node, e \in Side : full[t.child[e][m]] < full[m]
  BY Zenon, <1>1, HeightRanks
<1>3. PICK rank : rank = [m \in Node |-> full[m]]
  BY Zenon
<1>4. \A m \in Node : t.child[d][m] \in Node \cup {Nil}
  BY DEF Shape, Trees
<1>5. /\ rank \in [Node -> 0..N]
      /\ \A m \in Node : t.child[d][m] # Nil => rank[t.child[d][m]] < rank[m]
  BY <1>2, <1>3, <1>4
<1> SUFFICES ASSUME NEW n \in Node
             PROVE  /\ Outermost(t, n, d) \in Node
                    /\ Outermost(t, n, d) = IF t.child[d][n] = Nil THEN n
                                            ELSE Outermost(t, t.child[d][n], d)
  OBVIOUS
<1>6. E \in [Node -> [[Node -> Node] -> Node]]
  BY <1>4
<1>7. Founded(Node, Node, E, rank)
  <2> SUFFICES ASSUME NEW m \in Node, NEW f \in [Node -> Node], NEW g \in [Node -> Node],
                      \A y \in Node : rank[y] < rank[m] => f[y] = g[y]
               PROVE  step(f, m) = step(g, m)
    BY DEF Founded
  <2> QED BY <1>4, <1>5
<1>8. PICK f : Solution(Node, Node, E, f)
  <2> HIDE DEF E
  <2>0. Node # {}
    OBVIOUS
  <2>1. Recursive(Node, Node, E, N, rank)
    BY Zenon, <1>2, <1>5, <1>6, <1>7, <2>0 DEF Recursive
  <2> QED BY <2>1, Recursion
<1>9. f = [m \in Node |-> step(f, m)]
  <2>1. f \in [Node -> Node] /\ \A m \in Node : f[m] = E[m][f]
    BY <1>8 DEF Solution
  <2>2. \A m \in Node : E[m][f] = step(f, m)
    BY <2>1
  <2> HIDE DEF step, E
  <2> QED BY <2>1, <2>2
<1>10. iter = [m \in Node |-> step(iter, m)]
  <2> HIDE DEF step
  <2> QED BY <1>9, Zenon
<1>11. \A m \in Node : iter[m] = step(iter, m)
  <2> HIDE DEF step, iter
  <2> QED BY <1>10, Zenon
<1> HIDE DEF iter
<1>12. PICK P : P = {m \in Node : iter[m] \in Node}
  BY Zenon
<1>13. \A m \in Node : (\A y \in Node : rank[y] < rank[m] => y \in P) => m \in P
  BY <1>4, <1>5, <1>11, <1>12
<1>14. \A m \in Node : m \in P
  <2> HIDE DEF step
  <2> QED BY <1>5, <1>13, RankInduction
<1>15. \A m : Outermost(t, m, d) = iter[m]
  BY Zenon DEF Outermost, iter
<1> QED BY <1>4, <1>11, <1>12, <1>14, <1>15

(* The way up to the first parent on side d.                               *)
UpIs(t, d, up) ==
  /\ up \in [Node -> Node \cup {Nil}]
  /\ \A m \in Node : up[m] = IF t.parent[m] # Nil /\ m = t.child[d][t.parent[m]]
                             THEN up[t.parent[m]] ELSE t.parent[m]
  /\ \A m : Neighbour(t, m, d) = IF t.child[d][m] # Nil
                                 THEN Outermost(t, t.child[d][m], Other(d)) ELSE up[m]

(* rb_next and rb_prev do what their loops say.                            *)
LEMMA NeighbourSteps ==
  ASSUME NEW t, NEW below, Shape(t, below), NEW d \in Side, Node # {}
  PROVE  \E up : UpIs(t, d, up)
<1> DEFINE V == Node \cup {Nil}
           step(f, m) == IF t.parent[m] # Nil /\ m = t.child[d][t.parent[m]]
                         THEN f[t.parent[m]] ELSE t.parent[m]
           E == [m \in Node |-> [f \in [Node -> V] |-> step(f, m)]]
           iter == CHOOSE f : f = [m \in Node |-> step(f, m)]
<1>1. PICK full : full = Deep(t, below)
  OBVIOUS
<1>2. PICK N \in Nat : /\ full \in [Node \cup {Nil} -> 0..N]
                       /\ \A m \in Node : full[t.parent[m]] < full[m]
  BY Zenon, <1>1, DeepRanks
<1>3. PICK rank : rank = [m \in Node |-> full[m]]
  BY Zenon
<1>4. \A m \in Node : t.parent[m] \in Node \cup {Nil}
  BY DEF Shape, Trees
<1>5. /\ rank \in [Node -> 0..N]
      /\ \A m \in Node : t.parent[m] # Nil => rank[t.parent[m]] < rank[m]
  BY <1>2, <1>3, <1>4
<1>6. E \in [Node -> [[Node -> V] -> V]]
  BY <1>4
<1>7. Founded(Node, V, E, rank)
  <2> SUFFICES ASSUME NEW m \in Node, NEW f \in [Node -> V], NEW g \in [Node -> V],
                      \A y \in Node : rank[y] < rank[m] => f[y] = g[y]
               PROVE  step(f, m) = step(g, m)
    BY DEF Founded
  <2> QED BY <1>4, <1>5
<1> HIDE DEF V
<1>8. PICK f : Solution(Node, V, E, f)
  <2> HIDE DEF E
  <2>0. V # {}
    BY DEF V
  <2>1. Recursive(Node, V, E, N, rank)
    BY Zenon, <1>2, <1>5, <1>6, <1>7, <2>0 DEF Recursive
  <2> QED BY <2>1, Recursion
<1>9. f = [m \in Node |-> step(f, m)]
  <2>1. f \in [Node -> V] /\ \A m \in Node : f[m] = E[m][f]
    BY <1>8 DEF Solution
  <2>2. \A m \in Node : E[m][f] = step(f, m)
    BY <2>1
  <2> HIDE DEF step, E
  <2> QED BY <2>1, <2>2
<1>10. iter = [m \in Node |-> step(iter, m)]
  <2> HIDE DEF step
  <2> QED BY <1>9, Zenon
<1>11. \A m \in Node : iter[m] = step(iter, m)
  <2> HIDE DEF step, iter
  <2> QED BY <1>10, Zenon
<1>12. \A m : Neighbour(t, m, d) = IF t.child[d][m] # Nil
                                   THEN Outermost(t, t.child[d][m], Other(d)) ELSE iter[m]
  BY Zenon DEF Neighbour, iter
<1>13. DOMAIN iter = Node
  <2> HIDE DEF step, iter
  <2> QED BY <1>10
<1>14. iter = [m \in Node |-> iter[m]]
  <2> HIDE DEF step, iter
  <2> QED BY <1>10
<1> HIDE DEF iter
<1>15. PICK P : P = {m \in Node : iter[m] \in V}
  BY Zenon
<1>16. \A m \in Node : (\A y \in Node : rank[y] < rank[m] => y \in P) => m \in P
  BY <1>4, <1>5, <1>11, <1>15 DEF V
<1>17. \A m \in Node : m \in P
  <2> HIDE DEF step
  <2> QED BY <1>2, <1>5, <1>16, RankInduction
<1>18. iter \in [Node -> V]
  BY <1>14, <1>15, <1>17
<1> QED BY <1>11, <1>12, <1>18 DEF UpIs, V

(* The nodes of every subtree from left to right.                          *)
WalkIs(t, walk) ==
  /\ walk \in [Node \cup {Nil} -> Seq(Node)] /\ walk[Nil] = <<>>
  /\ \A m \in Node : walk[m] = walk[t.child["left"][m]] \o <<m>> \o walk[t.child["right"][m]]
  /\ InOrder(t) = walk[t.root]

(* So does the in-order walk of all nodes.                                 *)
LEMMA InOrderSteps ==
  ASSUME NEW t, NEW below, Shape(t, below)
  PROVE  \E walk : WalkIs(t, walk)
<1> DEFINE S == Node \cup {Nil}
           V == Seq(Node)
           step(f, m) == IF m = Nil THEN <<>>
                         ELSE f[t.child["left"][m]] \o <<m>> \o f[t.child["right"][m]]
           E == [m \in S |-> [f \in [S -> V] |-> step(f, m)]]
           iter == CHOOSE f : f = [m \in S |-> step(f, m)]
<1>1. PICK rank : rank = Height(t, below)
  OBVIOUS
<1>2. PICK N \in Nat : /\ rank \in [S -> 0..N]
                       /\ \A m \in Node, d \in Side : rank[t.child[d][m]] < rank[m]
  BY <1>1, HeightRanks
<1>3. \A m \in Node : /\ t.child["left"][m] \in S /\ rank[t.child["left"][m]] < rank[m]
                      /\ t.child["right"][m] \in S /\ rank[t.child["right"][m]] < rank[m]
  <2>1. \A m \in Node, d \in Side : t.child[d][m] \in S
    BY DEF Shape, Trees
  <2> QED BY <1>2, <2>1, LeftRight
<1>4. V # {}
  <2>1. <<>> \in V
    OBVIOUS
  <2> QED BY Zenon, <2>1
<1>5. \A a, b \in V, m \in Node : a \o <<m>> \o b \in V
  OBVIOUS
<1> HIDE DEF V
<1>6. E \in [S -> [[S -> V] -> V]]
  <2> SUFFICES ASSUME NEW m \in S, NEW f \in [S -> V] PROVE step(f, m) \in V
    BY Zenon
  <2>1. CASE m = Nil
    BY <2>1 DEF V
  <2>2. CASE m # Nil
    <3>1. m \in Node /\ f[t.child["left"][m]] \in V /\ f[t.child["right"][m]] \in V
      BY <1>3, <2>2
    <3> QED BY Zenon, <1>5, <2>2, <3>1
  <2> QED BY <2>1, <2>2
<1>7. Founded(S, V, E, rank)
  <2> SUFFICES ASSUME NEW m \in S, NEW f \in [S -> V], NEW g \in [S -> V],
                      \A y \in S : rank[y] < rank[m] => f[y] = g[y]
               PROVE  step(f, m) = step(g, m)
    BY Zenon DEF Founded
  <2>1. m \in Node => /\ f[t.child["left"][m]] = g[t.child["left"][m]]
                      /\ f[t.child["right"][m]] = g[t.child["right"][m]]
    BY <1>3
  <2> QED BY <2>1
<1> HIDE DEF S
<1>8. PICK f : Solution(S, V, E, f)
  <2> HIDE DEF E
  <2>1. Recursive(S, V, E, N, rank)
    BY Zenon, <1>2, <1>4, <1>6, <1>7 DEF Recursive
  <2> QED BY <2>1, Recursion
<1>9. f = [m \in S |-> step(f, m)]
  <2>1. f \in [S -> V] /\ \A m \in S : f[m] = E[m][f]
    BY Zenon, <1>8 DEF Solution
  <2>2. \A m \in S : E[m][f] = step(f, m)
    BY <2>1
  <2> HIDE DEF step, E
  <2> QED BY <2>1, <2>2
<1>10. iter = [m \in S |-> step(iter, m)]
  <2> HIDE DEF step
  <2> QED BY <1>9, Zenon
<1>11. \A m \in S : iter[m] = step(iter, m)
  <2> HIDE DEF step, iter
  <2> QED BY <1>10, Zenon
<1>12. iter = [m \in S |-> iter[m]]
  <2> HIDE DEF step, iter
  <2> QED BY <1>10
<1>13. InOrder(t) = iter[t.root]
  BY Zenon DEF InOrder, iter, S
<1> HIDE DEF iter
<1>14. PICK P : P = {m \in S : iter[m] \in V}
  BY Zenon
<1>15. \A m \in S : (\A y \in S : rank[y] < rank[m] => y \in P) => m \in P
  <2> SUFFICES ASSUME NEW m \in S, \A y \in S : rank[y] < rank[m] => y \in P
               PROVE  step(iter, m) \in V
    BY Zenon, <1>11, <1>14
  <2>1. CASE m = Nil
    BY <2>1 DEF V
  <2>2. CASE m # Nil
    <3>1. m \in Node
      BY <2>2 DEF S
    <3>2. iter[t.child["left"][m]] \in V /\ iter[t.child["right"][m]] \in V
      BY <1>3, <1>14, <3>1
    <3> QED BY Zenon, <1>5, <2>2, <3>1, <3>2
  <2> QED BY <2>1, <2>2
<1>16. \A m \in S : m \in P
  <2> HIDE DEF step
  <2> QED BY <1>2, <1>15, RankInduction
<1>17. iter \in [S -> V]
  BY <1>12, <1>14, <1>16
<1>18. Nil \in S /\ (\A m \in Node : m \in S /\ m # Nil)
  BY RbTreeConstants DEF S
<1> QED BY Zenon, <1>11, <1>13, <1>17, <1>18 DEF WalkIs, S, V

(* In a tree every walk up comes to its end, at stop or at the root.       *)
LEMMA ShapeUpwards ==
  ASSUME NEW t, NEW below, Shape(t, below), NEW stop
  PROVE  UpwardsIs(t, stop)
<1>1. PICK rank : rank = Deep(t, below)
  OBVIOUS
<1>2. PICK N \in Nat : /\ rank \in [Node \cup {Nil} -> 0..N]
                       /\ \A m \in Node : rank[t.parent[m]] < rank[m]
  BY <1>1, DeepRanks
<1>3. t.parent \in [Node -> Node \cup {Nil}]
  BY DEF Shape, Trees
<1>4. Ranked(t, stop, N, rank)
  BY <1>2, <1>3 DEF Ranked
<1> QED BY <1>4, UpwardsSteps

(* The walk down comes to the outermost node.                              *)
LEMMA OutermostIs ==
  ASSUME NEW t, NEW below, Shape(t, below), NEW d \in Side
  PROVE  \A n \in In(t) : OuterIs(t, below, n, d, Outermost(t, n, d))
<1> DEFINE bad == {n \in In(t) : ~OuterIs(t, below, n, d, Outermost(t, n, d))}
<1> SUFFICES ASSUME bad # {} PROVE FALSE
  OBVIOUS
<1>1. PICK n \in bad : \A e \in Side : t.child[e][n] \notin bad
  BY Zenon, LowestOf
<1>2. n \in In(t) /\ n \in Node /\ ~OuterIs(t, below, n, d, Outermost(t, n, d))
  BY <1>1, InNode
<1>3. Other(d) \in Side /\ Other(d) # d /\ \A c \in Side : c = d \/ c = Other(d)
  BY Sides
<1>4. PICK w : w = Outermost(t, n, d)
  OBVIOUS
<1>5. w = IF t.child[d][n] = Nil THEN n ELSE Outermost(t, t.child[d][n], d)
  BY <1>2, <1>4, OutermostSteps
<1>6. \A m \in Node : m \in below[m] /\ \A e \in Side : \A k \in below[t.child[e][m]] :
                        k \in below[m] /\ k # m /\ k \in Node
  BY BelowParts
<1>7. \A m \in below[n] : m \in Node
  BY <1>2, BelowParts
<1>8. CASE t.child[d][n] = Nil
  <2>1. w = n
    BY <1>5, <1>8
  <2>2. ASSUME NEW m \in below[n], n \in below[t.child[Other(d)][m]] PROVE FALSE
    <3>1. m \in Node /\ n \in below[m]
      BY <1>3, <1>6, <1>7, <2>2
    <3>2. m = n
      BY <1>2, <2>2, <3>1, BelowOneWay
    <3> QED BY <1>3, <1>6, <2>2, <3>1, <3>2
  <2> QED BY <1>2, <1>4, <1>6, <1>8, <2>1, <2>2 DEF OuterIs
<1>9. CASE t.child[d][n] # Nil
  <2>1. PICK c : c = t.child[d][n]
    OBVIOUS
  <2>2. c \in In(t) /\ c \in Node /\ (\A m \in below[c] : m \in below[n])
    BY <1>2, <1>9, <2>1, ChildFacts
  <2>3. w = Outermost(t, c, d)
    BY <1>5, <1>9, <2>1
  <2>4. OuterIs(t, below, c, d, w)
    BY <1>1, <2>1, <2>2, <2>3
  <2>5. /\ w \in below[c] /\ t.child[d][w] = Nil
        /\ \A m \in below[c] : w \notin below[t.child[Other(d)][m]]
    BY <2>4 DEF OuterIs
  <2>6. \A m \in below[c] : m \notin below[t.child[Other(d)][n]]
    BY <1>2, <2>1 DEF Shape, Subtrees
  <2>7. ASSUME NEW m \in below[n], w \in below[t.child[Other(d)][m]] PROVE FALSE
    <3>1. m \in Node /\ w \in below[m]
      BY <1>3, <1>6, <1>7, <2>7
    <3>2. CASE m = n
      BY <2>5, <2>6, <2>7, <3>2
    <3>3. CASE m \in below[c]
      BY <2>5, <2>7, <3>3
    <3>4. CASE m \in below[t.child[Other(d)][n]]
      <4>1. t.child[Other(d)][n] \in Node
        <5>1. t.child[Other(d)][n] \in Node \cup {Nil} /\ below[Nil] = {}
          BY <1>2, <1>3 DEF Shape, Trees, Subtrees
        <5> QED BY <3>4, <5>1
      <4>2. w \in below[t.child[Other(d)][n]]
        BY <3>1, <3>4, <4>1, BelowBelow
      <4> QED BY <2>5, <2>6, <4>2
    <3>5. m = n \/ m \in below[c] \/ m \in below[t.child[Other(d)][n]]
      <4>1. m = n \/ \E e \in Side : m \in below[t.child[e][n]]
        BY <1>2, BelowParts
      <4> QED BY <1>3, <2>1, <4>1
    <3> QED BY <3>2, <3>3, <3>4, <3>5
  <2>8. OuterIs(t, below, n, d, w)
    BY <2>2, <2>5, <2>7 DEF OuterIs
  <2> QED BY <1>2, <1>4, <2>8
<1> QED BY <1>8, <1>9

(* One node of the walk of propagate.                                      *)
Recompute(acc, m) ==
  IF acc.settled \/ acc.tree.last[m] = ComputeMax(acc.tree, m)
  THEN [acc EXCEPT !.settled = TRUE]
  ELSE [acc EXCEPT !.tree.last[m] = ComputeMax(acc.tree, m)]

(* The tree so far, and whether the walk has stopped.                      *)
Accs == [tree : Trees, settled : BOOLEAN]

(* One node more changes one end at most.                                  *)
LEMMA RecomputeType ==
  ASSUME NEW acc \in Accs, NEW m \in Node
  PROVE  /\ Recompute(acc, m) \in Accs
         /\ OnlyLast(acc.tree, Recompute(acc, m).tree)
<1>1. PICK c : c = ComputeMax(acc.tree, m)
  OBVIOUS
<1>2. acc.tree \in Trees /\ acc.settled \in BOOLEAN /\ acc = [tree |-> acc.tree, settled |-> acc.settled]
  BY DEF Accs
<1>3. c \in Int
  BY <1>1, <1>2, ComputeMaxType
<1>4. PICK t : t = acc.tree
  OBVIOUS
<1>5. PICK u : u = [t EXCEPT !.last[m] = c]
  BY Zenon
<1>6. u \in Trees /\ OnlyLast(t, u)
  BY Zenon, <1>2, <1>3, <1>4, <1>5 DEF Trees, OnlyLast
<1>7. OnlyLast(t, t)
  BY <1>2, <1>4 DEF OnlyLast
<1>8. CASE acc.settled \/ acc.tree.last[m] = c
  <2>1. Recompute(acc, m) = [acc EXCEPT !.settled = TRUE]
    BY <1>1, <1>8 DEF Recompute
  <2>2. Recompute(acc, m) = [tree |-> t, settled |-> TRUE]
    BY Zenon, <1>2, <1>4, <2>1
  <2> QED BY <1>2, <1>4, <1>7, <2>2 DEF Accs
<1>9. CASE ~(acc.settled \/ acc.tree.last[m] = c)
  <2>1. Recompute(acc, m) = [acc EXCEPT !.tree.last[m] = c]
    BY <1>1, <1>9 DEF Recompute
  <2>2. Recompute(acc, m) = [tree |-> u, settled |-> acc.settled]
    BY <1>2, <1>4, <1>5, <2>1
  <2> QED BY <1>2, <1>4, <1>6, <2>2 DEF Accs
<1> QED BY <1>8, <1>9

(* The walk, node by node.                                                 *)
Propagated(t, u, path, acc) ==
  /\ acc \in [0..Len(path) -> Accs]
  /\ acc[0] = [tree |-> t, settled |-> FALSE]
  /\ \A k \in 1..Len(path) : acc[k] = Recompute(acc[k - 1], path[k])
  /\ u = acc[Len(path)].tree

(* propagate recomputes the ends on the way up until one is right.         *)
LEMMA PropagateSteps ==
  ASSUME NEW t \in Trees, Augmented, NEW n, NEW stop, NEW path \in Seq(Node),
         path = Upwards(t, n, stop)
  PROVE  \E acc : Propagated(t, Propagate(t, n, stop), path, acc)
<1> DEFINE S == SUBSET (DOMAIN path)
           base == [tree |-> t, settled |-> FALSE]
           step(f, s) == IF s = {} THEN base
                         ELSE Recompute(f[s \ {Max(s)}], path[Max(s)])
           E == [s \in S |-> [f \in [S -> Accs] |-> step(f, s)]]
           iter == CHOOSE f : f = [s \in S |-> step(f, s)]
<1>1. DOMAIN path = 1..Len(path) /\ Len(path) \in Nat
  OBVIOUS
<1>2. PICK rank : rank = [s \in S |-> Cardinality(s)]
  BY Zenon
<1>3. \A s \in S : /\ IsFiniteSet(s) /\ Cardinality(s) \in 0..Len(path)
                   /\ s # {} => /\ Max(s) \in s /\ s \ {Max(s)} \in S
                                /\ path[Max(s)] \in Node
                                /\ Cardinality(s \ {Max(s)}) < Cardinality(s)
  <2> SUFFICES ASSUME NEW s \in SUBSET (1..Len(path))
               PROVE  /\ IsFiniteSet(s) /\ Cardinality(s) \in 0..Len(path)
                      /\ s # {} => /\ Max(s) \in s /\ s \ {Max(s)} \in S
                                   /\ path[Max(s)] \in Node
                                   /\ Cardinality(s \ {Max(s)}) < Cardinality(s)
    BY Zenon, <1>1
  <2>1. IsFiniteSet(1..Len(path)) /\ Cardinality(1..Len(path)) = Len(path)
    BY SMTT(30), <1>1, FS_Interval
  <2>2. IsFiniteSet(s) /\ Cardinality(s) <= Len(path)
    <3>1. PICK R : R = 1..Len(path)
      OBVIOUS
    <3>2. IsFiniteSet(R) /\ s \in SUBSET R /\ Cardinality(R) = Len(path)
      BY <2>1, <3>1
    <3>3. IsFiniteSet(s) /\ Cardinality(s) <= Cardinality(R)
      BY Zenon, <3>2, FS_Subset
    <3> QED BY <3>2, <3>3
  <2>3. Cardinality(s) \in Nat
    BY <2>2, FS_CardinalityType
  <2>4. ASSUME s # {}
        PROVE  /\ Max(s) \in s /\ s \ {Max(s)} \in S
               /\ path[Max(s)] \in Node /\ Cardinality(s \ {Max(s)}) < Cardinality(s)
    <3>1. Max(s) \in s
      BY Zenon, <1>1, <2>4, GreatestPlace
    <3>2. PICK x : x = Max(s)
      OBVIOUS
    <3>3. x \in s /\ s \ {x} \in S
      BY Zenon, <1>1, <3>1, <3>2
    <3>4. Cardinality(s \ {x}) = Cardinality(s) - 1
      BY Zenon, <2>2, <3>3, FS_RemoveElement
    <3> QED BY <1>1, <2>3, <3>2, <3>3, <3>4
  <2> QED BY <1>1, <2>2, <2>3, <2>4
<1>4. base \in Accs
  BY DEF Accs
<1>5. rank \in [S -> 0..Len(path)]
  BY Zenon, <1>2, <1>3
<1> HIDE DEF S, base
<1>6. E \in [S -> [[S -> Accs] -> Accs]]
  <2> SUFFICES ASSUME NEW s \in S, NEW f \in [S -> Accs] PROVE step(f, s) \in Accs
    OBVIOUS
  <2>1. CASE s = {}
    BY <1>4, <2>1
  <2>2. CASE s # {}
    <3>1. f[s \ {Max(s)}] \in Accs /\ path[Max(s)] \in Node
      BY Zenon, <1>3, <2>2
    <3> QED BY Zenon, <2>2, <3>1, RecomputeType
  <2> QED BY <2>1, <2>2
<1>7. Founded(S, Accs, E, rank)
  <2> SUFFICES ASSUME NEW s \in S, NEW f \in [S -> Accs], NEW g \in [S -> Accs],
                      \A y \in S : rank[y] < rank[s] => f[y] = g[y]
               PROVE  step(f, s) = step(g, s)
    BY Zenon DEF Founded
  <2>1. s # {} => f[s \ {Max(s)}] = g[s \ {Max(s)}]
    <3> SUFFICES ASSUME s # {} PROVE f[s \ {Max(s)}] = g[s \ {Max(s)}]
      OBVIOUS
    <3>1. PICK y : y = s \ {Max(s)}
      BY Zenon
    <3>2. y \in S /\ rank[y] < rank[s]
      BY Zenon, <1>2, <1>3, <3>1
    <3> QED BY <3>1, <3>2
  <2> QED BY <2>1
<1>8. PICK f : Solution(S, Accs, E, f)
  <2> HIDE DEF E
  <2>1. Recursive(S, Accs, E, Len(path), rank)
    BY Zenon, <1>1, <1>4, <1>5, <1>6, <1>7 DEF Recursive
  <2> QED BY <2>1, Recursion
<1>9. f = [s \in S |-> step(f, s)]
  <2>1. f \in [S -> Accs] /\ \A s \in S : f[s] = E[s][f]
    BY <1>8 DEF Solution
  <2>2. \A s \in S : E[s][f] = step(f, s)
    BY <2>1
  <2> HIDE DEF step, E
  <2> QED BY <2>1, <2>2
<1>10. iter = [s \in S |-> step(iter, s)]
  <2> HIDE DEF step
  <2> QED BY <1>9, Zenon
<1>11. \A s \in S : iter[s] = step(iter, s)
  <2> HIDE DEF step, iter
  <2> QED BY <1>10, Zenon
<1>12. Propagate(t, n, stop) = iter[DOMAIN path].tree
  BY ZenonT(90) DEF Propagate, FoldLeft, MapThenFoldSet, Recompute, iter, S, base
<1> HIDE DEF iter
<1>13. PICK P : P = {s \in S : iter[s] \in Accs}
  BY Zenon
<1>14. \A s \in S : (\A y \in S : rank[y] < rank[s] => y \in P) => s \in P
  <2> SUFFICES ASSUME NEW s \in S, \A y \in S : rank[y] < rank[s] => y \in P
               PROVE  step(iter, s) \in Accs
    BY Zenon, <1>11, <1>13
  <2>1. CASE s = {}
    BY <1>4, <2>1
  <2>2. CASE s # {}
    <3>1. PICK y : y = s \ {Max(s)}
      BY Zenon
    <3>2. y \in S /\ rank[y] < rank[s] /\ path[Max(s)] \in Node
      BY Zenon, <1>2, <1>3, <2>2, <3>1
    <3>3. iter[s \ {Max(s)}] \in Accs
      BY <1>13, <3>1, <3>2
    <3> QED BY <2>2, <3>2, <3>3, RecomputeType
  <2> QED BY <2>1, <2>2
<1>15. \A s \in S : s \in P
  <2> HIDE DEF step
  <2> QED
    <3>1. /\ rank \in [S -> 0..Len(path)]
          /\ \A s \in S : (\A y \in S : rank[y] < rank[s] => y \in P) => s \in P
      BY Zenon, <1>5, <1>14
    <3> QED BY SMTT(30), <3>1, RankInduction
<1>16. PICK acc : acc = [k \in 0..Len(path) |-> iter[1..k]]
  BY Zenon
<1>17. \A k \in 0..Len(path) : 1..k \in S
  BY <1>1 DEF S
<1>18. acc \in [0..Len(path) -> Accs]
  BY <1>13, <1>15, <1>16, <1>17
<1>19. acc[0] = base
  <2>1. 1..0 = {}
    OBVIOUS
  <2> QED BY <1>1, <1>11, <1>16, <1>17, <2>1
<1>20. ASSUME NEW k \in 1..Len(path)
       PROVE  acc[k] = Recompute(acc[k - 1], path[k])
  <2>1. /\ k \in 0..Len(path) /\ k - 1 \in 0..Len(path) /\ k \in Nat /\ k \in 1..k
        /\ (1..k) \ {k} = 1..(k - 1)
    <3>1. k \in Int /\ 1 <= k /\ k <= Len(path) /\ k - 1 \in Int
      BY <1>1
    <3>2. \A j \in Int : 1 <= j /\ j <= k /\ j # k <=> 1 <= j /\ j <= k - 1
      BY <3>1
    <3>3. (1..k) \ {k} = 1..(k - 1)
      BY <3>1, <3>2
    <3> QED BY <1>1, <3>1, <3>3
  <2>2. Max(1..k) = k
    <3>1. PICK s : s = 1..k
      OBVIOUS
    <3>2. s \in SUBSET (1..k) /\ s # {}
      BY Zenon, <2>1, <3>1
    <3>3. Max(s) \in s /\ \A y \in s : y <= Max(s)
      BY Zenon, <2>1, <3>2, GreatestPlace
    <3> QED BY <2>1, <3>1, <3>3
  <2>3. iter[1..k] = Recompute(iter[(1..k) \ {Max(1..k)}], path[Max(1..k)])
    <3>1. 1..k \in S /\ 1..k # {}
      BY Zenon, <1>17, <2>1
    <3> QED BY Zenon, <1>11, <3>1
  <2> QED BY Zenon, <1>16, <2>1, <2>2, <2>3
<1>21. Propagate(t, n, stop) = acc[Len(path)].tree
  BY <1>1, <1>12, <1>16
<1>22. Propagated(t, Propagate(t, n, stop), path, acc)
  BY <1>18, <1>19, <1>20, <1>21 DEF Propagated, base
<1> QED BY <1>22

(* Induction over the steps of a walk.                                     *)
LEMMA StepInduction ==
  ASSUME NEW N \in Nat, NEW P, 0 \in P, \A k \in 1..N : k - 1 \in P => k \in P
  PROVE  \A k \in 0..N : k \in P
<1>1. PICK S : S = 0..N
  OBVIOUS
<1>2. PICK rank : rank = [k \in S |-> k]
  BY Zenon
<1>3. rank \in [S -> 0..N] /\ \A k \in S : rank[k] = k /\ k \in Nat /\ k <= N
  BY <1>1, <1>2
<1>4. \A x \in S : (\A y \in S : rank[y] < rank[x] => y \in P) => x \in P
  <2> SUFFICES ASSUME NEW x \in S, \A y \in S : rank[y] < rank[x] => y \in P, x # 0
               PROVE  x \in P
    OBVIOUS
  <2>1. x \in 1..N /\ x - 1 \in S
    BY <1>1, <1>3
  <2>2. rank[x - 1] < rank[x]
    BY <1>3, <2>1
  <2> QED BY <2>1, <2>2
<1>5. \A x \in S : x \in P
  BY SMTT(30), <1>3, <1>4, RankInduction
<1> QED BY <1>1, <1>5

(* propagate leaves everything but the ends as it was.                     *)
LEMMA PropagateFields ==
  ASSUME NEW t \in Trees, NEW stop, UpwardsIs(t, stop), NEW n \in Node \cup {Nil}
  PROVE  OnlyLast(t, Propagate(t, n, stop))
<1>1. CASE ~Augmented
  BY <1>1 DEF Propagate, OnlyLast
<1>2. CASE Augmented
  <2>1. PICK path : path = Upwards(t, n, stop)
    OBVIOUS
  <2>2. path \in Seq(Node)
    BY Zenon, <2>1 DEF UpwardsIs
  <2>3. PICK acc : Propagated(t, Propagate(t, n, stop), path, acc)
    BY <1>2, <2>1, <2>2, PropagateSteps
  <2>4. PICK u : u = Propagate(t, n, stop)
    OBVIOUS
  <2>5. PICK N : N = Len(path)
    BY Zenon
  <2>6. /\ acc \in [0..N -> Accs] /\ acc[0] = [tree |-> t, settled |-> FALSE]
        /\ \A k \in 1..N : acc[k] = Recompute(acc[k - 1], path[k])
        /\ u = acc[N].tree /\ N \in Nat /\ \A k \in 1..N : path[k] \in Node
    BY <2>2, <2>3, <2>4, <2>5 DEF Propagated
  <2>7. PICK P : P = {k \in 0..N : OnlyLast(t, acc[k].tree)}
    BY Zenon
  <2>8. 0 \in P
    <3>1. OnlyLast(t, t)
      BY DEF OnlyLast
    <3> QED BY <2>6, <2>7, <3>1
  <2>9. ASSUME NEW k \in 1..N, k - 1 \in P PROVE k \in P
    <3>1. k \in 0..N /\ k - 1 \in 0..N
      BY <2>6
    <3>2. OnlyLast(t, acc[k - 1].tree)
      BY <2>7, <2>9, <3>1
    <3>3. acc[k - 1] \in Accs /\ path[k] \in Node
      BY <2>6, <3>1
    <3>4. OnlyLast(acc[k - 1].tree, acc[k].tree)
      BY <2>6, <3>3, RecomputeType
    <3>5. OnlyLast(t, acc[k].tree)
      BY <3>2, <3>4 DEF OnlyLast
    <3> QED BY <2>7, <3>1, <3>5
  <2>10. N \in Nat /\ \A k \in 1..N : k - 1 \in P => k \in P
    BY <2>6, <2>9
  <2>11. \A k \in 0..N : k \in P
    BY <2>8, <2>10, StepInduction
  <2>12. N \in 0..N
    BY <2>6
  <2> QED BY <2>4, <2>6, <2>7, <2>11, <2>12
<1> QED BY <1>1, <1>2

-----------------------------------------------------------------------------
(* The colours when a node is taken out                                    *)

(* x, if there is one, takes the colour of n.                              *)
Inherited(t, u, n, x) ==
  \A m \in Node : u.black[m] = IF m = n THEN FALSE ELSE IF m = x THEN t.black[n] ELSE t.black[m]

(* Then a black node may be missing at p.                                  *)
Lacking(t, n, x, p) == IF x = Nil /\ t.black[n] THEN p ELSE Nil

(* How the loop of ____rb_erase_color starts after an erasure, if it has   *)
(* to.                                                                     *)
AfterErase(u, lack, h) ==
  Loops(u, IF lack = Nil THEN "idle" ELSE "erase", Nil, lack, h)

(* A node with one child is black, and its child red.                      *)
LEMMA OnlyChild ==
  ASSUME NEW t, NEW below, Shape(t, below), NEW hb, Paths(t, hb, Nil, "left"),
         RedsOk(t, Nil), NEW n \in In(t), NEW d \in Side, NEW x,
         x = t.child[d][n], t.child[Other(d)][n] = Nil
  PROVE  /\ hb[n] = Bit(t, n)
         /\ x # Nil => t.black[n] /\ ~t.black[x] /\ hb[x] = 0
                       /\ \A c \in Side : t.child[c][x] \in Node \cup {Nil} /\ hb[t.child[c][x]] = 0
<1>1. n \in Node /\ n # Nil /\ Other(d) \in Side /\ t \in Trees
  BY InNode, Sides DEF Shape
<1>2. /\ hb \in [Node \cup {Nil} -> Nat] /\ hb[Nil] = 0
      /\ \A m \in In(t), c \in Side :
           hb[m] = hb[t.child[c][m]] + Bit(t, m) + (IF m = Nil /\ c = "left" THEN 1 ELSE 0)
  BY DEF Paths
<1>3. \A m \in Node, c \in Side : t.child[c][m] \in Node \cup {Nil}
  BY <1>1 DEF Trees
<1>4. \A m \in In(t), c \in Side :
        hb[m] = hb[t.child[c][m]] + Bit(t, m) /\ hb[t.child[c][m]] \in Nat /\ Bit(t, m) \in Nat
  <2> SUFFICES ASSUME NEW m \in In(t), NEW c \in Side
               PROVE  /\ hb[m] = hb[t.child[c][m]] + Bit(t, m)
                      /\ hb[t.child[c][m]] \in Nat /\ Bit(t, m) \in Nat
    OBVIOUS
  <2>1. m \in Node /\ m # Nil
    BY InNode
  <2>2. hb[t.child[c][m]] \in Nat /\ Bit(t, m) \in Nat
    BY <1>1, <1>2, <1>3, <2>1, BitType
  <2>3. hb[m] = hb[t.child[c][m]] + Bit(t, m) + 0
    BY <1>2, <2>1
  <2> QED BY <2>2, <2>3
<1>5. hb[n] = Bit(t, n)
  BY <1>1, <1>2, <1>4
<1>6. ASSUME x # Nil
      PROVE  /\ t.black[n] /\ ~t.black[x] /\ hb[x] = 0
             /\ \A c \in Side : t.child[c][x] \in Node \cup {Nil} /\ hb[t.child[c][x]] = 0
  <2>1. x \in In(t) /\ x \in Node /\ t.parent[x] = n
    BY <1>1, <1>6, ChildFacts
  <2>2. hb[x] \in Nat /\ hb[n] = hb[x] + Bit(t, n)
    BY <1>4
  <2>3. hb[x] = 0
    BY <1>4, <1>5, <2>2
  <2>4. \A c \in Side : hb[t.child[c][x]] = 0 /\ Bit(t, x) = 0
    BY <1>4, <2>1, <2>3
  <2>5. ~t.black[x]
    <3>1. Bit(t, x) = 0
      BY <2>4, LeftRight
    <3> QED BY <3>1 DEF Bit
  <2>6. t.black[n]
    <3>1. RedOk(t, x)
      BY <1>6, <2>1 DEF RedsOk
    <3> QED BY <2>1, <2>5, <3>1 DEF RedOk
  <2> QED BY <1>3, <2>1, <2>3, <2>4, <2>5, <2>6
<1> QED BY <1>5, <1>6

(* What is around a node that leaves.                                      *)
Leaving(t, u, n, x, p) ==
  /\ n \in Node /\ n # Nil /\ x \in Node \cup {Nil} /\ x # n /\ p \in Node \cup {Nil} /\ p # n
  /\ \A m \in In(u) : m \in In(t) /\ m \in Node /\ m # n /\ m # Nil
  /\ \A m \in In(u) : m # t.root => /\ t.parent[m] \in Node
                                    /\ m # x => t.parent[m] # n /\ u.parent[m] = t.parent[m]
  /\ \A m \in In(u), e \in Side :
       /\ t.child[e][m] \in Node \cup {Nil} /\ (t.child[e][m] = n => m = p)
       /\ x # Nil => t.child[e][m] # x
       /\ u.child[e][m] = IF t.child[e][m] = n THEN x ELSE t.child[e][m]
  /\ x # Nil => x \in In(t) /\ x \in In(u) /\ t.parent[x] = n /\ x # t.root
  /\ u.root = (IF n = t.root THEN x ELSE t.root)

(* The nodes around it, before and after.                                  *)
LEMMA RemoveFacts ==
  ASSUME NEW t, NEW below, Shape(t, below), NEW n \in In(t),
         NEW u, NEW x, NEW p, Removed(t, u, n, x, p)
  PROVE  Leaving(t, u, n, x, p)
<1>1. PICK c \in Side : t.child[Other(c)][n] = Nil /\ x = t.child[c][n]
  BY DEF Removed
<1>2. /\ p = t.parent[n] /\ u.root = (IF n = t.root THEN x ELSE t.root)
      /\ \A e \in Side, m \in Node :
           u.child[e][m] = IF m = n THEN Nil ELSE IF t.child[e][m] = n THEN x ELSE t.child[e][m]
      /\ \A m \in Node :
           u.parent[m] = IF m = n THEN Nil ELSE IF m = x THEN p ELSE t.parent[m]
  BY DEF Removed
<1>3. /\ \A m \in Node : m \in In(u) <=> m \in In(t) /\ m # n
      /\ n \in Node /\ n # Nil /\ x \in Node \cup {Nil} /\ x # n
      /\ x # Nil => x \in In(t) /\ t.parent[x] = n /\ x # t.root
      /\ p \in Node \cup {Nil} /\ p # n /\ (p # x \/ p = Nil)
      /\ (p = Nil <=> n = t.root)
  BY RemoveKeepsIn
<1>4. \A m \in In(u) : m \in In(t) /\ m \in Node /\ m # n /\ m # Nil
  BY <1>3, InNode
<1>5. ASSUME NEW m \in In(u), m # t.root
      PROVE  /\ t.parent[m] \in Node
             /\ m # x => t.parent[m] # n /\ u.parent[m] = t.parent[m]
  <2>1. t.parent[m] \in Node /\ \E e \in Side : t.child[e][t.parent[m]] = m
    BY <1>4, <1>5, ParentFacts
  <2>2. t.parent[m] = n => m = x
    <3> SUFFICES ASSUME t.parent[m] = n PROVE m = x
      OBVIOUS
    <3>1. PICK e \in Side : t.child[e][n] = m
      BY <2>1
    <3>2. e = c \/ e = Other(c)
      BY Sides
    <3> QED BY <1>1, <1>4, <3>1, <3>2
  <2> QED BY <1>2, <1>4, <2>1, <2>2
<1>6. ASSUME NEW m \in In(u), NEW e \in Side
      PROVE  /\ t.child[e][m] \in Node \cup {Nil} /\ (t.child[e][m] = n => m = p)
             /\ x # Nil => t.child[e][m] # x
             /\ u.child[e][m] = IF t.child[e][m] = n THEN x ELSE t.child[e][m]
  <2>1. m \in Node /\ m # n
    BY <1>4
  <2>2. t.child[e][m] # Nil => t.parent[t.child[e][m]] = m
    BY <2>1, ChildFacts
  <2>3. t.child[e][m] \in Node \cup {Nil}
    BY <2>1 DEF Shape, Trees
  <2> QED BY <1>2, <1>3, <2>1, <2>2, <2>3
<1>7. x # Nil => x \in In(u)
  BY <1>3
<1> QED BY <1>2, <1>3, <1>4, <1>5, <1>6, <1>7 DEF Leaving

(* All paths have the same number of black nodes.                          *)
PathsOut(t, hb) ==
  /\ hb \in [Node \cup {Nil} -> Nat] /\ hb[Nil] = 0
  /\ \A m \in In(t), c \in Side :
       hb[m] = hb[t.child[c][m]] + Bit(t, m) /\ hb[t.child[c][m]] \in Nat /\ Bit(t, m) \in Nat

(* This is what Paths says if none lacks one.                              *)
LEMMA PathsWhole ==
  ASSUME NEW t \in Trees, NEW hb
  PROVE  Paths(t, hb, Nil, "left") <=> PathsOut(t, hb)
<1>1. \A n \in In(t) : n \in Node /\ n # Nil
  BY InNode
<1>2. \A m \in Node, c \in Side : t.child[c][m] \in Node \cup {Nil}
  BY DEF Trees
<1>3. \A m \in Node : Bit(t, m) \in Nat
  BY BitType
<1>4. ASSUME hb \in [Node \cup {Nil} -> Nat], NEW m \in In(t), NEW c \in Side
      PROVE  hb[t.child[c][m]] \in Nat /\ Bit(t, m) \in Nat
  BY <1>1, <1>2, <1>3, <1>4
<1>5. ASSUME hb \in [Node \cup {Nil} -> Nat], NEW m \in In(t), NEW c \in Side
      PROVE  hb[t.child[c][m]] + Bit(t, m) + (IF m = Nil /\ c = "left" THEN 1 ELSE 0)
               = hb[t.child[c][m]] + Bit(t, m)
  BY <1>1, <1>4, <1>5
<1> QED BY <1>4, <1>5 DEF Paths, PathsOut

(* If the node has a child, the child turns black and nothing is missing.  *)
LEMMA RemoveChildKeepsLoops ==
  ASSUME NEW t, NEW below, Shape(t, below), NEW hb, Paths(t, hb, Nil, "left"),
         RedsOk(t, Nil), NEW n \in In(t), NEW u, NEW x, NEW p, Removed(t, u, n, x, p),
         Inherited(t, u, n, x), x # Nil
  PROVE  \E h : AfterErase(u, Nil, h)
<1>1. PICK c \in Side : t.child[Other(c)][n] = Nil /\ x = t.child[c][n]
  BY DEF Removed
<1>2. Leaving(t, u, n, x, p) /\ u \in Trees /\ t \in Trees
  <2>1. Leaving(t, u, n, x, p)
    BY RemoveFacts
  <2> QED BY <2>1 DEF Removed, Shape
<1>3. /\ hb[n] = Bit(t, n) /\ t.black[n] /\ ~t.black[x] /\ hb[x] = 0
      /\ \A e \in Side : t.child[e][x] \in Node \cup {Nil} /\ hb[t.child[e][x]] = 0
  <2>1. x = t.child[c][n] /\ t.child[Other(c)][n] = Nil
    BY <1>1
  <2> QED BY <2>1, OnlyChild
<1>4. hb[n] = 1
  BY <1>3 DEF Bit
<1>5. PathsOut(t, hb)
  BY <1>2, PathsWhole
<1>6. \A m \in Node : u.black[m] = IF m = n THEN FALSE ELSE IF m = x THEN t.black[n] ELSE t.black[m]
  BY Zenon DEF Inherited
<1>7. x \in Node /\ x # n /\ n \in Node
  BY <1>2 DEF Leaving
<1>8. PICK h : h = [hb EXCEPT ![x] = 1]
  BY Zenon
<1>9. h \in [Node \cup {Nil} -> Nat] /\ h[Nil] = 0 /\ h[x] = 1
      /\ \A m \in Node \cup {Nil} : m # x => h[m] = hb[m]
  BY <1>5, <1>7, <1>8 DEF PathsOut
<1>10. ASSUME NEW m \in In(u), NEW e \in Side
       PROVE  h[m] = h[u.child[e][m]] + Bit(u, m) /\ h[u.child[e][m]] \in Nat /\ Bit(u, m) \in Nat
  <2>1. /\ m \in In(t) /\ m \in Node /\ m # n /\ m # Nil
        /\ t.child[e][m] \in Node \cup {Nil} /\ t.child[e][m] # x
        /\ u.child[e][m] = IF t.child[e][m] = n THEN x ELSE t.child[e][m]
    BY <1>2 DEF Leaving
  <2>2. h[u.child[e][m]] = hb[t.child[e][m]]
    BY <1>4, <1>9, <2>1
  <2>3. hb[m] = hb[t.child[e][m]] + Bit(t, m) /\ hb[t.child[e][m]] \in Nat
    BY <1>5, <2>1 DEF PathsOut
  <2>4. Bit(u, m) \in Nat
    BY <1>2, <2>1, BitType
  <2>5. CASE m = x
    <3>1. Bit(u, m) = 1
      BY Zenon, <1>3, <1>6, <2>1, <2>5 DEF Bit
    <3>2. hb[t.child[e][m]] = 0
      BY <1>3, <2>5
    <3> QED BY <1>9, <2>2, <2>4, <2>5, <3>1, <3>2
  <2>6. CASE m # x
    <3>1. Bit(u, m) = Bit(t, m)
      <4>1. u.black[m] = t.black[m]
        BY Zenon, <1>6, <2>1, <2>6
      <4> QED BY <4>1 DEF Bit
    <3>2. h[m] = hb[m]
      BY <1>9, <2>1, <2>6
    <3> QED BY <2>2, <2>3, <2>4, <3>1, <3>2
  <2> QED BY <2>5, <2>6
<1>11. PathsOut(u, h)
  BY <1>9, <1>10 DEF PathsOut
<1>12. RedsOk(u, Nil)
  <2> SUFFICES ASSUME NEW m \in In(u), ~u.black[m]
               PROVE  m # u.root /\ u.black[u.parent[m]]
    BY DEF RedsOk, RedOk
  <2>1. m \in In(t) /\ m \in Node /\ m # n /\ m # Nil
    BY <1>2 DEF Leaving
  <2>2. m # x /\ ~t.black[m]
    BY Zenon, <1>3, <1>6, <2>1
  <2>3. m # t.root /\ t.black[t.parent[m]]
    BY <2>1, <2>2 DEF RedsOk, RedOk
  <2>4. t.parent[m] \in Node /\ t.parent[m] # n /\ u.parent[m] = t.parent[m]
    BY <1>2, <2>2, <2>3 DEF Leaving
  <2>5. m # u.root
    BY <1>2, <2>2, <2>3 DEF Leaving
  <2>6. u.black[t.parent[m]]
    <3>1. CASE t.parent[m] = x
      BY Zenon, <1>3, <1>6, <1>7, <3>1
    <3>2. CASE t.parent[m] # x
      BY Zenon, <1>6, <2>3, <2>4, <3>2
    <3> QED BY <3>1, <3>2
  <2> QED BY <2>4, <2>5, <2>6
<1>13. Paths(u, h, Nil, "left")
  BY <1>2, <1>11, PathsWhole
<1>14. AfterErase(u, Nil, h)
  BY <1>12, <1>13 DEF AfterErase, Loops
<1> QED BY <1>14

(* If a black leaf leaves, a black node is missing on its side of its      *)
(* parent.                                                                 *)
LEMMA RemoveLeafKeepsLoops ==
  ASSUME NEW t, NEW below, Shape(t, below), NEW hb, Paths(t, hb, Nil, "left"),
         RedsOk(t, Nil), NEW n \in In(t), NEW u, NEW p, Removed(t, u, n, Nil, p),
         Inherited(t, u, n, Nil)
  PROVE  \E h : AfterErase(u, Lacking(t, n, Nil, p), h)
<1>1. PICK c \in Side : t.child[Other(c)][n] = Nil /\ t.child[c][n] = Nil
  BY DEF Removed
<1>2. Leaving(t, u, n, Nil, p) /\ u \in Trees /\ t \in Trees
  <2>1. Leaving(t, u, n, Nil, p)
    BY RemoveFacts
  <2> QED BY <2>1 DEF Removed, Shape
<1>3. hb[n] = Bit(t, n)
  <2>1. t.child[Other(c)][n] = Nil
    BY <1>1
  <2>2. PICK x : x = t.child[c][n]
    OBVIOUS
  <2> QED BY <2>1, <2>2, OnlyChild
<1>4. PathsOut(t, hb)
  BY <1>2, PathsWhole
<1>5. \A m \in In(u) : u.black[m] = t.black[m] /\ m \in Node /\ m \in In(t) /\ m # n /\ m # Nil
  <2>1. \A m \in In(u) : m \in Node /\ m \in In(t) /\ m # n /\ m # Nil
    BY <1>2 DEF Leaving
  <2> QED BY Zenon, <2>1 DEF Inherited
<1>6. \A m \in In(u), e \in Side :
        /\ t.child[e][m] \in Node \cup {Nil} /\ (t.child[e][m] = n => m = p)
        /\ u.child[e][m] = IF t.child[e][m] = n THEN Nil ELSE t.child[e][m]
  BY <1>2 DEF Leaving
<1>7. RedsOk(u, Nil)
  <2> SUFFICES ASSUME NEW m \in In(u), ~u.black[m]
               PROVE  m # u.root /\ u.black[u.parent[m]]
    BY DEF RedsOk, RedOk
  <2>1. m \in In(t) /\ ~t.black[m] /\ m # Nil
    BY <1>5
  <2>2. m # t.root /\ t.black[t.parent[m]]
    BY <2>1 DEF RedsOk, RedOk
  <2>3. t.parent[m] \in Node /\ t.parent[m] # n /\ u.parent[m] = t.parent[m]
    BY <1>2, <2>1, <2>2 DEF Leaving
  <2>4. m # u.root
    BY <1>2, <2>1, <2>2 DEF Leaving
  <2>5. u.black[t.parent[m]]
    BY Zenon, <2>2, <2>3, RbTreeConstants DEF Inherited
  <2> QED BY <2>3, <2>4, <2>5
<1>8. \A m \in In(u) : Bit(u, m) = Bit(t, m)
  BY <1>5 DEF Bit
<1>9. CASE hb[n] = 0
  <2>1. ~t.black[n]
    BY <1>3, <1>9 DEF Bit
  <2>2. \A m \in In(u), e \in Side : hb[u.child[e][m]] = hb[t.child[e][m]]
    BY <1>4, <1>6, <1>9 DEF PathsOut
  <2>3. PathsOut(u, hb)
    BY <1>4, <1>5, <1>8, <2>2 DEF PathsOut
  <2>4. Paths(u, hb, Nil, "left")
    BY <1>2, <2>3, PathsWhole
  <2>5. Lacking(t, n, Nil, p) = Nil
    BY <2>1 DEF Lacking
  <2> QED BY <1>7, <2>4, <2>5 DEF AfterErase, Loops
<1>10. CASE hb[n] # 0 /\ p = Nil
  <2>1. n = t.root
    BY <1>10, RemoveKeepsIn
  <2>2. below[t.root] = In(t) /\ n \in Node
    BY <1>2 DEF Shape, Subtrees, Leaving
  <2>3. \A m \in In(t) : m = n
    <3>1. \A m \in below[n] : m = n \/ \E d \in Side : m \in below[t.child[d][n]]
      BY <2>2, BelowParts
    <3>2. \A d \in Side : t.child[d][n] = Nil
      BY <1>1, Sides
    <3>3. below[Nil] = {}
      BY DEF Shape, Subtrees
    <3> QED BY <2>1, <2>2, <3>1, <3>2, <3>3
  <2>4. PathsOut(u, hb)
    BY <1>4, <1>5, <2>3 DEF PathsOut
  <2>5. Paths(u, hb, Nil, "left")
    BY <1>2, <2>4, PathsWhole
  <2>6. Lacking(t, n, Nil, p) = Nil
    BY <1>10 DEF Lacking
  <2> QED BY <1>7, <2>5, <2>6 DEF AfterErase, Loops
<1>11. CASE hb[n] # 0 /\ p # Nil
  <2>1. t.black[n] /\ hb[n] = 1
    BY <1>3, <1>11 DEF Bit
  <2>2. Lacking(t, n, Nil, p) = p
    BY <2>1 DEF Lacking
  <2>3. n # t.root /\ p = t.parent[n] /\ p # n
    <3>1. p # n /\ (p = Nil <=> n = t.root)
      BY RemoveKeepsIn
    <3> QED BY <1>11, <3>1 DEF Removed
  <2>4. p \in In(t) /\ p \in Node /\ \E d \in Side : t.child[d][p] = n
    BY <2>3, ParentFacts
  <2>5. p \in In(u)
    BY <2>3, <2>4, RemoveKeepsIn
  <2>6. PICK d \in Side : t.child[d][p] = n
    BY <2>4
  <2>7. n # Nil /\ Other(d) \in Side /\ Other(d) # d /\ t.child[Other(d)][p] # n
    <3>1. n # Nil
      BY <1>2 DEF Leaving
    <3>2. t.child[d][p] # t.child[Other(d)][p]
      BY <2>4, <2>6, <3>1 DEF Shape, Links
    <3> QED BY <2>6, <3>1, <3>2, Sides
  <2>8. u.child[d][p] = Nil /\ u.child[Other(d)][p] = t.child[Other(d)][p]
    BY <1>6, <2>5, <2>6, <2>7
  <2>9. t.child[Other(d)][p] # Nil
    <3>1. hb[p] = hb[t.child[d][p]] + Bit(t, p) /\ hb[p] = hb[t.child[Other(d)][p]] + Bit(t, p)
          /\ Bit(t, p) \in Nat /\ hb[t.child[Other(d)][p]] \in Nat
      BY <1>4, <2>4, <2>7 DEF PathsOut
    <3>2. hb[t.child[Other(d)][p]] = 1 /\ hb[Nil] = 0
      BY <1>4, <2>1, <2>6, <3>1 DEF PathsOut
    <3> QED BY <3>2
  <2>10. d = (IF Nil # u.child["right"][p] THEN "left" ELSE "right")
    BY <2>6, <2>7, <2>8, <2>9, Sides, LeftRight
  <2>11. ASSUME NEW m \in In(u), NEW e \in Side
         PROVE  hb[m] = hb[u.child[e][m]] + Bit(u, m) + (IF m = p /\ e = d THEN 1 ELSE 0)
    <3>1. hb[m] = hb[t.child[e][m]] + Bit(u, m) /\ Bit(u, m) \in Nat
          /\ hb[t.child[e][m]] \in Nat
      BY <1>4, <1>5, <1>8 DEF PathsOut
    <3>2. CASE m = p /\ e = d
      <4>1. hb[u.child[e][m]] = 0 /\ hb[t.child[e][m]] = 1
        BY <1>4, <2>1, <2>6, <2>8, <3>2 DEF PathsOut
      <4> QED BY <3>1, <3>2, <4>1
    <3>3. CASE ~(m = p /\ e = d)
      <4>1. t.child[e][m] # n
        <5>1. m # p => t.child[e][m] # n
          BY <1>6
        <5>2. e # d => e = Other(d)
          BY Sides
        <5> QED BY <2>7, <3>3, <5>1, <5>2
      <4>2. u.child[e][m] = t.child[e][m]
        BY <1>6, <4>1
      <4> QED BY <3>1, <3>3, <4>2
    <3> QED BY <3>2, <3>3
  <2>12. Paths(u, hb, p, d)
    BY <1>4, <2>11 DEF Paths, PathsOut
  <2>13. Missing(u, Nil, p, hb)
    BY <2>8, <2>10, <2>12 DEF Missing
  <2>14. p # Nil
    BY <1>11
  <2> QED BY <1>7, <2>2, <2>5, <2>13, <2>14 DEF AfterErase, Loops
<1> QED BY <1>9, <1>10, <1>11

(* In either case the loop starts with what it needs.                      *)
LEMMA RemoveKeepsLoops ==
  ASSUME NEW t, NEW below, Shape(t, below), NEW hb, Paths(t, hb, Nil, "left"),
         RedsOk(t, Nil), NEW n \in In(t), NEW u, NEW x, NEW p, Removed(t, u, n, x, p),
         Inherited(t, u, n, x)
  PROVE  \E h : AfterErase(u, Lacking(t, n, x, p), h)
<1>1. CASE x = Nil
  <2>1. Removed(t, u, n, Nil, p) /\ Inherited(t, u, n, Nil)
    BY <1>1
  <2>2. \E h : AfterErase(u, Lacking(t, n, Nil, p), h)
    BY <2>1, RemoveLeafKeepsLoops
  <2> QED BY <1>1, <2>2
<1>2. CASE x # Nil
  <2>1. \E h : AfterErase(u, Nil, h)
    BY <1>2, RemoveChildKeepsLoops
  <2>2. Lacking(t, n, x, p) = Nil
    BY <1>2 DEF Lacking
  <2> QED BY <2>1, <2>2
<1> QED BY <1>1, <1>2

(* Nodes that change places change colours with them.                      *)
SwappedBlack(v, u, r) == \A m \in In(u) : u.black[m] = v.black[r[m]]

(* Then what is missing is missing under the new names.                    *)
LEMMA SwapKeepsLoops ==
  ASSUME NEW v, NEW below, Shape(v, below), NEW u, NEW r, Involution(r), Swapped(v, u, r),
         IsFiniteSet(In(u)), SwappedBlack(v, u, r), NEW lack, NEW h, AfterErase(v, lack, h)
  PROVE  \E H : AfterErase(u, r[lack], H)
<1>1. /\ v \in Trees /\ u \in Trees /\ u.root = r[v.root]
      /\ \A e \in Side, m \in Node : u.child[e][m] = r[v.child[e][r[m]]]
      /\ \A m \in Node : u.parent[m] = r[v.parent[r[m]]]
      /\ \A e \in Side, m \in Node : v.child[e][m] \in Node \cup {Nil}
      /\ v.root \in Node \cup {Nil}
  BY DEF Swapped, Shape, Trees
<1>2. /\ r[Nil] = Nil /\ \A x \in Node \cup {Nil} : r[r[x]] = x /\ r[x] \in Node \cup {Nil}
      /\ \A x \in Node : r[x] \in Node /\ r[x] # Nil
  BY RbTreeConstants DEF Involution
<1>3. \A m \in Node : m \in In(u) <=> r[m] \in In(v)
  BY SwapKeepsShape
<1>4. \A m \in In(u) : Bit(u, m) = Bit(v, r[m]) /\ u.black[m] = v.black[r[m]]
  BY DEF Bit, SwappedBlack
<1>5. RedsOk(v, Nil)
  BY DEF AfterErase, Loops
<1>6. RedsOk(u, Nil)
  <2> SUFFICES ASSUME NEW m \in In(u), ~u.black[m]
               PROVE  m # u.root /\ u.black[u.parent[m]]
    BY DEF RedsOk, RedOk
  <2>1. m \in Node /\ r[m] \in In(v) /\ r[m] \in Node /\ r[m] # Nil /\ ~v.black[r[m]]
    BY <1>2, <1>3, <1>4, InNode
  <2>2. r[m] # v.root /\ v.black[v.parent[r[m]]]
    BY <1>5, <2>1 DEF RedsOk, RedOk
  <2>3. v.parent[r[m]] \in Node /\ v.parent[r[m]] \in In(v)
    BY <2>1, <2>2, ParentFacts
  <2>4. m # u.root
    BY <1>1, <1>2, <2>1, <2>2
  <2>5. u.parent[m] = r[v.parent[r[m]]] /\ r[v.parent[r[m]]] \in Node
        /\ r[r[v.parent[r[m]]]] = v.parent[r[m]]
    BY <1>1, <1>2, <2>1, <2>3
  <2>6. u.black[u.parent[m]]
    <3>1. r[v.parent[r[m]]] \in In(u)
      BY <1>3, <2>3, <2>5
    <3> QED BY <1>4, <2>2, <2>5, <3>1
  <2> QED BY <2>4, <2>6
<1>7. PICK H : H = [m \in Node \cup {Nil} |-> h[r[m]]]
  BY Zenon
<1>8. ASSUME NEW q \in Node \cup {Nil}, NEW e, Paths(v, h, q, e) PROVE Paths(u, H, r[q], e)
  <2>1. /\ h \in [Node \cup {Nil} -> Nat] /\ h[Nil] = 0
        /\ \A n \in In(v), c \in Side :
             h[n] = h[v.child[c][n]] + Bit(v, n) + (IF n = q /\ c = e THEN 1 ELSE 0)
    BY <1>8 DEF Paths
  <2>2. H \in [Node \cup {Nil} -> Nat] /\ H[Nil] = 0
    BY <1>2, <1>7, <2>1
  <2>3. ASSUME NEW m \in In(u), NEW c \in Side
        PROVE  H[m] = H[u.child[c][m]] + Bit(u, m) + (IF m = r[q] /\ c = e THEN 1 ELSE 0)
    <3>1. m \in Node /\ r[m] \in In(v) /\ r[m] \in Node
      BY <1>2, <1>3, InNode
    <3>2. h[r[m]] = h[v.child[c][r[m]]] + Bit(v, r[m]) + (IF r[m] = q /\ c = e THEN 1 ELSE 0)
      BY <2>1, <3>1
    <3>3. u.child[c][m] = r[v.child[c][r[m]]] /\ v.child[c][r[m]] \in Node \cup {Nil}
      BY <1>1, <3>1
    <3>4. H[u.child[c][m]] = h[v.child[c][r[m]]] /\ H[m] = h[r[m]]
      BY Zenon, <1>2, <1>7, <3>1, <3>3
    <3>5. Bit(u, m) = Bit(v, r[m])
      BY <1>4, <3>1
    <3>6. (IF m = r[q] /\ c = e THEN 1 ELSE 0) = (IF r[m] = q /\ c = e THEN 1 ELSE 0)
      BY <1>2, <3>1
    <3> QED BY <3>2, <3>4, <3>5, <3>6
  <2> QED BY <2>2, <2>3 DEF Paths
<1>9. CASE lack = Nil
  <2>1. Paths(v, h, Nil, "left")
    BY <1>9 DEF AfterErase, Loops
  <2>2. Paths(u, H, Nil, "left")
    <3>1. Paths(u, H, r[Nil], "left")
      BY <1>8, <2>1
    <3> QED BY <1>2, <3>1
  <2>3. AfterErase(u, Nil, H)
    BY <1>6, <2>2 DEF AfterErase, Loops
  <2> QED BY <1>2, <1>9, <2>3
<1>10. CASE lack # Nil
  <2>1. lack \in In(v) /\ Missing(v, Nil, lack, h)
    BY SMTT(30), <1>10 DEF AfterErase, Loops
  <2>2. PICK d \in Side : /\ d = (IF Nil # v.child["right"][lack] THEN "left" ELSE "right")
                          /\ Nil = v.child[d][lack] /\ Paths(v, h, lack, d)
    BY <2>1 DEF Missing
  <2>3. lack \in Node
    BY <2>1, InNode
  <2>4. PICK q : q = r[lack]
    OBVIOUS
  <2>5. q \in Node /\ q # Nil /\ r[q] = lack /\ q \in In(u)
    BY <1>2, <1>3, <2>1, <2>3, <2>4
  <2>6. \A e \in Side : u.child[e][q] = Nil <=> v.child[e][lack] = Nil
    <3> SUFFICES ASSUME NEW e \in Side PROVE u.child[e][q] = Nil <=> v.child[e][lack] = Nil
      OBVIOUS
    <3>1. u.child[e][q] = r[v.child[e][lack]] /\ v.child[e][lack] \in Node \cup {Nil}
      BY SMTT(30), <1>1, <2>3, <2>5
    <3> QED BY <1>2, <3>1
  <2>7. d = (IF Nil # u.child["right"][q] THEN "left" ELSE "right")
    BY <2>2, <2>6, LeftRight
  <2>8. Paths(u, H, q, d)
    BY Zenon, <1>8, <2>2, <2>3, <2>4
  <2>9. Missing(u, Nil, q, H)
    BY <2>2, <2>6, <2>7, <2>8 DEF Missing
  <2>10. AfterErase(u, q, H)
    BY <1>6, <2>5, <2>9 DEF AfterErase, Loops
  <2> QED BY <2>4, <2>10
<1> QED BY <1>9, <1>10

-----------------------------------------------------------------------------
(* Erasing a node with at most one child                                   *)

(* The node that was erased has no links, and first is the first node.     *)
Unlinked(t, u, n, first) ==
  /\ u \in Trees /\ u.root = t.root /\ u.leftmost = first
  /\ \A e \in Side, m \in Node : u.child[e][m] = IF m = n THEN Nil ELSE t.child[e][m]
  /\ \A m \in Node : u.parent[m] = IF m = n THEN Nil ELSE t.parent[m]
  /\ \A m \in Node : u.black[m] = IF m = n THEN FALSE ELSE t.black[m]
  /\ \A m \in Node : u.last[m] = IF m = n THEN 0 ELSE t.last[m]

(* RB_CLEAR_NODE, and the cached first node.                               *)
LEMMA UnlinkFields ==
  ASSUME NEW t \in Trees, NEW n \in Node, NEW first \in Node \cup {Nil}
  PROVE  Unlinked(t, [Unlink(t, n) EXCEPT !.leftmost = first], n, first)
<1>1. PICK u : u = [Unlink(t, n) EXCEPT !.leftmost = first]
  BY Zenon
<1>2. u = [root |-> t.root, leftmost |-> first,
           child |-> [e \in Side |-> [t.child[e] EXCEPT ![n] = Nil]],
           parent |-> [t.parent EXCEPT ![n] = Nil],
           black |-> [t.black EXCEPT ![n] = FALSE], last |-> [t.last EXCEPT ![n] = 0]]
  BY Zenon, <1>1 DEF Unlink, Trees
<1>3. u.child \in [Side -> [Node -> Node \cup {Nil}]]
      /\ \A e \in Side, m \in Node : u.child[e][m] = IF m = n THEN Nil ELSE t.child[e][m]
  BY <1>2 DEF Trees
<1>4. u.parent \in [Node -> Node \cup {Nil}]
      /\ \A m \in Node : u.parent[m] = IF m = n THEN Nil ELSE t.parent[m]
  BY <1>2 DEF Trees
<1>5. u.black \in [Node -> BOOLEAN]
      /\ \A m \in Node : u.black[m] = IF m = n THEN FALSE ELSE t.black[m]
  BY Zenon, <1>2 DEF Trees
<1>6. u.last \in [Node -> Int]
      /\ \A m \in Node : u.last[m] = IF m = n THEN 0 ELSE t.last[m]
  BY <1>2 DEF Trees
<1>7. u \in Trees /\ u.root = t.root /\ u.leftmost = first
  BY <1>2, <1>3, <1>4, <1>5, <1>6 DEF Trees
<1>8. Unlinked(t, u, n, first)
  BY Zenon, <1>3, <1>4, <1>5, <1>6, <1>7 DEF Unlinked
<1> QED BY <1>1, <1>8

(* Walks up pass over a node that was taken out.                           *)
PassedOver(t, u, n, x, p) ==
  /\ n \in Node /\ p = t.parent[n] /\ (x # Nil => t.parent[x] = n)
  /\ u.parent \in [Node -> Node \cup {Nil}]
  /\ \A m \in Node : u.parent[m] = IF m = x THEN p ELSE t.parent[m]

(* They come to their end as before.                                       *)
LEMMA UpwardsAround ==
  ASSUME NEW t, NEW below, Shape(t, below), NEW u, NEW n, NEW x, NEW p,
         PassedOver(t, u, n, x, p), NEW stop
  PROVE  UpwardsIs(u, stop)
<1>0. /\ n \in Node /\ p = t.parent[n] /\ (x # Nil => t.parent[x] = n)
      /\ u.parent \in [Node -> Node \cup {Nil}]
      /\ \A m \in Node : u.parent[m] = IF m = x THEN p ELSE t.parent[m]
  BY DEF PassedOver
<1>1. PICK rank : rank = Deep(t, below)
  OBVIOUS
<1>2. PICK N \in Nat : /\ rank \in [Node \cup {Nil} -> 0..N]
                       /\ \A m \in Node : rank[t.parent[m]] < rank[m]
  BY <1>1, DeepRanks
<1>3. \A m \in Node : t.parent[m] \in Node \cup {Nil} /\ m # Nil
  BY RbTreeConstants DEF Shape, Trees
<1>4. \A m \in Node \cup {Nil} : rank[m] \in Nat
  BY <1>2
<1>5. ASSUME NEW m \in Node PROVE rank[u.parent[m]] < rank[m]
  <2>1. CASE m = x
    <3>1. t.parent[m] = n /\ u.parent[m] = p
      BY <1>0, <1>3, <2>1
    <3>2. rank[p] < rank[n] /\ rank[n] < rank[m] /\ rank[p] \in Nat /\ rank[n] \in Nat
          /\ rank[m] \in Nat
      BY <1>0, <1>2, <1>3, <1>4, <3>1
    <3> QED BY <3>1, <3>2
  <2>2. CASE m # x
    BY <1>0, <1>2, <2>2
  <2> QED BY <2>1, <2>2
<1>6. Ranked(u, stop, N, rank)
  BY <1>0, <1>2, <1>5 DEF Ranked
<1> QED BY <1>6, UpwardsSteps

(* Bypassed(t, u, n, x, p): x has taken the place and the colour of n.     *)
Bypassed(t, u, n, x, p) ==
  /\ u \in Trees /\ u.root = (IF n = t.root THEN x ELSE t.root) /\ u.last = t.last
  /\ \A e \in Side, m \in Node :
       m # n => u.child[e][m] = IF t.child[e][m] = n THEN x ELSE t.child[e][m]
  /\ \A m \in Node : u.parent[m] = IF m = x THEN p ELSE t.parent[m]
  /\ \A m \in Node : u.black[m] = IF m = x THEN t.black[n] ELSE t.black[m]

(* On which side of its parent a node is.                                  *)
LEMMA PlaceOfChild ==
  ASSUME NEW t, NEW below, Shape(t, below), NEW n \in In(t), NEW p, p = t.parent[n]
  PROVE  /\ p = Nil <=> n = t.root
         /\ \A e \in Side, m \in Node :
              t.child[e][m] = n <=>
                m = p /\ e = (IF t.child["left"][p] = n THEN "left" ELSE "right")
<1>1. n \in Node /\ n # Nil
  BY InNode
<1>2. p = Nil <=> n = t.root
  BY <1>1, RbTreeConstants DEF Shape, Links, In
<1>3. ASSUME NEW e \in Side, NEW m \in Node
      PROVE  t.child[e][m] = n <=>
               m = p /\ e = (IF t.child["left"][p] = n THEN "left" ELSE "right")
  <2>1. t.child[e][m] = n => m = p
    BY <1>1 DEF Shape, Links
  <2>2. CASE m # p
    BY <2>1, <2>2
  <2>3. CASE m = p
    <3>1. n # t.root
      BY <1>2, <2>3, RbTreeConstants
    <3>2. \E d \in Side : t.child[d][p] = n
      BY <3>1, ParentFacts
    <3>3. t.child["left"][p] = n \/ t.child["right"][p] = n
      BY <3>2, Sides
    <3>4. ~(t.child["left"][p] = n /\ t.child["right"][p] = n)
      <4>1. \A d \in Side : t.child[d][p] # Nil => t.child[d][p] # t.child[Other(d)][p]
        BY <2>3 DEF Shape, Links
      <4> QED BY <1>1, <4>1, LeftRight
    <3> QED BY <2>3, <3>3, <3>4, Sides
  <2> QED BY <2>2, <2>3
<1> QED BY <1>2, <1>3

(* So the pointer that __rb_change_child sets is the one to n.             *)
LEMMA ChangeOfChild ==
  ASSUME NEW t, NEW below, Shape(t, below), NEW n \in In(t), NEW x \in Node \cup {Nil},
         NEW p, p = t.parent[n], NEW u, ChildChanged(t, u, n, x, p)
  PROVE  /\ u.root = (IF n = t.root THEN x ELSE t.root)
         /\ \A e \in Side, m \in Node :
              u.child[e][m] = IF t.child[e][m] = n THEN x ELSE t.child[e][m]
<1>1. /\ p = Nil <=> n = t.root
      /\ \A e \in Side, m \in Node :
           t.child[e][m] = n <=>
             m = p /\ e = (IF t.child["left"][p] = n THEN "left" ELSE "right")
  BY PlaceOfChild
<1> QED BY <1>1 DEF ChildChanged

(* Cases 1 of __rb_erase_augmented, with no child or one.                  *)
LEMMA BypassFields ==
  ASSUME NEW t, NEW below, Shape(t, below), NEW n \in In(t), NEW x \in Node \cup {Nil},
         NEW p, p = t.parent[n], NEW v, v = SetParent(ChangeChild(t, n, x, p), x, p),
         NEW u, u = (IF x = Nil THEN v ELSE [v EXCEPT !.black[x] = t.black[n]])
  PROVE  Bypassed(t, u, n, x, p)
<1>1. t \in Trees /\ n \in Node /\ p \in Node \cup {Nil}
  BY InNode DEF Shape, Trees
<1>2. PICK w : w = ChangeChild(t, n, x, p)
  OBVIOUS
<1>3. ChildChanged(t, w, n, x, p)
  BY <1>1, <1>2, ChangeChildFields
<1>4. /\ w.root = (IF n = t.root THEN x ELSE t.root)
      /\ \A e \in Side, m \in Node :
           w.child[e][m] = IF t.child[e][m] = n THEN x ELSE t.child[e][m]
  BY <1>3, ChangeOfChild
<1>5. w \in Trees /\ w.parent = t.parent /\ w.black = t.black /\ w.last = t.last
  BY <1>3 DEF ChildChanged
<1>6. ParentSet(w, v, x, p)
  BY <1>1, <1>2, <1>5, SetParentFields
<1>7. /\ v \in Trees /\ v.root = w.root /\ v.child = w.child /\ v.black = t.black
      /\ v.last = t.last
      /\ \A m \in Node : v.parent[m] = IF m = x THEN p ELSE t.parent[m]
  BY <1>5, <1>6 DEF ParentSet
<1>8. CASE x = Nil
  <2>1. \A m \in Node : m # x
    BY <1>8, RbTreeConstants
  <2> QED BY <1>4, <1>7, <1>8, <2>1 DEF Bypassed
<1>9. CASE x # Nil
  <2>1. u = [root |-> v.root, leftmost |-> v.leftmost, child |-> v.child, parent |-> v.parent,
             black |-> [v.black EXCEPT ![x] = t.black[n]], last |-> v.last]
    BY <1>7, <1>9 DEF Trees
  <2>2. x \in Node /\ t.black[n] \in BOOLEAN
    BY <1>1, <1>9, BitType
  <2>3. u.black \in [Node -> BOOLEAN]
        /\ \A m \in Node : u.black[m] = IF m = x THEN t.black[n] ELSE t.black[m]
    BY SMTT(30), <1>1, <1>7, <2>1, <2>2 DEF Trees
  <2>4. u \in Trees
    BY <1>7, <2>3 DEF Trees
  <2>5. u.root = v.root /\ u.child = v.child /\ u.parent = v.parent /\ u.last = v.last
    BY <2>1
  <2>6. /\ u.root = (IF n = t.root THEN x ELSE t.root)
        /\ \A e \in Side, m \in Node :
             u.child[e][m] = IF t.child[e][m] = n THEN x ELSE t.child[e][m]
    <3>1. u.child = w.child /\ u.root = w.root
      BY Zenon, <1>7, <2>5
    <3> QED BY <1>4, <3>1
  <2>7. \A m \in Node : u.parent[m] = IF m = x THEN p ELSE t.parent[m]
    BY Zenon, <1>7, <2>5
  <2>8. u.last = t.last
    BY Zenon, <1>7, <2>5
  <2> QED BY Zenon, <1>9, <2>3, <2>4, <2>6, <2>7, <2>8 DEF Bypassed
<1> QED BY <1>8, <1>9

(* The tree w in which x has taken the place of n, before propagate.       *)
OuterLeft(n, w, x, p) ==
  /\ Bypassed(tree, w, n, x, p) /\ UpwardsIs(w, Nil) /\ p = tree.parent[n]
  /\ x \in Node \cup {Nil} /\ p \in Node \cup {Nil} /\ (x # Nil => tree.parent[x] = n)
  /\ \E c \in Side : tree.child[Other(c)][n] = Nil /\ x = tree.child[c][n]
  /\ EraseOuter(n) = [tree |-> Propagate(w, p, Nil),
                      rebalance |-> IF x = Nil /\ tree.black[n] THEN p ELSE Nil]

(* With no child or one, the child takes the place of the node.            *)
LEMMA EraseOuterSteps ==
  ASSUME NEW below, Shape(tree, below), NEW n \in In(tree), NEW d \in Side,
         tree.child[d][n] = Nil
  PROVE  \E w, x, p : OuterLeft(n, w, x, p)
<1>1. n \in Node /\ n # Nil /\ tree \in Trees
  BY InNode DEF Shape
<1>2. PICK x, p : /\ p = tree.parent[n]
                  /\ x = IF tree.child["left"][n] = Nil THEN tree.child["right"][n]
                                                        ELSE tree.child["left"][n]
  OBVIOUS
<1>3. \E c \in Side : tree.child[Other(c)][n] = Nil /\ x = tree.child[c][n]
  BY <1>2, Sides, LeftRight
<1>4. x \in Node \cup {Nil} /\ p \in Node \cup {Nil}
  BY <1>1, <1>2, <1>3 DEF Trees
<1>5. PICK v : v = SetParent(ChangeChild(tree, n, x, p), x, p)
  OBVIOUS
<1>6. PICK w : w = IF x = Nil THEN v ELSE [v EXCEPT !.black[x] = tree.black[n]]
  BY Zenon
<1>7. EraseOuter(n) = [tree |-> Propagate(w, p, Nil),
                       rebalance |-> IF x = Nil /\ tree.black[n] THEN p ELSE Nil]
  BY ZenonT(40), <1>2, <1>5, <1>6 DEF EraseOuter
<1>8. Bypassed(tree, w, n, x, p)
  BY Zenon, <1>2, <1>4, <1>5, <1>6, BypassFields
<1>9. x # Nil => tree.parent[x] = n
  BY <1>1, <1>3, ChildFacts
<1>10. UpwardsIs(w, Nil)
  <2>1. \A m \in Node : w.parent[m] = IF m = x THEN p ELSE tree.parent[m]
    BY <1>8 DEF Bypassed
  <2>2. w \in Trees
    BY <1>8 DEF Bypassed
  <2>3. w.parent \in [Node -> Node \cup {Nil}]
    BY <2>2 DEF Trees
  <2>4. PassedOver(tree, w, n, x, p)
    BY <1>1, <1>2, <1>9, <2>1, <2>3 DEF PassedOver
  <2> QED BY <2>4, UpwardsAround
<1>11. OuterLeft(n, w, x, p)
  BY Zenon, <1>2, <1>3, <1>4, <1>7, <1>8, <1>9, <1>10 DEF OuterLeft
<1> QED BY <1>11

(* With no child or one, the node is removed and its child inherits its    *)
(* colour.                                                                 *)
LEMMA EraseOuterFields ==
  ASSUME NEW below, Shape(tree, below), NEW n \in In(tree), NEW d \in Side,
         tree.child[d][n] = Nil, NEW first \in Node \cup {Nil},
         NEW u, u = [Unlink(EraseOuter(n).tree, n) EXCEPT !.leftmost = first]
  PROVE  \E x, p : /\ Removed(tree, u, n, x, p) /\ Inherited(tree, u, n, x)
                   /\ u.leftmost = first /\ EraseOuter(n).rebalance = Lacking(tree, n, x, p)
<1>1. n \in Node /\ n # Nil /\ tree \in Trees
  BY InNode DEF Shape
<1>2. PICK w, x, p : OuterLeft(n, w, x, p)
  BY EraseOuterSteps
<1>3. /\ p = tree.parent[n] /\ x \in Node \cup {Nil} /\ p \in Node \cup {Nil}
      /\ \E c \in Side : tree.child[Other(c)][n] = Nil /\ x = tree.child[c][n]
      /\ Bypassed(tree, w, n, x, p) /\ UpwardsIs(w, Nil)
  BY Zenon, <1>2 DEF OuterLeft
<1>7. EraseOuter(n) = [tree |-> Propagate(w, p, Nil),
                       rebalance |-> IF x = Nil /\ tree.black[n] THEN p ELSE Nil]
  BY Zenon, <1>2 DEF OuterLeft
<1>11. PICK z : z = Propagate(w, p, Nil)
  OBVIOUS
<1>12. OnlyLast(w, z)
  <2>1. w \in Trees
    BY <1>3 DEF Bypassed
  <2> QED BY <1>3, <1>11, <2>1, PropagateFields
<1>13. z \in Trees
  BY <1>12 DEF OnlyLast
<1>14. Unlinked(z, u, n, first)
  BY <1>1, <1>7, <1>11, <1>13, UnlinkFields
<1>15. u \in Trees /\ u.root = (IF n = tree.root THEN x ELSE tree.root)
  BY <1>3, <1>12, <1>14 DEF Unlinked, OnlyLast, Bypassed
<1>16. ASSUME NEW e \in Side, NEW m \in Node
       PROVE  u.child[e][m] = IF m = n THEN Nil
                              ELSE IF tree.child[e][m] = n THEN x ELSE tree.child[e][m]
  BY <1>3, <1>12, <1>14 DEF Unlinked, OnlyLast, Bypassed
<1>17. ASSUME NEW m \in Node
       PROVE  /\ u.parent[m] = IF m = n THEN Nil ELSE IF m = x THEN p ELSE tree.parent[m]
              /\ u.black[m] = IF m = n THEN FALSE ELSE IF m = x THEN tree.black[n]
                                                       ELSE tree.black[m]
  <2>1. /\ u.parent[m] = IF m = n THEN Nil ELSE z.parent[m]
        /\ u.black[m] = IF m = n THEN FALSE ELSE z.black[m]
    BY Zenon, <1>14 DEF Unlinked
  <2>2. z.parent = w.parent /\ z.black = w.black
    BY <1>12 DEF OnlyLast
  <2>3. /\ w.parent[m] = IF m = x THEN p ELSE tree.parent[m]
        /\ w.black[m] = IF m = x THEN tree.black[n] ELSE tree.black[m]
    BY <1>3 DEF Bypassed
  <2> QED BY Zenon, <2>1, <2>2, <2>3
<1>18. Removed(tree, u, n, x, p)
  BY Zenon, <1>3, <1>15, <1>16, <1>17 DEF Removed
<1>19. Inherited(tree, u, n, x)
  BY Zenon, <1>17 DEF Inherited
<1>20. EraseOuter(n).rebalance = Lacking(tree, n, x, p)
  BY <1>7 DEF Lacking
<1>21. u.leftmost = first
  BY <1>14 DEF Unlinked
<1> QED BY <1>18, <1>19, <1>20, <1>21

(* The node after the first one.                                           *)
LEMMA NextOfFirst ==
  ASSUME NEW t, NEW below, Shape(t, below), NEW n \in In(t)
  PROVE  /\ Neighbour(t, n, "right") \in Node \cup {Nil}
         /\ FirstIs(t, below, n) =>
              /\ t.child["right"][n] = Nil => Neighbour(t, n, "right") = t.parent[n]
              /\ t.child["right"][n] # Nil =>
                   OuterIs(t, below, t.child["right"][n], "left", Neighbour(t, n, "right"))
<1>1. n \in Node /\ n # Nil /\ t \in Trees /\ Node # {}
  BY InNode DEF Shape
<1>2. PICK up : UpIs(t, "right", up)
  BY <1>1, LeftRight, NeighbourSteps
<1>3. /\ up \in [Node -> Node \cup {Nil}]
      /\ up[n] = IF t.parent[n] # Nil /\ n = t.child["right"][t.parent[n]]
                 THEN up[t.parent[n]] ELSE t.parent[n]
      /\ Neighbour(t, n, "right") = IF t.child["right"][n] # Nil
                                    THEN Outermost(t, t.child["right"][n], "left") ELSE up[n]
  BY <1>1, <1>2, LeftRight DEF UpIs
<1>4. CASE t.child["right"][n] # Nil
  <2>1. PICK c : c = t.child["right"][n]
    OBVIOUS
  <2>2. c \in In(t)
    BY <1>1, <1>4, <2>1, LeftRight, ChildFacts
  <2>3. OuterIs(t, below, c, "left", Outermost(t, c, "left"))
    BY <2>2, LeftRight, OutermostIs
  <2>4. Outermost(t, c, "left") \in Node
    BY <2>2, InNode, LeftRight, OutermostSteps
  <2> QED BY <1>3, <1>4, <2>1, <2>3, <2>4
<1>5. CASE t.child["right"][n] = Nil
  <2>1. Neighbour(t, n, "right") = up[n]
    BY <1>3, <1>5
  <2>2. up[n] \in Node \cup {Nil}
    BY <1>1, <1>3
  <2>3. ASSUME FirstIs(t, below, n), t.parent[n] # Nil PROVE n # t.child["right"][t.parent[n]]
    <3>1. t.parent[n] \in Node
      BY <1>1, <2>3 DEF Trees
    <3>2. n \notin below[t.child["right"][t.parent[n]]]
      BY <1>1, <2>3, <3>1, RbTreeConstants DEF FirstIs, Shape, Trees, In
    <3>3. n \in below[n]
      BY <1>1, BelowParts
    <3> QED BY <3>2, <3>3
  <2> QED BY <1>3, <1>5, <2>1, <2>2, <2>3
<1> QED BY <1>4, <1>5

(* What is left without n.                                                 *)
Lessened(t, below, u, B, n) ==
  /\ Shape(u, B) /\ \A m \in Node : m \in In(u) <=> m \in In(t) /\ m # n
  /\ FirstIs(t, below, t.leftmost) => FirstIs(u, B, u.leftmost)
  /\ \A R : Transitive(R) /\ Ordered(t, below, R) => Ordered(u, B, R)

(* What an erasure has to show.                                            *)
Erased(below, n) ==
  \E B, h : Lessened(tree, below, tree', B, n) /\ Loops(tree', pc', node', parent', h)

(* How the loops begin after an erasure.                                   *)
EraseBegins(lack) == IF lack = Nil THEN Idle ELSE Fixup("erase", Nil, lack)

(* The loop starts, or does not, as the parent of the missing node says.   *)
LEMMA EraseLoops ==
  ASSUME NEW u, u = tree', NEW lack, EraseBegins(lack), NEW h, AfterErase(u, lack, h)
  PROVE  Loops(tree', pc', node', parent', h)
<1>1. pc' = (IF lack = Nil THEN "idle" ELSE "erase") /\ node' = Nil /\ parent' = lack
  BY DEF EraseBegins, Idle, Fixup
<1> QED BY <1>1 DEF AfterErase

(* The new first node is a node or Nil.                                    *)
LEMMA LeftmostType ==
  ASSUME NEW below, Shape(tree, below), NEW n \in In(tree)
  PROVE  LeftmostWithout(n) \in Node \cup {Nil}
<1>1. Neighbour(tree, n, "right") \in Node \cup {Nil}
  BY NextOfFirst
<1>2. tree.leftmost \in Node \cup {Nil}
  BY DEF Shape, Trees
<1> QED BY <1>1, <1>2 DEF LeftmostWithout

(* An erasure of a node with at most one child.                            *)
LEMMA EraseOuterKeeps ==
  ASSUME NEW below, Shape(tree, below), NEW hb, Loops(tree, pc, node, parent, hb),
         NEW n \in Node, Erase(n), NEW d \in Side, tree.child[d][n] = Nil
  PROVE  Erased(below, n)
<1>1. pc = "idle" /\ n \in In(tree)
  BY RbTreeConstants DEF Erase, InTree, In, Shape, Trees
<1>2. PICK u : u = tree'
  OBVIOUS
<1>3. PICK first : first = LeftmostWithout(n)
  OBVIOUS
<1>4. /\ u = [Unlink(EraseOuter(n).tree, n) EXCEPT !.leftmost = first]
      /\ EraseBegins(EraseOuter(n).rebalance)
  BY <1>2, <1>3 DEF Erase, EraseBegins
<1>5. first \in Node \cup {Nil}
  BY <1>1, <1>3, LeftmostType
<1>6. PICK x, p : /\ Removed(tree, u, n, x, p) /\ Inherited(tree, u, n, x)
                  /\ u.leftmost = first /\ EraseOuter(n).rebalance = Lacking(tree, n, x, p)
  BY <1>1, <1>4, <1>5, EraseOuterFields
<1>7. Paths(tree, hb, Nil, "left") /\ RedsOk(tree, Nil)
  BY <1>1 DEF Loops
<1>8. PICK h : AfterErase(u, Lacking(tree, n, x, p), h)
  BY <1>1, <1>6, <1>7, RemoveKeepsLoops
<1>9. Loops(tree', pc', node', parent', h)
  BY <1>2, <1>4, <1>6, <1>8, EraseLoops
<1>10. PICK B : B = RemovedBelow(below, n)
  OBVIOUS
<1>11. Shape(u, B)
  BY <1>1, <1>6, <1>10, RemoveKeepsShape
<1>12. \A m \in Node : m \in In(u) <=> m \in In(tree) /\ m # n
  BY <1>1, <1>6, RemoveKeepsIn
<1>13. \A R : Transitive(R) /\ Ordered(tree, below, R) => Ordered(u, B, R)
  BY <1>1, <1>6, <1>10, RemoveKeepsOrder
<1>14. ASSUME FirstIs(tree, below, tree.leftmost) PROVE FirstIs(u, B, u.leftmost)
  <2>1. CASE tree.leftmost # n
    <3>1. first = tree.leftmost
      BY <1>3, <2>1 DEF LeftmostWithout
    <3>2. PICK f : f = tree.leftmost
      OBVIOUS
    <3>3. FirstIs(tree, below, f) /\ f # n /\ u.leftmost = f
      BY <1>6, <1>14, <2>1, <3>1, <3>2
    <3>4. FirstIs(u, RemovedBelow(below, n), f)
      BY <1>1, <1>6, <3>3, RemoveKeepsFirst
    <3> QED BY <1>10, <3>3, <3>4
  <2>2. CASE tree.leftmost = n
    <3>1. first = Neighbour(tree, n, "right") /\ FirstIs(tree, below, n)
      BY <1>3, <1>14, <2>2 DEF LeftmostWithout
    <3>2. tree.child["left"][n] = Nil
      BY <1>1, <3>1, RbTreeConstants DEF FirstIs, In, Shape, Links
    <3>3. x = tree.child["right"][n] /\ p = tree.parent[n]
      <4>1. \E e \in Side : tree.child[Other(e)][n] = Nil /\ x = tree.child[e][n]
        BY <1>6 DEF Removed
      <4> QED BY <1>6, <3>2, <4>1, Sides, LeftRight DEF Removed
    <3>4. x = Nil => first = p
      BY Zenon, <1>1, <3>1, <3>3, NextOfFirst
    <3>5. x # Nil => OuterIs(tree, below, x, "left", first)
      BY <1>1, <3>1, <3>3, NextOfFirst
    <3>6. FirstIs(u, RemovedBelow(below, n), first)
      BY <1>1, <1>6, <3>1, <3>4, <3>5, RemoveLeftmost
    <3> QED BY <1>6, <1>10, <3>6
  <2> QED BY <2>1, <2>2
<1>15. Lessened(tree, below, tree', B, n)
  BY <1>2, <1>11, <1>12, <1>13, <1>14 DEF Lessened
<1> QED BY <1>9, <1>15 DEF Erased

-----------------------------------------------------------------------------
(* Erasing a node with two children                                        *)

(* The leftmost node of a subtree comes before all others of it.           *)
LEMMA LeftmostPrecedes ==
  ASSUME NEW t, NEW below, Shape(t, below), NEW c \in In(t), NEW w,
         OuterIs(t, below, c, "left", w), NEW R, Transitive(R), Ordered(t, below, R)
  PROVE  \A k \in below[c] : k # w => <<w, k>> \in R
<1>1. PICK B : B = {m \in below[c] : w \in below[m] /\ \E k \in below[m] : k # w /\ <<w, k>> \notin R}
  BY Zenon
<1>2. /\ c \in Node /\ w \in below[c] /\ t.child["left"][w] = Nil
      /\ \A m \in below[c] : w \notin below[t.child["right"][m]]
  BY InNode, LeftRight DEF OuterIs
<1>3. \A m \in below[c] : m \in Node /\ m \in In(t)
  BY <1>2, BelowIn
<1>4. ASSUME B # {} PROVE FALSE
  <2>1. B \subseteq In(t)
    BY <1>1, <1>3
  <2>2. PICK m \in B : \A d \in Side : t.child[d][m] \notin B
    BY <1>4, <2>1, LowestOf
  <2>3. m \in below[c] /\ m \in Node /\ w \in below[m]
    BY <1>1, <1>3, <2>2
  <2>4. PICK k \in below[m] : k # w /\ <<w, k>> \notin R
    BY <1>1, <2>2
  <2>5. /\ below[Nil] = {}
        /\ \A j \in below[m] : j = m \/ j \in below[t.child["left"][m]]
                                     \/ j \in below[t.child["right"][m]]
    BY <2>3 DEF Shape, Subtrees
  <2>6. k \in below[t.child["right"][m]] => <<m, k>> \in R
    BY Zenon, <2>3, LeftRight DEF Ordered, Precedes
  <2>7. \A j \in below[t.child["left"][m]] : <<j, m>> \in R
    BY Zenon, <2>3, LeftRight DEF Ordered, Precedes
  <2>8. k \in Node /\ w \in Node
    BY <2>3, BelowIn
  <2>9. CASE w = m
    BY <1>2, <2>4, <2>5, <2>6, <2>9
  <2>10. CASE w # m
    <3>1. w \in below[t.child["left"][m]]
      BY <1>2, <2>3, <2>5, <2>10
    <3>2. PICK a : a = t.child["left"][m]
      OBVIOUS
    <3>3. a # Nil
      BY <2>5, <3>1, <3>2
    <3>4. a \in below[m] /\ a \in Node
      <4>1. a \in below[a] /\ \A j \in below[a] : j \in below[m]
        BY <2>3, <3>2, <3>3, LeftRight, ChildFacts
      <4> QED BY <2>3, <4>1, BelowIn
    <3>5. a \in below[c]
      BY <1>2, <2>3, <3>4, BelowBelow
    <3>6. a \notin B
      BY <2>2, <3>2, LeftRight
    <3>7. \A j \in below[a] : j # w => <<w, j>> \in R
      BY <1>1, <3>1, <3>2, <3>5, <3>6
    <3>8. <<w, m>> \in R
      BY <2>7, <3>1
    <3>9. k \in below[t.child["right"][m]] => <<w, k>> \in R
      BY <2>3, <2>6, <2>8, <3>8 DEF Transitive
    <3> QED BY <2>4, <2>5, <3>2, <3>7, <3>8, <3>9
  <2> QED BY <2>9, <2>10
<1>5. c \in below[c]
  BY <1>2, BelowParts
<1> QED BY <1>1, <1>2, <1>4, <1>5

(* Around the node s that is to take the place of n.                       *)
Successor(t, n, s, r, l, c, p, q) ==
  /\ n \in In(t) /\ r = t.child["right"][n] /\ l = t.child["left"][n] /\ q = t.parent[n]
  /\ c = t.child["right"][s] /\ t.child["left"][s] = Nil
  /\ p = (IF s = r THEN s ELSE t.parent[s])

Apart(t, n, s, r, l, c, p, q) ==
  /\ n \in Node /\ s \in Node /\ r \in Node /\ l \in Node /\ p \in Node
  /\ c \in Node \cup {Nil} /\ q \in Node \cup {Nil} /\ s \in In(t) /\ s # t.root
  /\ n # s /\ n # r /\ n # l /\ s # l /\ r # l /\ n # c /\ s # c /\ l # c /\ r # c
  /\ q # n /\ q # s /\ q # l /\ q # r /\ q # p /\ p # n /\ p # l /\ p # c
  /\ t.parent[l] = n /\ t.parent[r] = n
  /\ \A m \in Node : t.parent[m] = n => m = l \/ m = r
  /\ \A m \in Node : t.parent[m] = s => m = c
  /\ (c # Nil => t.parent[c] = s /\ c \in In(t))
  /\ (s # r => p # s /\ t.child["left"][p] = s /\ t.parent[s] = p)
  /\ \A m \in Node, e \in Side : /\ t.child[e][m] = n => m = q
                                 /\ t.child[e][m] = s => IF s = r THEN m = n ELSE m = p /\ e = "left"
                                 /\ t.child[e][m] \in Node \cup {Nil}

(* The nodes are different ones.                                           *)
LEMMA SuccessorApart ==
  ASSUME NEW t, NEW below, Shape(t, below), NEW n, NEW s, NEW r, NEW l, NEW c, NEW p, NEW q,
         Successor(t, n, s, r, l, c, p, q), l # Nil, r # Nil, OuterIs(t, below, r, "left", s)
  PROVE  Apart(t, n, s, r, l, c, p, q)
<1>1. /\ n \in In(t) /\ r = t.child["right"][n] /\ l = t.child["left"][n] /\ q = t.parent[n]
      /\ c = t.child["right"][s] /\ t.child["left"][s] = Nil
      /\ p = (IF s = r THEN s ELSE t.parent[s])
  BY DEF Successor
<1>2. n \in Node /\ n # Nil /\ t \in Trees
  BY <1>1, InNode DEF Shape
<1>3. /\ r \in Node /\ r \in In(t) /\ r # t.root /\ r # n /\ t.parent[r] = n
      /\ \A m \in below[r] : m \in below[n]
      /\ r \in below[r]
  <2>1. /\ r = t.child["right"][n] /\ n \in Node
    BY Zenon, <1>1, <1>2
  <2> QED BY <2>1, LeftRight, ChildFacts
<1>4. /\ l \in Node /\ l \in In(t) /\ l # t.root /\ l # n /\ t.parent[l] = n /\ l \in below[l]
  BY <1>1, <1>2, LeftRight, ChildFacts
<1>5. /\ s \in below[r] /\ \A m \in below[r] : s \notin below[t.child["right"][m]]
  BY LeftRight DEF OuterIs
<1>6. /\ s \in Node /\ s \in In(t) /\ n \notin below[r] /\ \A m \in below[l] : m \notin below[r]
  <2>1. s \in Node /\ s \in In(t)
    BY <1>3, <1>5, BelowIn
  <2>2. n \notin below[r]
    BY <1>1, <1>2, LeftRight DEF Shape, Subtrees
  <2>3. \A m \in below[l] : m \notin below[r]
    BY <1>1, <1>2, LeftRight DEF Shape, Subtrees
  <2> QED BY <2>1, <2>2, <2>3
<1>7. n # s /\ s # l /\ r # l /\ s # t.root
  <2>1. t.root # s
    <3>1. s = r => s # t.root
      BY <1>3
    <3>2. s # r => t.parent[s] \in below[r]
      BY <1>3, <1>5, BelowParent
    <3>3. t.root # Nil => t.parent[t.root] = Nil
      BY DEF Shape, Links
    <3>4. below[r] \in SUBSET Node
      BY <1>3, BelowParts
    <3> QED BY <1>6, <3>1, <3>2, <3>3, <3>4, RbTreeConstants
  <2> QED BY <1>3, <1>4, <1>5, <1>6, <2>1
<1>8. c \in Node \cup {Nil} /\ (c # Nil => /\ c \in In(t) /\ t.parent[c] = s /\ c # s /\ c # t.root)
  BY <1>1, <1>6, LeftRight, ChildFacts
<1>9. q \in Node \cup {Nil} /\ q # n
  <2>1. q \in Node \cup {Nil}
    BY <1>1, <1>2 DEF Trees
  <2>2. q = Nil => q # n
    BY <1>2
  <2>3. q # Nil => q # n
    <3>1. n # t.root => \E d \in Side : t.child[d][t.parent[n]] = n
      BY <1>1, ParentFacts
    <3>2. q # Nil => n # t.root
      BY <1>1, <1>2 DEF Shape, Links
    <3>3. \A d \in Side : t.child[d][n] # Nil => t.child[d][n] # n
      BY <1>2, ChildFacts
    <3> QED BY <1>1, <1>2, <3>1, <3>2, <3>3
  <2> QED BY <2>1, <2>2, <2>3
<1>10. q \notin below[n]
  <2> SUFFICES ASSUME q \in below[n] PROVE FALSE
    OBVIOUS
  <2>1. q \in Node /\ q # Nil
    BY <1>2, <1>9, BelowIn, RbTreeConstants
  <2>2. n # t.root
    BY <1>1, <1>2, <2>1 DEF Shape, Links
  <2>3. PICK d \in Side : t.child[d][q] = n
    BY <1>1, <2>2, ParentFacts
  <2>4. n \in below[q]
    <3>1. t.child[d][q] \in below[t.child[d][q]] /\ \A m \in below[t.child[d][q]] : m \in below[q]
      BY <1>2, <2>1, <2>3, ChildFacts
    <3> QED BY <2>3, <3>1
  <2>5. n = q
    BY <1>2, <2>1, <2>4, BelowOneWay
  <2> QED BY <1>9, <2>5
<1>11. q # s /\ q # l /\ q # r
  <2>1. l \in below[n]
    <3>1. \A m \in below[l] : m \in below[n]
      BY <1>1, <1>2, LeftRight, ChildFacts
    <3> QED BY <1>4, <3>1
  <2> QED BY <1>3, <1>5, <1>10, <2>1
<1>12. c # Nil => c \in below[r] /\ c # r
  <2> SUFFICES ASSUME c # Nil PROVE c \in below[r] /\ c # r
    OBVIOUS
  <2>1. c \in below[c] /\ \A m \in below[c] : m \in below[s]
    BY <1>1, <1>6, LeftRight, ChildFacts
  <2>2. c \in below[r]
    BY <1>3, <1>5, <2>1, BelowBelow
  <2>3. c # r
    BY <1>3, <1>7, <1>8
  <2> QED BY <2>2, <2>3
<1>13. n # c /\ l # c /\ r # c /\ s # c
  BY <1>2, <1>3, <1>4, <1>6, <1>8, <1>12, RbTreeConstants
<1>14. ASSUME s # r
       PROVE  /\ p \in Node /\ p \in below[r] /\ p # s /\ t.child["left"][p] = s /\ t.parent[s] = p
  <2>1. p = t.parent[s] /\ p \in below[r] /\ p \in Node
    <3>1. t.parent[s] \in below[r]
      BY <1>3, <1>5, <1>14, BelowParent
    <3> QED BY <1>1, <1>3, <1>14, <3>1, BelowIn
  <2>2. \E d \in Side : t.child[d][p] = s
    BY <1>6, <1>7, <2>1, ParentFacts
  <2>3. t.child["right"][p] # s
    <3>1. s \notin below[t.child["right"][p]]
      BY <1>5, <2>1
    <3>2. s \in below[s]
      BY <1>6, BelowParts
    <3> QED BY <3>1, <3>2
  <2>4. t.child["left"][p] = s
    BY <2>2, <2>3, Sides
  <2>5. p # s
    BY <1>1, <1>6, <2>4, RbTreeConstants
  <2> QED BY <2>1, <2>4, <2>5
<1>15. p \in Node /\ p # n /\ p # l /\ p # c
  <2>1. CASE s = r
    BY <1>1, <1>3, <1>7, <1>13, <2>1
  <2>2. CASE s # r
    <3>1. p \in Node /\ p # n /\ p # l
      BY <1>4, <1>6, <1>14, <2>2
    <3>2. p = c => FALSE
      <4> SUFFICES ASSUME p = c PROVE FALSE
        OBVIOUS
      <4>1. c # Nil /\ t.parent[c] = s
        BY <1>8, <3>1, RbTreeConstants
      <4>2. s \in below[p] /\ p \in below[s]
        <5>1. s \in below[s] /\ p \in below[p]
          BY <1>6, <3>1, BelowParts
        <5>2. \A m \in below[s] : m \in below[p]
          BY <1>6, <1>14, <2>2, LeftRight, ChildFacts, RbTreeConstants
        <5>3. \A m \in below[c] : m \in below[s]
          BY <1>1, <1>6, <4>1, LeftRight, ChildFacts
        <5> QED BY <5>1, <5>2, <5>3
      <4>3. s = p
        BY <1>6, <3>1, <4>2, BelowOneWay
      <4> QED BY <1>14, <2>2, <4>3
    <3> QED BY <3>1, <3>2
  <2> QED BY <2>1, <2>2
<1>16. \A m \in Node : t.parent[m] = n => m = l \/ m = r
  <2> SUFFICES ASSUME NEW m \in Node, t.parent[m] = n PROVE m = l \/ m = r
    OBVIOUS
  <2>1. \E d \in Side : t.child[d][n] = m
    BY <1>2 DEF Shape, Links
  <2> QED BY <1>1, <2>1, Sides
<1>17. \A m \in Node : t.parent[m] = s => m = c
  <2> SUFFICES ASSUME NEW m \in Node, t.parent[m] = s PROVE m = c
    OBVIOUS
  <2>1. \E d \in Side : t.child[d][s] = m
    BY <1>6, RbTreeConstants DEF Shape, Links
  <2> QED BY <1>1, <2>1, Sides, RbTreeConstants
<1>18. ASSUME NEW m \in Node, NEW e \in Side
       PROVE  /\ t.child[e][m] = n => m = q
              /\ t.child[e][m] = s => IF s = r THEN m = n ELSE m = p /\ e = "left"
              /\ t.child[e][m] \in Node \cup {Nil}
  <2>1. t.child[e][m] # Nil => t.parent[t.child[e][m]] = m
    BY ChildFacts
  <2>2. t.child[e][m] \in Node \cup {Nil}
    BY <1>2 DEF Trees
  <2>3. t.child[e][m] = n => m = q
    BY <1>1, <1>2, <2>1
  <2>4. s # Nil
    BY <1>6, RbTreeConstants
  <2>5. s = r /\ t.child[e][m] = s => m = n
    BY <1>3, <2>1, <2>4
  <2>6. ASSUME s # r, t.child[e][m] = s PROVE m = p /\ e = "left"
    <3>1. m = p
      BY <1>14, <2>1, <2>4, <2>6
    <3>2. "left" \in Side /\ t.child["left"][p] = s
      BY <1>14, <2>6, LeftRight
    <3>3. e = "left"
      BY <2>4, <2>6, <3>1, <3>2, OneParent
    <3> QED BY <3>1, <3>3
  <2> QED BY <2>2, <2>3, <2>5, <2>6
<1>19. q # p
  BY <1>1, <1>3, <1>10, <1>11, <1>14
<1>20. /\ n \in Node /\ s \in Node /\ r \in Node /\ l \in Node /\ p \in Node
       /\ c \in Node \cup {Nil} /\ q \in Node \cup {Nil} /\ s \in In(t) /\ s # t.root
  BY Zenon, <1>2, <1>3, <1>4, <1>6, <1>7, <1>8, <1>9, <1>15
<1>21. n # s /\ n # r /\ n # l /\ s # l /\ r # l /\ n # c /\ s # c /\ l # c /\ r # c
  BY Zenon, <1>3, <1>4, <1>7, <1>13
<1>22. q # n /\ q # s /\ q # l /\ q # r /\ q # p /\ p # n /\ p # l /\ p # c
  BY Zenon, <1>9, <1>11, <1>15, <1>19
<1>23. t.parent[l] = n /\ t.parent[r] = n /\ (c # Nil => t.parent[c] = s /\ c \in In(t))
  BY Zenon, <1>3, <1>4, <1>8
<1>24. s # r => p # s /\ t.child["left"][p] = s /\ t.parent[s] = p
  BY Zenon, <1>14
<1>25. \A m \in Node, e \in Side :
         /\ t.child[e][m] = n => m = q
         /\ t.child[e][m] = s => IF s = r THEN m = n ELSE m = p /\ e = "left"
         /\ t.child[e][m] \in Node \cup {Nil}
  BY Zenon, <1>18
<1> QED BY Zenon, <1>16, <1>17, <1>20, <1>21, <1>22, <1>23, <1>24, <1>25 DEF Apart

(* The fields after s has taken the place of n.                            *)
Replaced(t, u, n, s, r, l, c, p, q, first) ==
  /\ u \in Trees /\ u.leftmost = first /\ u.root = (IF n = t.root THEN s ELSE t.root)
  /\ \A e \in Side, m \in Node :
       u.child[e][m] = IF m = n THEN Nil
                       ELSE IF m = s THEN (IF e = "left" THEN l ELSE IF s = r THEN c ELSE r)
                       ELSE IF t.child[e][m] = n THEN s
                       ELSE IF t.child[e][m] = s THEN c ELSE t.child[e][m]
  /\ \A m \in Node :
       u.parent[m] = IF m = n THEN Nil ELSE IF m = s THEN q ELSE IF m = c THEN p
                     ELSE IF t.parent[m] = n THEN s ELSE t.parent[m]
  /\ \A m \in Node :
       u.black[m] = IF m = n THEN FALSE ELSE IF m = s THEN t.black[n] ELSE m = c \/ t.black[m]

(* s has left its place.                                                   *)
Left(t, v, n, s, r, l, c, p) ==
  /\ v \in Trees /\ v.root = t.root /\ v.leftmost = t.leftmost /\ v.black = t.black
  /\ \A e \in Side, m \in Node :
       (m # s \/ e # "left") =>
         v.child[e][m] = IF m = s /\ s # r THEN r
                         ELSE IF s # r /\ m = p /\ e = "left" THEN c ELSE t.child[e][m]
  /\ \A m \in Node : v.parent[m] = IF m = r /\ s # r THEN s ELSE t.parent[m]

(* On the way up from p, below s, no walk comes to its end but at s.       *)
Hung(t, v, r, s) ==
  /\ v.parent \in [Node -> Node \cup {Nil}]
  /\ \A m \in Node : v.parent[m] = IF m = r THEN s ELSE t.parent[m]

(* On the way up from below s, it ends there.                              *)
LEMMA UpwardsToSuccessor ==
  ASSUME NEW t, NEW below, Shape(t, below), NEW s, NEW r, NEW v, Hung(t, v, r, s)
  PROVE  UpwardsIs(v, s)
<1>0. PICK full : full = Deep(t, below)
  OBVIOUS
<1>01. PICK N \in Nat : /\ full \in [Node \cup {Nil} -> 0..N]
                        /\ \A m \in Node : full[t.parent[m]] < full[m]
  BY Zenon, <1>0, DeepRanks
<1>02. /\ v.parent \in [Node -> Node \cup {Nil}]
       /\ \A m \in Node : v.parent[m] = IF m = r THEN s ELSE t.parent[m]
  BY DEF Hung
<1>1. PICK S : S = Node \cup {Nil}
  BY Zenon
<1>2. PICK rank : rank = [m \in S |-> IF m = s THEN 0 ELSE full[m]]
  BY Zenon
<1>3. \A m \in Node : t.parent[m] \in S /\ m # Nil /\ m \in S
  BY <1>1, RbTreeConstants DEF Shape, Trees
<1>4. \A m \in S : full[m] \in 0..N /\ full[m] \in Nat
  BY <1>01, <1>1
<1>5. rank \in [S -> 0..N]
  BY <1>2, <1>4
<1>6. ASSUME NEW m \in Node, m # s PROVE rank[v.parent[m]] < rank[m]
  <2>1. full[t.parent[m]] < full[m] /\ full[t.parent[m]] \in Nat /\ full[m] \in Nat
    BY <1>01, <1>3, <1>4
  <2>2. rank[m] = full[m]
    BY <1>2, <1>3, <1>6
  <2>3. CASE v.parent[m] = s
    <3>1. rank[v.parent[m]] = 0
      BY <1>02, <1>1, <1>2, <2>3
    <3> QED BY <2>1, <2>2, <3>1
  <2>4. CASE v.parent[m] # s
    <3>1. v.parent[m] = t.parent[m]
      BY <1>02, <2>4
    <3>2. rank[v.parent[m]] = full[t.parent[m]]
      BY <1>2, <1>3, <2>4, <3>1
    <3> QED BY <2>1, <2>2, <3>2
  <2> QED BY <2>3, <2>4
<1>7. Ranked(v, s, N, rank)
  BY <1>01, <1>02, <1>1, <1>5, <1>6 DEF Ranked
<1> QED BY <1>7, UpwardsSteps

(* The tree z in which s has left its place, before propagate.             *)
Vacated(t, z, n, s, r, c, p) ==
  /\ z \in Trees /\ z.root = t.root /\ z.leftmost = t.leftmost /\ z.black = t.black
  /\ \A e \in Side, m \in Node :
       z.child[e][m] = IF e = "left" /\ m = p THEN c
                       ELSE IF e = "right" /\ m = s THEN r ELSE t.child[e][m]
  /\ \A m \in Node : z.parent[m] = IF m = r THEN s ELSE t.parent[m]
  /\ Augmented => \A m \in Node : z.last[m] = IF m = s THEN t.last[n] ELSE t.last[m]
  /\ UpwardsIs(z, s) /\ Leave(t, n, s, p, c) = Propagate(z, p, s)

(* It hands its child to its parent, and is the parent of r.               *)
LEMMA LeaveSteps ==
  ASSUME NEW t, NEW below, Shape(t, below), NEW n, NEW s, NEW r, NEW l, NEW c, NEW p, NEW q,
         Successor(t, n, s, r, l, c, p, q), Apart(t, n, s, r, l, c, p, q), s # r
  PROVE  \E z : Vacated(t, z, n, s, r, c, p)
<1>1. /\ r = t.child["right"][n] /\ t \in Trees
      /\ n \in Node /\ s \in Node /\ r \in Node /\ p \in Node /\ c \in Node \cup {Nil}
  BY DEF Successor, Apart, Shape
<1>2. PICK w : w = [t EXCEPT !.child["left"][p] = c, !.child["right"][s] = r, !.parent[r] = s]
  OBVIOUS
<1>3. PICK z : z = Copy(w, n, s)
  OBVIOUS
<1>4. Leave(t, n, s, p, c) = Propagate(z, p, s)
  BY <1>1, <1>2, <1>3 DEF Leave
<1>5. w = [root |-> t.root, leftmost |-> t.leftmost,
           child |-> [[t.child EXCEPT !["left"][p] = c] EXCEPT !["right"][s] = r],
           parent |-> [t.parent EXCEPT ![r] = s], black |-> t.black, last |-> t.last]
  BY Zenon, <1>1, <1>2 DEF Trees
<1>6. /\ w.child \in [Side -> [Node -> Node \cup {Nil}]]
      /\ \A e \in Side, m \in Node :
           w.child[e][m] = IF e = "left" /\ m = p THEN c
                           ELSE IF e = "right" /\ m = s THEN r ELSE t.child[e][m]
  BY SMTT(30), <1>1, <1>5, Sides DEF Trees
<1>7. /\ w.parent \in [Node -> Node \cup {Nil}]
      /\ \A m \in Node : w.parent[m] = IF m = r THEN s ELSE t.parent[m]
  BY <1>1, <1>5 DEF Trees
<1>8. /\ w \in Trees /\ w.root = t.root /\ w.leftmost = t.leftmost /\ w.black = t.black
      /\ w.last = t.last
  BY Zenon, <1>1, <1>5, <1>6, <1>7 DEF Trees
<1>9. OnlyLast(w, z)
  BY <1>1, <1>3, <1>8, CopyFields
<1>10. /\ z \in Trees /\ z.root = w.root /\ z.leftmost = w.leftmost /\ z.black = w.black
       /\ z.child = w.child /\ z.parent = w.parent
  BY <1>9 DEF OnlyLast
<1>11. UpwardsIs(z, s)
  <2>1. z.parent \in [Node -> Node \cup {Nil}]
        /\ \A m \in Node : z.parent[m] = IF m = r THEN s ELSE t.parent[m]
    BY <1>7, <1>10
  <2>2. Hung(t, z, r, s)
    BY <2>1 DEF Hung
  <2> QED BY <2>2, UpwardsToSuccessor
<1>12. ASSUME Augmented, NEW m \in Node
       PROVE  z.last[m] = IF m = s THEN t.last[n] ELSE t.last[m]
  <2>1. z = [w EXCEPT !.last[s] = w.last[n]]
    BY <1>3, <1>12 DEF Copy
  <2>2. z.last = [w.last EXCEPT ![s] = w.last[n]]
    BY Zenon, <1>8, <2>1 DEF Trees
  <2> QED BY <1>1, <1>8, <2>2 DEF Trees
<1>13. ASSUME NEW e \in Side, NEW m \in Node
       PROVE  z.child[e][m] = IF e = "left" /\ m = p THEN c
                              ELSE IF e = "right" /\ m = s THEN r ELSE t.child[e][m]
  BY <1>6, <1>10
<1>14. \A m \in Node : z.parent[m] = IF m = r THEN s ELSE t.parent[m]
  BY <1>7, <1>10
<1>15. Vacated(t, z, n, s, r, c, p)
  BY Zenon, <1>4, <1>8, <1>10, <1>11, <1>12, <1>13, <1>14 DEF Vacated
<1> QED BY <1>15

(* After propagate as before, but for the ends.                            *)
LEMMA LeaveFields ==
  ASSUME NEW t, NEW below, Shape(t, below), NEW n, NEW s, NEW r, NEW l, NEW c, NEW p, NEW q,
         Successor(t, n, s, r, l, c, p, q), Apart(t, n, s, r, l, c, p, q)
  PROVE  Left(t, Leave(t, n, s, p, c), n, s, r, l, c, p)
<1>1. /\ r = t.child["right"][n] /\ c = t.child["right"][s] /\ t \in Trees
      /\ n \in Node /\ s \in Node /\ r \in Node /\ p \in Node /\ c \in Node \cup {Nil}
      /\ (s # r => p # s)
  BY DEF Successor, Apart, Shape
<1>2. PICK v : v = Leave(t, n, s, p, c)
  OBVIOUS
<1>3. CASE s = r
  <2>1. v = Copy(t, n, s)
    BY <1>1, <1>2, <1>3 DEF Leave
  <2>2. OnlyLast(t, v)
    BY <1>1, <2>1, CopyFields
  <2>3. Left(t, v, n, s, r, l, c, p)
    BY <1>3, <2>2 DEF OnlyLast, Left
  <2> QED BY <1>2, <2>3
<1>4. CASE s # r
  <2>1. PICK z : Vacated(t, z, n, s, r, c, p)
    BY Zenon, <1>4, LeaveSteps
  <2>2. /\ z \in Trees /\ z.root = t.root /\ z.leftmost = t.leftmost /\ z.black = t.black
        /\ UpwardsIs(z, s) /\ v = Propagate(z, p, s)
        /\ \A m \in Node : z.parent[m] = IF m = r THEN s ELSE t.parent[m]
    BY Zenon, <1>2, <2>1 DEF Vacated
  <2>3. p \in Node \cup {Nil}
    BY <1>1
  <2>4. OnlyLast(z, v)
    BY Zenon, <2>2, <2>3, PropagateFields
  <2>5. /\ v \in Trees /\ v.root = z.root /\ v.leftmost = z.leftmost /\ v.black = z.black
        /\ v.child = z.child /\ v.parent = z.parent
    BY <2>4 DEF OnlyLast
  <2>6. ASSUME NEW e \in Side, NEW m \in Node, m # s \/ e # "left"
        PROVE  v.child[e][m] = IF m = s /\ s # r THEN r
                               ELSE IF s # r /\ m = p /\ e = "left" THEN c ELSE t.child[e][m]
    <3>1. z.child[e][m] = IF e = "left" /\ m = p THEN c
                          ELSE IF e = "right" /\ m = s THEN r ELSE t.child[e][m]
      BY Zenon, <2>1 DEF Vacated
    <3>2. v.child[e][m] = z.child[e][m]
      BY <2>5
    <3>3. e = "left" \/ e = "right"
      BY Sides
    <3> QED BY <1>1, <1>4, <2>6, <3>1, <3>2, <3>3
  <2>7. \A m \in Node : v.parent[m] = IF m = r /\ s # r THEN s ELSE t.parent[m]
    BY <1>4, <2>2, <2>5
  <2>8. Left(t, v, n, s, r, l, c, p)
    BY <2>2, <2>5, <2>6, <2>7 DEF Left
  <2> QED BY <1>2, <2>8
<1> QED BY <1>3, <1>4

(* The tree z in which s has taken the place of n, before propagate.       *)
InnerLeft(n, s, r, l, c, p, q, z) ==
  /\ z \in Trees /\ z.root = (IF n = tree.root THEN s ELSE tree.root)
  /\ z.last = Leave(tree, n, s, p, c).last
  /\ \A e \in Side, m \in Node :
       z.child[e][m] = IF m = s THEN (IF e = "left" THEN l ELSE IF s = r THEN c ELSE r)
                       ELSE IF tree.child[e][m] = n THEN s
                       ELSE IF tree.child[e][m] = s /\ s # r THEN c ELSE tree.child[e][m]
  /\ \A m \in Node : z.parent[m] = IF m = s THEN q ELSE IF m = c THEN p
                                    ELSE IF m = l \/ (m = r /\ s # r) THEN s ELSE tree.parent[m]
  /\ \A m \in Node : z.black[m] = IF m = s THEN tree.black[n] ELSE m = c \/ tree.black[m]
  /\ UpwardsIs(z, Nil)
  /\ EraseInner(n) = [tree |-> Propagate(z, s, Nil),
                      rebalance |-> IF c = Nil /\ tree.black[s] THEN p ELSE Nil]

(* Cases 2 and 3 of __rb_erase_augmented, with two children.               *)
LEMMA EraseInnerSteps ==
  ASSUME NEW below, Shape(tree, below), NEW n, NEW s, NEW r, NEW l, NEW c, NEW p, NEW q,
         Successor(tree, n, s, r, l, c, p, q), Apart(tree, n, s, r, l, c, p, q),
         s = Outermost(tree, r, "left")
  PROVE  \E z : InnerLeft(n, s, r, l, c, p, q, z)
<1>1. /\ r = tree.child["right"][n] /\ l = tree.child["left"][n] /\ q = tree.parent[n]
      /\ c = tree.child["right"][s] /\ p = (IF s = r THEN s ELSE tree.parent[s])
      /\ n \in In(tree)
  BY DEF Successor
<1>2. /\ n \in Node /\ s \in Node /\ r \in Node /\ l \in Node /\ p \in Node
      /\ c \in Node \cup {Nil} /\ q \in Node \cup {Nil} /\ tree \in Trees
  BY DEF Apart, Shape
<1>3. PICK lv : lv = Leave(tree, n, s, p, c)
  OBVIOUS
<1>4. Left(tree, lv, n, s, r, l, c, p)
  BY <1>3, LeaveFields
<1>5. PICK a : a = [lv EXCEPT !.child["left"][s] = l, !.parent[l] = s]
  OBVIOUS
<1>6. PICK t : t = ChangeChild(a, n, s, q)
  OBVIOUS
<1>7. PICK b : b = SetParent(t, c, p)
  OBVIOUS
<1>8. PICK k : k = Blacken(b, c)
  OBVIOUS
<1>9. PICK z : z = [k EXCEPT !.parent[s] = q, !.black[s] = tree.black[n]]
  BY SMTT(30)
<1>10. EraseInner(n) = [tree |-> Propagate(z, s, Nil),
                        rebalance |-> IF c = Nil /\ tree.black[s] THEN p ELSE Nil]
  BY Zenon, <1>1, <1>3, <1>5, <1>6, <1>7, <1>8, <1>9 DEF EraseInner
<1>12. /\ a \in Trees /\ a.root = tree.root /\ a.black = tree.black
       /\ \A e \in Side, m \in Node :
            a.child[e][m] = IF m = s THEN (IF e = "left" THEN l ELSE IF s = r THEN c ELSE r)
                            ELSE IF tree.child[e][m] = s /\ s # r THEN c ELSE tree.child[e][m]
       /\ \A m \in Node :
            a.parent[m] = IF m = l \/ (m = r /\ s # r) THEN s ELSE tree.parent[m]
  <2>1. /\ lv \in Trees /\ lv.root = tree.root /\ lv.black = tree.black
        /\ \A m \in Node : lv.parent[m] = IF m = r /\ s # r THEN s ELSE tree.parent[m]
    BY <1>4 DEF Left
  <2>2. a = [root |-> lv.root, leftmost |-> lv.leftmost,
             child |-> [lv.child EXCEPT !["left"][s] = l],
             parent |-> [lv.parent EXCEPT ![l] = s], black |-> lv.black, last |-> lv.last]
    BY Zenon, <1>5, <2>1 DEF Trees
  <2>3. /\ a.child \in [Side -> [Node -> Node \cup {Nil}]]
        /\ \A e \in Side, m \in Node :
             a.child[e][m] = IF e = "left" /\ m = s THEN l ELSE lv.child[e][m]
    BY <1>2, <2>1, <2>2, Sides DEF Trees
  <2>4. /\ a.parent \in [Node -> Node \cup {Nil}]
        /\ \A m \in Node : a.parent[m] = IF m = l THEN s ELSE lv.parent[m]
    BY <1>2, <2>1, <2>2 DEF Trees
  <2>5. a \in Trees /\ a.root = tree.root /\ a.black = tree.black
    BY <2>1, <2>2, <2>3, <2>4 DEF Trees
  <2>6. ASSUME NEW e \in Side, NEW m \in Node
        PROVE  a.child[e][m] = IF m = s THEN (IF e = "left" THEN l ELSE IF s = r THEN c ELSE r)
                               ELSE IF tree.child[e][m] = s /\ s # r THEN c ELSE tree.child[e][m]
    <3>1. (m # s \/ e # "left") =>
            lv.child[e][m] = IF m = s /\ s # r THEN r
                             ELSE IF s # r /\ m = p /\ e = "left" THEN c ELSE tree.child[e][m]
      BY <1>4 DEF Left
    <3>2. a.child[e][m] = IF e = "left" /\ m = s THEN l ELSE lv.child[e][m]
      BY <2>3
    <3>3. CASE m = s
      <4>1. e = "left" \/ e = "right"
        BY Sides
      <4> QED BY <1>1, <3>1, <3>2, <3>3, <4>1
    <3>4. CASE m # s
      <4>1. s # r => (tree.child[e][m] = s <=> m = p /\ e = "left")
        BY DEF Apart
      <4> QED BY <3>1, <3>2, <3>4, <4>1
    <3> QED BY <3>3, <3>4
  <2>7. \A m \in Node : a.parent[m] = IF m = l \/ (m = r /\ s # r) THEN s ELSE tree.parent[m]
    BY <2>1, <2>4
  <2> QED BY <2>5, <2>6, <2>7
<1>13. /\ t \in Trees /\ t.root = (IF n = tree.root THEN s ELSE tree.root)
       /\ t.black = tree.black /\ t.parent = a.parent
       /\ \A e \in Side, m \in Node :
            t.child[e][m] = IF m = s THEN (IF e = "left" THEN l ELSE IF s = r THEN c ELSE r)
                            ELSE IF tree.child[e][m] = n THEN s
                            ELSE IF tree.child[e][m] = s /\ s # r THEN c ELSE tree.child[e][m]
  <2>1. ChildChanged(a, t, n, s, q)
    BY <1>2, <1>6, <1>12, ChangeChildFields
  <2>2. /\ q = Nil <=> n = tree.root
        /\ \A e \in Side, m \in Node :
             tree.child[e][m] = n <=>
               m = q /\ e = (IF tree.child["left"][q] = n THEN "left" ELSE "right")
    BY <1>1, PlaceOfChild
  <2>3. t \in Trees /\ t.root = (IF q = Nil THEN s ELSE a.root)
        /\ t.parent = a.parent /\ t.black = a.black
    BY <2>1 DEF ChildChanged
  <2>4. q # s /\ q # n /\ \A e \in Side, m \in Node : tree.child[e][m] = s => m # q
    BY DEF Apart
  <2>5. q \in Node => \A e \in Side : a.child[e][q] = tree.child[e][q]
    BY <1>12, <2>4
  <2>6. ASSUME NEW e \in Side, NEW m \in Node
        PROVE  t.child[e][m] = IF tree.child[e][m] = n THEN s ELSE a.child[e][m]
    <3>1. t.child[e][m] = IF m = q /\ e = (IF a.child["left"][q] = n THEN "left" ELSE "right")
                          THEN s ELSE a.child[e][m]
      BY <2>1 DEF ChildChanged
    <3>2. m = q => a.child["left"][q] = tree.child["left"][q]
      BY <2>5, LeftRight
    <3> QED BY <2>2, <3>1, <3>2
  <2>7. \A e \in Side : tree.child[e][s] # n
    BY <1>2, <2>4 DEF Apart
  <2>8. ASSUME NEW e \in Side, NEW m \in Node
        PROVE  t.child[e][m] = IF m = s THEN (IF e = "left" THEN l ELSE IF s = r THEN c ELSE r)
                               ELSE IF tree.child[e][m] = n THEN s
                               ELSE IF tree.child[e][m] = s /\ s # r THEN c ELSE tree.child[e][m]
    BY <1>12, <2>6, <2>7
  <2> QED BY <1>12, <2>2, <2>3, <2>8
<1>14. /\ k \in Trees /\ k.root = t.root /\ k.child = t.child
       /\ \A m \in Node : k.parent[m] = IF m = c THEN p ELSE a.parent[m]
       /\ \A m \in Node : k.black[m] = (m = c \/ tree.black[m])
  <2>1. ParentSet(t, b, c, p)
    BY <1>2, <1>7, <1>13, SetParentFields
  <2>2. b \in Trees
    BY <2>1 DEF ParentSet
  <2>3. Blackened(b, k, c)
    BY <1>2, <1>8, <2>2, BlackenFields
  <2> QED BY <1>13, <2>1, <2>3 DEF ParentSet, Blackened
<1>15. /\ z \in Trees /\ z.root = t.root /\ z.child = t.child
       /\ \A m \in Node : z.parent[m] = IF m = s THEN q ELSE IF m = c THEN p ELSE a.parent[m]
       /\ \A m \in Node :
            z.black[m] = IF m = s THEN tree.black[n] ELSE m = c \/ tree.black[m]
  <2>1. z = [root |-> k.root, leftmost |-> k.leftmost, child |-> k.child,
             parent |-> [k.parent EXCEPT ![s] = q],
             black |-> [k.black EXCEPT ![s] = tree.black[n]], last |-> k.last]
    BY Zenon, <1>9, <1>14 DEF Trees
  <2>2. /\ z.parent \in [Node -> Node \cup {Nil}]
        /\ \A m \in Node : z.parent[m] = IF m = s THEN q ELSE k.parent[m]
    BY <1>2, <1>14, <2>1 DEF Trees
  <2>3. tree.black[n] \in BOOLEAN
    BY <1>2, BitType
  <2>4. /\ z.black \in [Node -> BOOLEAN]
        /\ \A m \in Node : z.black[m] = IF m = s THEN tree.black[n] ELSE k.black[m]
    BY <1>2, <1>14, <2>1, <2>3 DEF Trees
  <2>5. z \in Trees /\ z.root = t.root /\ z.child = t.child
    BY <1>14, <2>1, <2>2, <2>4 DEF Trees
  <2>6. ASSUME NEW m \in Node
        PROVE  z.black[m] = IF m = s THEN tree.black[n] ELSE m = c \/ tree.black[m]
    BY <1>14, <2>4
  <2>7. ASSUME NEW m \in Node
        PROVE  z.parent[m] = IF m = s THEN q ELSE IF m = c THEN p ELSE a.parent[m]
    BY <1>14, <2>2
  <2> QED BY <2>5, <2>6, <2>7
<1>16. UpwardsIs(z, Nil)
  <2>1. PICK full : full = Deep(tree, below)
    OBVIOUS
  <2>2. PICK N \in Nat : /\ full \in [Node \cup {Nil} -> 0..N]
                         /\ \A m \in Node : full[tree.parent[m]] < full[m]
    BY <2>1, DeepRanks
  <2>3. PICK S : S = Node \cup {Nil}
    BY Zenon
  <2>4. PICK rank : rank = [m \in S |-> IF m = s THEN full[n] ELSE full[m]]
    BY Zenon
  <2>5. \A m \in S : full[m] \in 0..N /\ full[m] \in Nat
    BY <2>2, <2>3
  <2>6. rank \in [S -> 0..N] /\ rank[s] = full[n] /\ \A m \in S : m # s => rank[m] = full[m]
    BY <1>2, <2>3, <2>4, <2>5
  <2>7. \A m \in Node : tree.parent[m] \in S /\ m # Nil /\ m \in S
    BY <1>2, <2>3, RbTreeConstants DEF Trees
  <2>8. \A m \in Node : full[tree.parent[m]] < full[m] /\ full[m] \in Nat
                        /\ full[tree.parent[m]] \in Nat
    BY <2>2, <2>5, <2>7
  <2>9. ASSUME NEW m \in Node PROVE rank[z.parent[m]] < rank[m]
    <3>1. CASE m = s
      <4>1. z.parent[m] = q /\ q # s /\ q \in S
        BY <1>15, <2>3, <3>1, <1>2 DEF Apart
      <4>2. rank[q] = full[tree.parent[n]] /\ rank[m] = full[n]
        BY <1>1, <2>6, <3>1, <4>1
      <4> QED BY <1>2, <2>8, <4>1, <4>2
    <3>2. CASE m = c
      <4>1. z.parent[m] = p /\ tree.parent[m] = s /\ m # s
        BY <1>15, <2>7, <3>2 DEF Apart
      <4>2. full[s] < full[m] /\ rank[m] = full[m]
        BY <2>6, <2>7, <2>8, <4>1
      <4>3. full[tree.parent[s]] < full[s] /\ full[tree.parent[s]] \in Nat /\ full[s] \in Nat
            /\ full[m] \in Nat
        BY <1>2, <2>8
      <4>4. rank[p] = full[tree.parent[s]]
        <5>1. CASE s = r
          <6>1. p = s /\ tree.parent[s] = n
            BY <1>1, <5>1 DEF Apart
          <6> QED BY SMTT(30), <2>6, <6>1
        <5>2. CASE s # r
          <6>1. p = tree.parent[s] /\ p # s
            BY <1>1, <5>2 DEF Apart
          <6> QED BY SMTT(30), <1>2, <2>6, <2>7, <6>1
        <5> QED BY <5>1, <5>2
      <4> QED BY <4>1, <4>2, <4>3, <4>4
    <3>3. CASE m # s /\ m # c
      <4>1. z.parent[m] = IF m = l \/ (m = r /\ s # r) THEN s ELSE tree.parent[m]
        BY <1>12, <1>15, <3>3
      <4>2. rank[m] = full[m]
        BY <2>6, <2>7, <3>3
      <4>3. CASE m = l \/ m = r
        <5>1. tree.parent[m] = n /\ z.parent[m] = s
          BY <3>3, <4>1, <4>3 DEF Apart
        <5>2. full[n] < full[m]
          BY <2>8, <5>1
        <5> QED BY <2>6, <4>2, <5>1, <5>2
      <4>4. CASE ~(m = l \/ m = r)
        <5>1. z.parent[m] = tree.parent[m] /\ tree.parent[m] # s
          BY <3>3, <4>1, <4>4 DEF Apart
        <5>2. rank[tree.parent[m]] = full[tree.parent[m]]
          BY <2>6, <2>7, <5>1
        <5> QED BY <2>8, <4>2, <5>1, <5>2
      <4> QED BY <4>3, <4>4
    <3> QED BY <3>1, <3>2, <3>3
  <2>10. z.parent \in [Node -> Node \cup {Nil}]
    BY <1>15 DEF Trees
  <2>11. Ranked(z, Nil, N, rank)
    BY <2>2, <2>3, <2>6, <2>9, <2>10 DEF Ranked
  <2> QED BY <2>11, UpwardsSteps
<1>17. z.last = lv.last
  <2>1. lv \in Trees
    BY <1>4 DEF Left
  <2>2. a = [root |-> lv.root, leftmost |-> lv.leftmost,
             child |-> [lv.child EXCEPT !["left"][s] = l],
             parent |-> [lv.parent EXCEPT ![l] = s], black |-> lv.black, last |-> lv.last]
    BY Zenon, <1>5, <2>1 DEF Trees
  <2>3. a.last = lv.last
    BY <2>2
  <2>4. ChildChanged(a, t, n, s, q)
    BY <1>2, <1>6, <1>12, ChangeChildFields
  <2>5. t.last = a.last /\ t \in Trees
    BY <2>4 DEF ChildChanged
  <2>6. ParentSet(t, b, c, p)
    BY <1>2, <1>7, <2>5, SetParentFields
  <2>7. b.last = t.last /\ b \in Trees
    BY <2>6 DEF ParentSet
  <2>8. Blackened(b, k, c)
    BY <1>2, <1>8, <2>7, BlackenFields
  <2>9. k.last = b.last
    BY <2>8 DEF Blackened
  <2>10. z.last = k.last
    <3>1. z = [root |-> k.root, leftmost |-> k.leftmost, child |-> k.child,
               parent |-> [k.parent EXCEPT ![s] = q],
               black |-> [k.black EXCEPT ![s] = tree.black[n]], last |-> k.last]
      BY Zenon, <1>9, <1>14 DEF Trees
    <3> QED BY <3>1
  <2> QED BY <2>3, <2>5, <2>7, <2>9, <2>10
<1>18. ASSUME NEW e \in Side, NEW m \in Node
       PROVE  z.child[e][m] = IF m = s THEN (IF e = "left" THEN l ELSE IF s = r THEN c ELSE r)
                              ELSE IF tree.child[e][m] = n THEN s
                              ELSE IF tree.child[e][m] = s /\ s # r THEN c ELSE tree.child[e][m]
  BY <1>13, <1>15
<1>19. ASSUME NEW m \in Node
       PROVE  z.parent[m] = IF m = s THEN q ELSE IF m = c THEN p
                            ELSE IF m = l \/ (m = r /\ s # r) THEN s ELSE tree.parent[m]
  BY <1>12, <1>15
<1>20. InnerLeft(n, s, r, l, c, p, q, z)
  BY Zenon, <1>3, <1>10, <1>13, <1>15, <1>16, <1>17, <1>18, <1>19 DEF InnerLeft
<1> QED BY <1>20

(* With two children, the next node takes the place and the colour of n.   *)
LEMMA EraseInnerFields ==
  ASSUME NEW below, Shape(tree, below), NEW n, NEW s, NEW r, NEW l, NEW c, NEW p, NEW q,
         Successor(tree, n, s, r, l, c, p, q), Apart(tree, n, s, r, l, c, p, q),
         s = Outermost(tree, r, "left"), NEW first \in Node \cup {Nil},
         NEW u, u = [Unlink(EraseInner(n).tree, n) EXCEPT !.leftmost = first]
  PROVE  /\ Replaced(tree, u, n, s, r, l, c, p, q, first)
         /\ EraseInner(n).rebalance = IF c = Nil /\ tree.black[s] THEN p ELSE Nil
<1>1. n \in Node /\ s \in Node
  BY DEF Apart
<1>2. PICK z : InnerLeft(n, s, r, l, c, p, q, z)
  BY EraseInnerSteps
<1>3. PICK y : y = Propagate(z, s, Nil)
  OBVIOUS
<1>4. /\ z \in Trees /\ z.root = (IF n = tree.root THEN s ELSE tree.root) /\ UpwardsIs(z, Nil)
      /\ EraseInner(n) = [tree |-> y, rebalance |-> IF c = Nil /\ tree.black[s] THEN p ELSE Nil]
  BY Zenon, <1>2, <1>3 DEF InnerLeft
<1>17. OnlyLast(z, y)
  <2>1. s \in Node \cup {Nil}
    BY <1>1
  <2> QED BY <1>3, <1>4, <2>1, PropagateFields
<1>18. y \in Trees /\ y.root = z.root /\ y.child = z.child /\ y.parent = z.parent
       /\ y.black = z.black
  BY <1>17 DEF OnlyLast
<1>19. Unlinked(y, u, n, first)
  BY <1>1, <1>4, <1>18, UnlinkFields
<1>20. u \in Trees /\ u.leftmost = first /\ u.root = (IF n = tree.root THEN s ELSE tree.root)
  BY <1>4, <1>18, <1>19 DEF Unlinked
<1>21. ASSUME NEW e \in Side, NEW m \in Node
       PROVE  u.child[e][m] = IF m = n THEN Nil
                              ELSE IF m = s THEN (IF e = "left" THEN l ELSE IF s = r THEN c ELSE r)
                              ELSE IF tree.child[e][m] = n THEN s
                              ELSE IF tree.child[e][m] = s THEN c ELSE tree.child[e][m]
  <2>1. u.child[e][m] = IF m = n THEN Nil ELSE z.child[e][m]
    BY <1>18, <1>19 DEF Unlinked
  <2>2. z.child[e][m] = IF m = s THEN (IF e = "left" THEN l ELSE IF s = r THEN c ELSE r)
                        ELSE IF tree.child[e][m] = n THEN s
                        ELSE IF tree.child[e][m] = s /\ s # r THEN c ELSE tree.child[e][m]
    BY Zenon, <1>2 DEF InnerLeft
  <2>3. s = r /\ tree.child[e][m] = s => m = n
    BY DEF Apart
  <2> QED BY <2>1, <2>2, <2>3
<1>22. ASSUME NEW m \in Node
       PROVE  u.parent[m] = IF m = n THEN Nil ELSE IF m = s THEN q ELSE IF m = c THEN p
                            ELSE IF tree.parent[m] = n THEN s ELSE tree.parent[m]
  <2>1. u.parent[m] = IF m = n THEN Nil ELSE z.parent[m]
    BY <1>18, <1>19 DEF Unlinked
  <2>2. z.parent[m] = IF m = s THEN q ELSE IF m = c THEN p
                      ELSE IF m = l \/ (m = r /\ s # r) THEN s ELSE tree.parent[m]
    BY Zenon, <1>2 DEF InnerLeft
  <2>3. m # s => (tree.parent[m] = n <=> m = l \/ (m = r /\ s # r))
    BY DEF Apart
  <2> QED BY <2>1, <2>2, <2>3
<1>23. ASSUME NEW m \in Node
       PROVE  u.black[m] = IF m = n THEN FALSE ELSE IF m = s THEN tree.black[n]
                           ELSE m = c \/ tree.black[m]
  <2>1. u.black[m] = IF m = n THEN FALSE ELSE z.black[m]
    BY Zenon, <1>18, <1>19 DEF Unlinked
  <2>2. z.black[m] = IF m = s THEN tree.black[n] ELSE m = c \/ tree.black[m]
    BY Zenon, <1>2 DEF InnerLeft
  <2> QED BY Zenon, <2>1, <2>2
<1>24. Replaced(tree, u, n, s, r, l, c, p, q, first)
  BY Zenon, <1>20, <1>21, <1>22, <1>23 DEF Replaced
<1> QED BY <1>4, <1>24

(* As if s had been taken out, and had then changed places with n.         *)
SuccessorSwap(t, u, v, n, s, c) ==
  /\ Removed(t, v, s, c, t.parent[s]) /\ Inherited(t, v, s, c)
  /\ Swapped(v, u, Swap(n, s)) /\ SwappedBlack(v, u, Swap(n, s))

(* The fields are those of a removal of s followed by an exchange of s     *)
(* with n, which is out of the tree then.                                  *)
LEMMA InnerSwap ==
  ASSUME NEW t, NEW below, Shape(t, below), NEW n, NEW s, NEW r, NEW l, NEW c, NEW p, NEW q,
         Successor(t, n, s, r, l, c, p, q), Apart(t, n, s, r, l, c, p, q),
         NEW u, NEW first, Replaced(t, u, n, s, r, l, c, p, q, first), c # Nil => t.black[s]
  PROVE  \E v : SuccessorSwap(t, u, v, n, s, c)
<1>1. /\ r = t.child["right"][n] /\ l = t.child["left"][n] /\ q = t.parent[n]
      /\ c = t.child["right"][s] /\ t.child["left"][s] = Nil
      /\ p = (IF s = r THEN s ELSE t.parent[s])
  BY DEF Successor
<1>2. /\ n \in Node /\ s \in Node /\ r \in Node /\ l \in Node /\ p \in Node /\ Nil \notin Node
      /\ c \in Node \cup {Nil} /\ q \in Node \cup {Nil} /\ s \in In(t) /\ s # t.root
      /\ n # s /\ n # r /\ n # l /\ s # l /\ r # l /\ n # c /\ s # c /\ l # c /\ r # c
      /\ q # n /\ q # s /\ q # l /\ q # r /\ q # p /\ p # n /\ p # l /\ p # c
      /\ t.parent[l] = n /\ t.parent[r] = n /\ (s # r => p # s /\ t.parent[s] = p)
  BY RbTreeConstants DEF Apart
<1>3. t \in Trees /\ t.parent[s] \in Node \cup {Nil}
  BY <1>2 DEF Shape, Trees
<1>4. PICK cs : cs = [e \in Side |-> [m \in Node |->
                       IF m = s THEN Nil ELSE IF t.child[e][m] = s THEN c ELSE t.child[e][m]]]
  BY Zenon
<1>5. PICK ps : ps = [m \in Node |-> IF m = s THEN Nil ELSE IF m = c THEN t.parent[s]
                                     ELSE t.parent[m]]
  BY Zenon
<1>6. PICK bs : bs = [m \in Node |-> IF m = s THEN FALSE ELSE IF m = c THEN t.black[s]
                                     ELSE t.black[m]]
  BY Zenon
<1>7. PICK v : v = [root |-> t.root, leftmost |-> t.leftmost, child |-> cs, parent |-> ps,
                    black |-> bs, last |-> t.last]
  BY Zenon
<1>8. cs \in [Side -> [Node -> Node \cup {Nil}]]
  BY <1>2, <1>3, <1>4 DEF Trees
<1>9. ps \in [Node -> Node \cup {Nil}]
  BY <1>2, <1>3, <1>5 DEF Trees
<1>10. bs \in [Node -> BOOLEAN]
  <2>1. \A m \in Node : t.black[m] \in BOOLEAN
    BY <1>3, BitType
  <2> QED BY Zenon, <1>2, <1>6, <2>1
<1>11. v \in Trees /\ v.root = t.root
  BY <1>3, <1>7, <1>8, <1>9, <1>10 DEF Trees
<1>12. /\ \A e \in Side, m \in Node :
            v.child[e][m] = IF m = s THEN Nil ELSE IF t.child[e][m] = s THEN c ELSE t.child[e][m]
       /\ \A m \in Node : v.parent[m] = IF m = s THEN Nil ELSE IF m = c THEN t.parent[s]
                                        ELSE t.parent[m]
       /\ \A m \in Node : v.black[m] = IF m = s THEN FALSE ELSE IF m = c THEN t.black[s]
                                       ELSE t.black[m]
  BY <1>4, <1>5, <1>6, <1>7
<1>13. Removed(t, v, s, c, t.parent[s])
  <2>1. \E d \in Side : t.child[Other(d)][s] = Nil /\ c = t.child[d][s]
    BY <1>1, LeftRight
  <2> QED BY <1>2, <1>11, <1>12, <2>1 DEF Removed
<1>14. Inherited(t, v, s, c)
  BY Zenon, <1>12 DEF Inherited
<1>15. PICK w : w = Swap(n, s)
  OBVIOUS
<1>16. /\ w[n] = s /\ w[s] = n /\ w[Nil] = Nil
       /\ \A m \in Node \cup {Nil} : m # n /\ m # s => w[m] = m
  BY <1>2, <1>15 DEF Swap
<1>17. /\ u \in Trees /\ u.root = (IF n = t.root THEN s ELSE t.root)
       /\ \A e \in Side, m \in Node :
            u.child[e][m] = IF m = n THEN Nil
                            ELSE IF m = s THEN (IF e = "left" THEN l ELSE IF s = r THEN c ELSE r)
                            ELSE IF t.child[e][m] = n THEN s
                            ELSE IF t.child[e][m] = s THEN c ELSE t.child[e][m]
       /\ \A m \in Node :
            u.parent[m] = IF m = n THEN Nil ELSE IF m = s THEN q ELSE IF m = c THEN p
                          ELSE IF t.parent[m] = n THEN s ELSE t.parent[m]
       /\ \A m \in Node :
            u.black[m] = IF m = n THEN FALSE ELSE IF m = s THEN t.black[n]
                         ELSE m = c \/ t.black[m]
  BY Zenon DEF Replaced
<1>18. u.root = w[v.root]
  <2>1. t.root \in Node \cup {Nil}
    BY <1>3 DEF Trees
  <2> QED BY <1>2, <1>11, <1>16, <1>17, <2>1
<1>19. ASSUME NEW e \in Side, NEW m \in Node PROVE u.child[e][m] = w[v.child[e][w[m]]]
  <2>1. CASE m = n
    <3>1. v.child[e][w[m]] = Nil
      BY <1>2, <1>12, <1>16, <2>1
    <3>2. u.child[e][m] = Nil
      BY <1>17, <2>1
    <3> QED BY <1>16, <3>1, <3>2
  <2>2. CASE m = s
    <3>1. w[m] = n /\ v.child[e][n] = IF t.child[e][n] = s THEN c ELSE t.child[e][n]
      BY <1>2, <1>12, <1>16, <2>2
    <3>2. u.child[e][m] = IF e = "left" THEN l ELSE IF s = r THEN c ELSE r
      BY <1>2, <1>17, <2>2
    <3>3. CASE e = "left"
      <4>1. v.child[e][n] = l /\ u.child[e][m] = l
        BY <1>1, <1>2, <3>1, <3>2, <3>3
      <4> QED BY <1>2, <1>16, <3>1, <4>1
    <3>4. CASE e # "left"
      <4>1. e = "right"
        BY <3>4, Sides
      <4>2. v.child[e][n] = (IF s = r THEN c ELSE r) /\ u.child[e][m] = (IF s = r THEN c ELSE r)
        BY <1>1, <3>1, <3>2, <3>4, <4>1
      <4> QED BY <1>2, <1>16, <3>1, <4>2
    <3> QED BY <3>3, <3>4
  <2>3. CASE m # n /\ m # s
    <3>1. w[m] = m
      BY <1>16, <2>3
    <3>2. v.child[e][m] = IF t.child[e][m] = s THEN c ELSE t.child[e][m]
      BY <1>12, <2>3
    <3>3. u.child[e][m] = IF t.child[e][m] = n THEN s
                          ELSE IF t.child[e][m] = s THEN c ELSE t.child[e][m]
      BY <1>17, <2>3
    <3>4. t.child[e][m] \in Node \cup {Nil}
      BY DEF Apart
    <3> QED BY <1>2, <1>16, <3>1, <3>2, <3>3, <3>4
  <2> QED BY <2>1, <2>2, <2>3
<1>20. ASSUME NEW m \in Node PROVE u.parent[m] = w[v.parent[w[m]]]
  <2>1. CASE m = n
    <3>1. v.parent[w[m]] = Nil /\ u.parent[m] = Nil
      BY <1>2, <1>12, <1>16, <1>17, <2>1
    <3> QED BY <1>16, <3>1
  <2>2. CASE m = s
    <3>1. w[m] = n /\ v.parent[n] = q /\ u.parent[m] = q
      <4>1. /\ q = t.parent[n] /\ n \in Node /\ n # c /\ q # r /\ q # p /\ t.parent[r] = n
            /\ (s # r => p # s /\ t.parent[s] = p)
            /\ \A k \in Node :
                 v.parent[k] = IF k = s THEN Nil ELSE IF k = c THEN t.parent[s] ELSE t.parent[k]
            /\ w[s] = n
            /\ \A k \in Node :
                 u.parent[k] = IF k = n THEN Nil ELSE IF k = s THEN q ELSE IF k = c THEN p
                               ELSE IF t.parent[k] = n THEN s ELSE t.parent[k]
        BY Zenon, <1>1, <1>2, <1>12, <1>16, <1>17
      <4> QED BY <4>1, <2>2
    <3> QED BY SMTT(30), <1>2, <1>16, <3>1
  <2>3. CASE m # n /\ m # s /\ m = c
    <3>1. w[m] = m /\ v.parent[m] = t.parent[s] /\ u.parent[m] = p
      BY <1>2, <1>12, <1>16, <1>17, <2>3
    <3>2. w[t.parent[s]] = p
      <4>1. CASE s = r
        BY <1>1, <1>2, <1>16, <4>1
      <4>2. CASE s # r
        BY <1>1, <1>2, <1>16, <4>2
      <4> QED BY SMTT(30), <4>1, <4>2
    <3> QED BY <3>1, <3>2
  <2>4. CASE m # n /\ m # s /\ m # c
    <3>1. w[m] = m /\ v.parent[m] = t.parent[m]
          /\ u.parent[m] = IF t.parent[m] = n THEN s ELSE t.parent[m]
      BY <1>2, <1>12, <1>16, <1>17, <2>4
    <3>2. t.parent[m] # s
      BY <2>4 DEF Apart
    <3>3. t.parent[m] \in Node \cup {Nil}
      BY <1>3 DEF Trees
    <3> QED BY <1>16, <3>1, <3>2, <3>3
  <2> QED BY <2>1, <2>2, <2>3, <2>4
<1>21. Swapped(v, u, w)
  BY <1>17, <1>18, <1>19, <1>20 DEF Swapped
<1>22. ASSUME NEW m \in Node PROVE u.black[m] = v.black[w[m]]
  <2>0. t.black[m] \in BOOLEAN /\ (c # Nil => t.black[s])
    BY <1>3, BitType
  <2>1. CASE m = n
    <3>1. w[m] = s /\ v.black[s] = FALSE
      BY Zenon, <1>2, <1>12, <1>16, <2>1
    <3>2. u.black[m] = FALSE
      BY Zenon, <1>17, <2>1
    <3> QED BY Zenon, <3>1, <3>2
  <2>2. CASE m = s
    <3>1. w[m] = n /\ v.black[n] = t.black[n] /\ u.black[m] = t.black[n]
      BY ZenonT(90), <1>2, <1>12, <1>16, <1>17, <2>2
    <3> QED BY <3>1
  <2>3. CASE m # n /\ m # s /\ m = c
    <3>1. w[m] = m /\ u.black[m] = TRUE
      BY Zenon, <1>2, <1>16, <1>17, <2>3
    <3>2. v.black[m] = t.black[s]
      BY Zenon, <1>12, <2>3
    <3>3. t.black[s] = TRUE
      <4>1. c # Nil /\ t.black[s] \in BOOLEAN
        BY <1>2, <1>3, <2>3, BitType
      <4> QED BY <2>0, <4>1
    <3> QED BY Zenon, <3>1, <3>2, <3>3
  <2>4. CASE m # n /\ m # s /\ m # c
    <3>1. w[m] = m /\ v.black[m] = t.black[m]
      BY Zenon, <1>12, <1>16, <2>4
    <3>2. u.black[m] = (m = c \/ t.black[m])
      BY Zenon, <1>17, <2>4
    <3> QED BY <2>0, <2>4, <3>1, <3>2
  <2> QED BY <2>1, <2>2, <2>3, <2>4
<1>23. SuccessorSwap(t, u, v, n, s, c)
  BY <1>13, <1>14, <1>15, <1>21, <1>22, InNode DEF SuccessorSwap, SwappedBlack
<1> QED BY <1>23

(* The order, although s and n have changed places.                        *)
LEMMA InnerOrder ==
  ASSUME NEW t, NEW below, Shape(t, below), NEW n, NEW s, NEW r, NEW l, NEW c, NEW p, NEW q,
         Successor(t, n, s, r, l, c, p, q), Apart(t, n, s, r, l, c, p, q),
         OuterIs(t, below, r, "left", s), r \in In(t),
         NEW u, NEW v, SuccessorSwap(t, u, v, n, s, c),
         NEW R, Transitive(R), Ordered(t, below, R)
  PROVE  Ordered(u, SwappedBelow(RemovedBelow(below, s), Swap(n, s)), R)
<1>1. /\ r = t.child["right"][n] /\ l = t.child["left"][n]
      /\ n \in Node /\ s \in Node /\ r \in Node /\ l \in Node /\ Nil \notin Node
      /\ s \in In(t) /\ n # s /\ "right" \in Side /\ "left" \in Side
  BY RbTreeConstants, LeftRight DEF Successor, Apart
<1>2. PICK C : C = RemovedBelow(below, s)
  OBVIOUS
<1>3. PICK w : w = Swap(n, s)
  OBVIOUS
<1>4. /\ Removed(t, v, s, c, t.parent[s]) /\ Swapped(v, u, w) /\ Involution(w)
  BY <1>1, <1>3, SwapTwice DEF SuccessorSwap
<1>5. Shape(v, C)
  BY <1>1, <1>2, <1>4, RemoveKeepsShape
<1>6. /\ w[n] = s /\ w[s] = n
      /\ \A m \in Node : m # n /\ m # s => w[m] = m
  BY <1>1, <1>3 DEF Swap
<1>7. /\ \A e \in Side : v.child[e][s] = Nil
      /\ \A m \in Node, e \in Side : \A k :
              m # s => (k \in C[v.child[e][m]] <=> k \in below[t.child[e][m]] /\ k # s)
      /\ C[Nil] = {}
  BY <1>1, <1>2, <1>4, RemoveBelow
<1>8. s \in below[r] /\ below[r] \in SUBSET Node /\ below[l] \in SUBSET Node
      /\ n \notin below[r] /\ n \notin below[l] /\ (\A k \in below[l] : k # s)
  <2>1. s \in below[r]
    BY DEF OuterIs
  <2>2. below[r] \in SUBSET Node /\ below[l] \in SUBSET Node
    BY <1>1, BelowParts
  <2>3. \A d \in Side : /\ n \notin below[t.child[d][n]]
                        /\ \A m \in below[t.child[d][n]] : m \notin below[t.child[Other(d)][n]]
    BY <1>1 DEF Shape, Subtrees
  <2>4. n \notin below[r] /\ n \notin below[l] /\ \A m \in below[l] : m \notin below[r]
    BY <1>1, <2>3, LeftRight
  <2> QED BY <2>1, <2>2, <2>4
<1>9. <<n, s>> \in R /\ (\A k \in below[l] : <<k, n>> \in R)
  BY Zenon, <1>1, <1>8, LeftRight DEF Ordered, Precedes
<1>10. \A k \in below[r] : k # s => <<s, k>> \in R
  BY LeftmostPrecedes
<1>11. PICK B : B = SwappedBelow(C, w)
  OBVIOUS
<1>12. ASSUME NEW m \in Node, NEW d \in Side, NEW k \in B[u.child[d][m]]
       PROVE  Precedes(R, d, k, m)
  <2>1. k \in Node /\ w[k] \in C[v.child[d][w[m]]]
    BY <1>4, <1>5, <1>11, <1>12, SwappedSubtree
  <2>2. m # n
    BY <1>6, <1>7, <2>1
  <2>3. w[m] \in Node /\ w[m] # s
    BY <1>1, <1>6, <2>2
  <2>4. w[k] \in below[t.child[d][w[m]]] /\ w[k] # s
    BY Zenon, <1>7, <2>1, <2>3
  <2>5. k # n
    BY <1>6, <2>4
  <2>6. CASE m = s
    <3>1. w[k] \in below[t.child[d][n]] /\ w[k] # n
      <4>1. w[m] = n
        BY <1>6, <2>6
      <4>2. n \notin below[t.child[d][n]]
        BY <1>1 DEF Shape, Subtrees
      <4> QED BY <2>4, <4>1, <4>2
    <3>2. k # s /\ w[k] = k
      BY <1>6, <2>1, <2>5, <3>1
    <3>3. CASE d = "left"
      <4>1. <<k, n>> \in R
        BY <1>1, <1>9, <3>1, <3>2, <3>3
      <4>2. <<k, s>> \in R
        BY <1>1, <1>9, <2>1, <4>1 DEF Transitive
      <4> QED BY <2>6, <3>3, <4>2 DEF Precedes
    <3>4. CASE d # "left"
      <4>1. d = "right"
        BY <3>4, Sides
      <4>2. <<s, k>> \in R
        BY <1>1, <1>10, <3>1, <3>2, <4>1
      <4> QED BY <2>6, <3>4, <4>2 DEF Precedes
    <3> QED BY <3>3, <3>4
  <2>7. CASE m # s
    <3>1. w[m] = m
      BY <1>6, <2>2, <2>7
    <3>2. CASE k = s
      <4>1. n \in below[t.child[d][m]]
        BY <1>6, <2>4, <3>1, <3>2
      <4>2. s \in below[n]
        <5>1. \A j \in below[r] : j \in below[n]
          BY <1>1, ChildFacts
        <5> QED BY <1>8, <5>1
      <4>3. t.child[d][m] \in Node
        <5>1. t.child[d][m] \in Node \cup {Nil} /\ below[Nil] = {}
          BY DEF Shape, Trees, Subtrees
        <5> QED BY <4>1, <5>1
      <4>4. s \in below[t.child[d][m]]
        BY <4>1, <4>2, <4>3, BelowBelow
      <4> QED BY <3>2, <4>4 DEF Ordered
    <3>3. CASE k # s
      <4>1. w[k] = k
        BY <1>6, <2>1, <2>5, <3>3
      <4>2. k \in below[t.child[d][m]]
        BY <2>4, <3>1, <4>1
      <4> QED BY <4>2 DEF Ordered
    <3> QED BY <3>2, <3>3
  <2> QED BY <2>6, <2>7
<1>13. Ordered(u, B, R)
  BY <1>12 DEF Ordered
<1> QED BY <1>2, <1>3, <1>11, <1>13

(* An erasure of a node with two children.                                 *)
LEMMA EraseInnerKeeps ==
  ASSUME NEW below, Shape(tree, below), NEW hb, Loops(tree, pc, node, parent, hb),
         NEW n \in Node, Erase(n), \A d \in Side : tree.child[d][n] # Nil
  PROVE  Erased(below, n)
<1>1. pc = "idle" /\ n \in In(tree)
  BY RbTreeConstants DEF Erase, InTree, In, Shape, Trees
<1>2. PICK u : u = tree'
  OBVIOUS
<1>3. PICK first : first = LeftmostWithout(n)
  OBVIOUS
<1>4. /\ u = [Unlink(EraseInner(n).tree, n) EXCEPT !.leftmost = first]
      /\ EraseBegins(EraseInner(n).rebalance)
  BY <1>2, <1>3 DEF Erase, EraseBegins
<1>5. first \in Node \cup {Nil}
  BY <1>1, <1>3, LeftmostType
<1>6. PICK r, l, q : r = tree.child["right"][n] /\ l = tree.child["left"][n] /\ q = tree.parent[n]
  OBVIOUS
<1>7. PICK s : s = Outermost(tree, r, "left")
  OBVIOUS
<1>8. PICK c, p : c = tree.child["right"][s] /\ p = (IF s = r THEN s ELSE tree.parent[s])
  OBVIOUS
<1>9. l # Nil /\ r # Nil
  BY <1>6, LeftRight
<1>10. r \in In(tree)
  BY <1>6, <1>9, LeftRight, ChildFacts
<1>11. OuterIs(tree, below, r, "left", s)
  BY <1>7, <1>10, LeftRight, OutermostIs
<1>12. Successor(tree, n, s, r, l, c, p, q)
  BY <1>1, <1>6, <1>8, <1>11 DEF Successor, OuterIs
<1>13. Apart(tree, n, s, r, l, c, p, q)
  BY <1>9, <1>11, <1>12, SuccessorApart
<1>14. /\ Replaced(tree, u, n, s, r, l, c, p, q, first)
       /\ EraseInner(n).rebalance = IF c = Nil /\ tree.black[s] THEN p ELSE Nil
  BY <1>4, <1>5, <1>7, <1>12, <1>13, EraseInnerFields
<1>15. Paths(tree, hb, Nil, "left") /\ RedsOk(tree, Nil)
  BY <1>1 DEF Loops
<1>16. s \in In(tree) /\ s \in Node /\ tree.child["left"][s] = Nil /\ n # s
  BY <1>12, <1>13 DEF Apart, Successor
<1>17. c # Nil => tree.black[s]
  <2>1. c = tree.child["right"][s] /\ tree.child[Other("right")][s] = Nil /\ "right" \in Side
    BY <1>8, <1>16, LeftRight
  <2> QED BY <1>15, <1>16, <2>1, OnlyChild
<1>18. PICK v : SuccessorSwap(tree, u, v, n, s, c)
  BY <1>12, <1>13, <1>14, <1>17, InnerSwap
<1>19. PICK w : w = Swap(n, s)
  OBVIOUS
<1>20. /\ Removed(tree, v, s, c, tree.parent[s]) /\ Inherited(tree, v, s, c)
       /\ Swapped(v, u, w) /\ SwappedBlack(v, u, w) /\ Involution(w)
  BY <1>16, <1>18, <1>19, SwapTwice DEF SuccessorSwap
<1>21. PICK C : C = RemovedBelow(below, s)
  OBVIOUS
<1>22. Shape(v, C)
  BY <1>16, <1>20, <1>21, RemoveKeepsShape
<1>23. /\ w[n] = s /\ w[s] = n /\ w[Nil] = Nil
       /\ \A m \in Node \cup {Nil} : m # n /\ m # s => w[m] = m
  BY <1>16, <1>19, RbTreeConstants DEF Swap
<1>24. /\ \A m \in Node : m \in In(v) <=> m \in In(tree) /\ m # s
       /\ IsFiniteSet(In(tree))
  <2>1. \A m \in Node : m \in In(v) <=> m \in In(tree) /\ m # s
    BY <1>16, <1>20, RemoveKeepsIn
  <2>2. IsFiniteSet(In(tree))
    BY DEF Shape, Subtrees
  <2> QED BY <2>1, <2>2
<1>25. IsFiniteSet(In(u))
  <2>1. \A m \in In(u) : m \in In(tree)
    <3> SUFFICES ASSUME NEW m \in In(u), m \notin In(tree) PROVE FALSE
      OBVIOUS
    <3>1. m \in Node /\ m # n /\ m # s
      BY <1>1, <1>16, InNode
    <3>2. tree.parent[m] = Nil /\ m # tree.root
      BY <3>1 DEF In
    <3>3. m # u.root
      BY <1>14, <3>1, <3>2 DEF Replaced
    <3>4. m # c
      BY <1>13, <3>1, RbTreeConstants DEF Apart
    <3>5. u.parent[m] = Nil
      BY <1>1, <1>14, <3>1, <3>2, <3>4, InNode DEF Replaced
    <3> QED BY <3>3, <3>5 DEF In
  <2> QED BY <1>24, <2>1, FS_Subset
<1>26. PICK B : B = SwappedBelow(C, w)
  OBVIOUS
<1>27. Shape(u, B) /\ \A m \in Node : m \in In(u) <=> w[m] \in In(v)
  BY <1>20, <1>22, <1>25, <1>26, SwapKeepsShape
<1>28. \A m \in Node : m \in In(u) <=> m \in In(tree) /\ m # n
  <2> SUFFICES ASSUME NEW m \in Node PROVE m \in In(u) <=> m \in In(tree) /\ m # n
    OBVIOUS
  <2>1. CASE m = n
    BY <1>16, <1>23, <1>24, <1>27, <2>1
  <2>2. CASE m = s
    BY <1>1, <1>16, <1>23, <1>24, <1>27, <2>2
  <2>3. CASE m # n /\ m # s
    BY <1>23, <1>24, <1>27, <2>3
  <2> QED BY <2>1, <2>2, <2>3
<1>29. PICK h : AfterErase(v, Lacking(tree, s, c, tree.parent[s]), h)
  BY <1>15, <1>16, <1>20, RemoveKeepsLoops
<1>30. PICK lack : lack = Lacking(tree, s, c, tree.parent[s])
  OBVIOUS
<1>31. PICK H : AfterErase(u, w[lack], H)
  BY <1>20, <1>22, <1>25, <1>29, <1>30, SwapKeepsLoops
<1>32. EraseInner(n).rebalance = w[lack]
  <2>1. w[tree.parent[s]] = p
    <3>1. CASE s = r
      <4>1. tree.parent[s] = n /\ p = s
        BY <1>8, <1>13, <3>1 DEF Apart
      <4> QED BY <1>23, <4>1
    <3>2. CASE s # r
      <4>1. tree.parent[s] = p /\ p # n /\ p # s /\ p \in Node
        BY <1>13, <3>2 DEF Apart
      <4> QED BY <1>23, <4>1
    <3> QED BY <3>1, <3>2
  <2> QED BY <1>14, <1>23, <1>30, <2>1 DEF Lacking
<1>33. Loops(tree', pc', node', parent', H)
  BY <1>2, <1>4, <1>31, <1>32, EraseLoops
<1>34. \A R : Transitive(R) /\ Ordered(tree, below, R) => Ordered(u, B, R)
  BY <1>10, <1>11, <1>12, <1>13, <1>18, <1>19, <1>21, <1>26, InnerOrder
<1>35. ASSUME FirstIs(tree, below, tree.leftmost) PROVE FirstIs(u, B, u.leftmost)
  <2>1. PICK f : f = tree.leftmost
    OBVIOUS
  <2>2. /\ f \in In(tree) /\ f \in Node /\ tree.child["left"][f] = Nil
        /\ \A m \in Node : f \notin below[tree.child["right"][m]]
    <3>1. tree.root # Nil
      BY <1>1, RbTreeConstants DEF In, Shape, Links, Trees, Subtrees
    <3> QED BY <1>35, <2>1, <3>1, InNode DEF FirstIs
  <2>3. f # n /\ f # s
    BY <1>6, <1>9, <1>11, <2>2 DEF OuterIs
  <2>4. first = f /\ u.leftmost = f
    BY <1>3, <1>14, <2>1, <2>3 DEF LeftmostWithout, Replaced
  <2>5. FirstIs(v, C, f)
    BY <1>16, <1>20, <1>21, <1>35, <2>1, <2>3, RemoveKeepsFirst
  <2>6. FirstIs(u, B, w[f])
    BY <1>20, <1>22, <1>25, <1>26, <2>5, SwapKeepsFirst
  <2> QED BY <1>23, <2>2, <2>3, <2>4, <2>6
<1>36. Lessened(tree, below, tree', B, n)
  BY <1>2, <1>27, <1>28, <1>34, <1>35 DEF Lessened
<1> QED BY <1>33, <1>36 DEF Erased

(* Every erasure.                                                          *)
LEMMA EraseKeeps ==
  ASSUME NEW below, Shape(tree, below), NEW hb, Loops(tree, pc, node, parent, hb),
         NEW n \in Node, Erase(n)
  PROVE  Erased(below, n)
<1>1. CASE \E d \in Side : tree.child[d][n] = Nil
  BY <1>1, EraseOuterKeeps
<1>2. CASE \A d \in Side : tree.child[d][n] # Nil
  BY <1>2, EraseInnerKeeps
<1> QED BY <1>1, <1>2

-----------------------------------------------------------------------------
(* Replacing a node                                                        *)

(* new has taken over everything of old.                                   *)
TakenOver(t, u, old, new) ==
  /\ u \in Trees /\ u.leftmost = (IF t.leftmost = old THEN new ELSE t.leftmost)
  /\ u.root = (IF old = t.root THEN new ELSE t.root)
  /\ \A e \in Side, m \in Node :
       u.child[e][m] = IF m = old THEN Nil ELSE IF m = new THEN t.child[e][old]
                       ELSE IF t.child[e][m] = old THEN new ELSE t.child[e][m]
  /\ \A m \in Node :
       u.parent[m] = IF m = old THEN Nil ELSE IF m = new THEN t.parent[old]
                     ELSE IF t.parent[m] = old THEN new ELSE t.parent[m]
  /\ \A m \in Node :
       /\ u.black[m] = IF m = old THEN FALSE ELSE IF m = new THEN t.black[old] ELSE t.black[m]
       /\ u.last[m] = IF m = old THEN 0 ELSE IF m = new THEN t.last[old] ELSE t.last[m]

(* No pointer goes to a node outside the tree.                             *)
LEMMA Outside ==
  ASSUME NEW t, NEW below, Shape(t, below), NEW new \in Node, new \notin In(t)
  PROVE  /\ t.root # new /\ t.parent[new] = Nil
         /\ \A e \in Side, m \in Node : t.child[e][m] # new /\ t.child[e][new] = Nil
         /\ \A m \in Node : t.parent[m] # new
<1>1. new # Nil
  BY RbTreeConstants
<1>2. t.root # new /\ t.parent[new] = Nil
  BY DEF In
<1>3. \A e \in Side, m \in Node : t.child[e][m] # new /\ t.child[e][new] = Nil
  <2>1. \A e \in Side, m \in Node : t.child[e][m] # Nil => t.child[e][m] \in In(t)
    BY ChildFacts
  <2>2. \A e \in Side : t.child[e][new] = Nil
    BY DEF Shape, Links
  <2> QED BY <1>1, <2>1, <2>2
<1>4. \A m \in Node : t.parent[m] # new
  <2>1. \A m \in Node : t.parent[m] # Nil => \E d \in Side : t.child[d][t.parent[m]] = m
    BY DEF Shape, Links
  <2> QED BY <1>1, <1>3, <2>1, RbTreeConstants
<1> QED BY <1>2, <1>3, <1>4

(* rb_replace_node.                                                        *)
LEMMA ReplaceFields ==
  ASSUME NEW below, Shape(tree, below), NEW old \in In(tree), NEW new \in Node,
         new \notin In(tree), ReplaceNode(old, new)
  PROVE  TakenOver(tree, tree', old, new)
<1>1. old \in Node /\ old # Nil /\ new # Nil /\ old # new /\ tree \in Trees
  BY InNode, RbTreeConstants DEF Shape
<1>2. PICK l, r, p : l = tree.child["left"][old] /\ r = tree.child["right"][old]
                     /\ p = tree.parent[old]
  OBVIOUS
<1>3. PICK a : a = [tree EXCEPT
                      !.child = [d \in Side |-> [@[d] EXCEPT ![new] = tree.child[d][old]]],
                      !.parent[new] = tree.parent[old],
                      !.black[new] = tree.black[old],
                      !.last[new] = tree.last[old],
                      !.leftmost = IF @ = old THEN new ELSE @]
  BY Zenon
<1>4. PICK b : b = SetParent(a, l, new)
  OBVIOUS
<1>5. PICK c : c = SetParent(b, r, new)
  OBVIOUS
<1>6. PICK z : z = ChangeChild(c, old, new, p)
  OBVIOUS
<1>7. tree' = Unlink(z, old)
  BY <1>2, <1>3, <1>4, <1>5, <1>6 DEF ReplaceNode
<1>8. /\ l \in Node \cup {Nil} /\ r \in Node \cup {Nil} /\ p \in Node \cup {Nil}
      /\ \A d \in Side : tree.child[d][old] \in Node \cup {Nil}
      /\ tree.black[old] \in BOOLEAN /\ tree.last[old] \in Int
      /\ tree.leftmost \in Node \cup {Nil}
  BY <1>1, <1>2, LeftRight, BitType DEF Trees
<1>9. a = [root |-> tree.root, leftmost |-> IF tree.leftmost = old THEN new ELSE tree.leftmost,
           child |-> [d \in Side |-> [tree.child[d] EXCEPT ![new] = tree.child[d][old]]],
           parent |-> [tree.parent EXCEPT ![new] = tree.parent[old]],
           black |-> [tree.black EXCEPT ![new] = tree.black[old]],
           last |-> [tree.last EXCEPT ![new] = tree.last[old]]]
  BY Zenon, <1>1, <1>3 DEF Trees
<1>10. /\ a.child \in [Side -> [Node -> Node \cup {Nil}]]
       /\ \A e \in Side, m \in Node :
            a.child[e][m] = IF m = new THEN tree.child[e][old] ELSE tree.child[e][m]
  BY <1>1, <1>8, <1>9 DEF Trees
<1>11. /\ a.parent \in [Node -> Node \cup {Nil}]
       /\ \A m \in Node : a.parent[m] = IF m = new THEN p ELSE tree.parent[m]
  BY <1>1, <1>2, <1>8, <1>9 DEF Trees
<1>12. /\ a.black \in [Node -> BOOLEAN]
       /\ \A m \in Node : a.black[m] = IF m = new THEN tree.black[old] ELSE tree.black[m]
  BY <1>1, <1>8, <1>9 DEF Trees
<1>13. /\ a.last \in [Node -> Int]
       /\ \A m \in Node : a.last[m] = IF m = new THEN tree.last[old] ELSE tree.last[m]
  BY <1>1, <1>8, <1>9 DEF Trees
<1>14. /\ a.leftmost \in Node \cup {Nil} /\ a.root = tree.root /\ a.root \in Node \cup {Nil}
       /\ a.leftmost = (IF tree.leftmost = old THEN new ELSE tree.leftmost)
  BY <1>1, <1>8, <1>9 DEF Trees
<1>15. a \in Trees
  BY <1>9, <1>10, <1>11, <1>12, <1>13, <1>14 DEF Trees
<1>16. ParentSet(a, b, l, new)
  BY <1>4, <1>8, <1>15, SetParentFields
<1>17. b \in Trees
  BY <1>16 DEF ParentSet
<1>18. ParentSet(b, c, r, new)
  BY <1>5, <1>8, <1>17, SetParentFields
<1>19. /\ c \in Trees /\ c.root = a.root /\ c.leftmost = a.leftmost /\ c.child = a.child
       /\ c.black = a.black /\ c.last = a.last
       /\ \A m \in Node : c.parent[m] = IF m = r THEN new ELSE IF m = l THEN new ELSE a.parent[m]
  BY <1>16, <1>18 DEF ParentSet
<1>20. ChildChanged(c, z, old, new, p)
  BY <1>1, <1>6, <1>8, <1>19, ChangeChildFields
<1>21. /\ z \in Trees /\ z.leftmost = a.leftmost /\ z.parent = c.parent /\ z.black = a.black
       /\ z.last = a.last /\ z.root = (IF p = Nil THEN new ELSE tree.root)
  BY <1>14, <1>19, <1>20 DEF ChildChanged
<1>22. z.leftmost \in Node \cup {Nil}
  BY <1>14, <1>21
<1>23. tree' = [Unlink(z, old) EXCEPT !.leftmost = z.leftmost]
  BY Zenon, <1>7 DEF Unlink
<1>24. Unlinked(z, tree', old, z.leftmost)
  BY <1>1, <1>21, <1>22, <1>23, UnlinkFields
<1>25. /\ p = Nil <=> old = tree.root
       /\ \A e \in Side, m \in Node :
            tree.child[e][m] = old <=>
              m = p /\ e = (IF tree.child["left"][p] = old THEN "left" ELSE "right")
  BY <1>2, PlaceOfChild
<1>26. /\ tree.parent[new] = Nil
       /\ \A e \in Side, m \in Node : tree.child[e][m] # new /\ tree.child[e][new] = Nil
       /\ \A m \in Node : tree.parent[m] # new
  BY Outside
<1>27. p # new
  BY <1>1, <1>2, <1>26
<1>28. ASSUME NEW e \in Side, NEW m \in Node
       PROVE  tree'.child[e][m] = IF m = old THEN Nil ELSE IF m = new THEN tree.child[e][old]
                                  ELSE IF tree.child[e][m] = old THEN new ELSE tree.child[e][m]
  <2>1. tree'.child[e][m] = IF m = old THEN Nil ELSE z.child[e][m]
    BY <1>24 DEF Unlinked
  <2>2. z.child[e][m] = IF m = p /\ e = (IF c.child["left"][p] = old THEN "left" ELSE "right")
                        THEN new ELSE c.child[e][m]
    BY <1>20 DEF ChildChanged
  <2>3. p \in Node => c.child["left"][p] = tree.child["left"][p]
    BY <1>10, <1>19, <1>27, LeftRight
  <2>4. c.child[e][m] = IF m = new THEN tree.child[e][old] ELSE tree.child[e][m]
    BY <1>10, <1>19
  <2>5. z.child[e][m] = IF tree.child[e][m] = old THEN new ELSE c.child[e][m]
    BY <1>25, <2>2, <2>3
  <2>6. tree.child[e][new] # old
    BY <1>1, <1>26
  <2> QED BY <2>1, <2>4, <2>5, <2>6
<1>29. ASSUME NEW m \in Node
       PROVE  tree'.parent[m] = IF m = old THEN Nil ELSE IF m = new THEN tree.parent[old]
                                ELSE IF tree.parent[m] = old THEN new ELSE tree.parent[m]
  <2>1. tree'.parent[m] = IF m = old THEN Nil ELSE c.parent[m]
    BY <1>21, <1>24 DEF Unlinked
  <2>2. c.parent[m] = IF m = r \/ m = l THEN new ELSE IF m = new THEN p ELSE tree.parent[m]
    BY <1>11, <1>19
  <2>3. m = r \/ m = l <=> tree.parent[m] = old
    <3>1. \A d \in Side : tree.child[d][old] # Nil => tree.parent[tree.child[d][old]] = old
      BY <1>1 DEF Shape, Links
    <3>2. tree.parent[m] = old => \E d \in Side : tree.child[d][old] = m
      BY <1>1 DEF Shape, Links
    <3> QED BY <1>2, <3>1, <3>2, Sides, RbTreeConstants
  <2>4. tree.parent[new] # old
    BY <1>1, <1>26
  <2> QED BY <1>2, <2>1, <2>2, <2>3, <2>4
<1>30. ASSUME NEW m \in Node
       PROVE  /\ tree'.black[m] = IF m = old THEN FALSE ELSE IF m = new THEN tree.black[old]
                                  ELSE tree.black[m]
              /\ tree'.last[m] = IF m = old THEN 0 ELSE IF m = new THEN tree.last[old]
                                 ELSE tree.last[m]
  <2>1. tree'.black[m] = IF m = old THEN FALSE ELSE a.black[m]
    BY Zenon, <1>21, <1>24 DEF Unlinked
  <2>2. tree'.last[m] = IF m = old THEN 0 ELSE a.last[m]
    BY <1>21, <1>24 DEF Unlinked
  <2>3. a.black[m] = IF m = new THEN tree.black[old] ELSE tree.black[m]
    BY <1>12
  <2>4. a.last[m] = IF m = new THEN tree.last[old] ELSE tree.last[m]
    BY <1>13
  <2> QED BY <2>1, <2>2, <2>3, <2>4
<1>31. /\ tree' \in Trees
       /\ tree'.leftmost = (IF tree.leftmost = old THEN new ELSE tree.leftmost)
       /\ tree'.root = (IF old = tree.root THEN new ELSE tree.root)
  BY <1>14, <1>21, <1>24, <1>25 DEF Unlinked
<1> QED BY Zenon, <1>28, <1>29, <1>30, <1>31 DEF TakenOver

(* What a replacement has to show.                                         *)
Substituted(below, old, new) ==
  \E B, h :
    /\ Shape(tree', B) /\ Loops(tree', pc', node', parent', h)
    /\ \A m \in Node : m \in In(tree') <=> (m \in In(tree) /\ m # old) \/ m = new
    /\ FirstIs(tree, below, tree.leftmost) => FirstIs(tree', B, tree'.leftmost)
    /\ \A R : Respects(R, Swap(old, new)) /\ Ordered(tree, below, R) => Ordered(tree', B, R)

(* The tree under new names, of which one was not in use.                  *)
LEMMA ReplaceKeeps ==
  ASSUME NEW below, Shape(tree, below), NEW hb, Loops(tree, pc, node, parent, hb),
         NEW old \in Node, NEW new \in Node, ReplaceNode(old, new)
  PROVE  Substituted(below, old, new)
<1>1. /\ pc = "idle" /\ old \in In(tree) /\ new \notin In(tree) /\ old # new
      /\ pc' = pc /\ node' = node /\ parent' = parent
  BY RbTreeConstants DEF ReplaceNode, InTree, In, Shape, Trees
<1>2. PICK t, u : t = tree /\ u = tree'
  OBVIOUS
<1>3. TakenOver(t, u, old, new)
  BY <1>1, <1>2, ReplaceFields
<1>4. PICK w : w = Swap(old, new)
  OBVIOUS
<1>5. Involution(w)
  BY <1>4, SwapTwice
<1>6. /\ w[old] = new /\ w[new] = old /\ w[Nil] = Nil
      /\ \A m \in Node \cup {Nil} : m # old /\ m # new => w[m] = m
  BY <1>1, <1>4, RbTreeConstants DEF Swap
<1>7. /\ t.root # new /\ t.parent[new] = Nil
      /\ \A e \in Side, m \in Node : t.child[e][m] # new /\ t.child[e][new] = Nil
      /\ \A m \in Node : t.parent[m] # new
  BY <1>1, <1>2, Outside
<1>8. /\ t.root \in Node \cup {Nil} /\ \A m \in Node : t.parent[m] \in Node \cup {Nil}
      /\ \A e \in Side, m \in Node : t.child[e][m] \in Node \cup {Nil}
  BY <1>2 DEF Shape, Trees
<1>9. u.root = w[t.root] /\ u \in Trees
  BY <1>3, <1>6, <1>7, <1>8 DEF TakenOver
<1>10. ASSUME NEW e \in Side, NEW m \in Node PROVE u.child[e][m] = w[t.child[e][w[m]]]
  <2>1. u.child[e][m] = IF m = old THEN Nil ELSE IF m = new THEN t.child[e][old]
                        ELSE IF t.child[e][m] = old THEN new ELSE t.child[e][m]
    BY <1>3 DEF TakenOver
  <2>2. t.child[e][old] # old
    BY <1>1, <1>2, ChildFacts, RbTreeConstants
  <2> QED BY <1>1, <1>6, <1>7, <1>8, <2>1, <2>2
<1>11. ASSUME NEW m \in Node PROVE u.parent[m] = w[t.parent[w[m]]]
  <2>1. u.parent[m] = IF m = old THEN Nil ELSE IF m = new THEN t.parent[old]
                      ELSE IF t.parent[m] = old THEN new ELSE t.parent[m]
    BY <1>3 DEF TakenOver
  <2>2. t.parent[old] # old
    <3>1. t.parent[old] # Nil => \E d \in Side : t.child[d][t.parent[old]] = old
      BY <1>2 DEF Shape, Links
    <3>2. \A d \in Side : t.child[d][old] # Nil => t.child[d][old] # old
      BY <1>2, ChildFacts
    <3> QED BY <3>1, <3>2, RbTreeConstants
  <2> QED BY <1>1, <1>6, <1>7, <1>8, <2>1, <2>2
<1>12. Swapped(t, u, w)
  BY <1>9, <1>10, <1>11 DEF Swapped
<1>13. \A m \in In(u) : (m \in In(t) /\ m # old) \/ m = new
  <2> SUFFICES ASSUME NEW m \in In(u), m # new PROVE m \in In(t) /\ m # old
    OBVIOUS
  <2>1. m \in Node /\ m # Nil /\ (m = u.root \/ u.parent[m] # Nil)
    BY InNode DEF In
  <2>2. m # old
    BY <1>1, <1>3, <2>1, InNode DEF TakenOver
  <2>3. m = t.root \/ t.parent[m] # Nil
    <3>1. u.root = (IF old = t.root THEN new ELSE t.root)
      BY <1>3 DEF TakenOver
    <3>2. u.parent[m] = IF t.parent[m] = old THEN new ELSE t.parent[m]
      BY <1>3, <2>1, <2>2 DEF TakenOver
    <3> QED BY <1>1, <2>1, <2>2, <3>1, <3>2, RbTreeConstants
  <2> QED BY <2>1, <2>2, <2>3 DEF In
<1>14. IsFiniteSet(In(u))
  <2>1. IsFiniteSet(In(t))
    BY <1>2 DEF Shape, Subtrees
  <2>2. IsFiniteSet(In(t) \cup {new})
    BY <2>1, FS_AddElement
  <2>3. In(u) \subseteq In(t) \cup {new}
    BY <1>13
  <2> QED BY <2>2, <2>3, FS_Subset
<1>15. PICK B : B = SwappedBelow(below, w)
  OBVIOUS
<1>16. Shape(u, B) /\ \A m \in Node : m \in In(u) <=> w[m] \in In(t)
  BY <1>2, <1>5, <1>12, <1>14, <1>15, SwapKeepsShape
<1>17. \A m \in Node : m \in In(u) <=> (m \in In(t) /\ m # old) \/ m = new
  BY <1>1, <1>2, <1>6, <1>16
<1>18. SwappedBlack(t, u, w)
  <2> SUFFICES ASSUME NEW m \in In(u) PROVE u.black[m] = t.black[w[m]]
    BY DEF SwappedBlack
  <2>1. m \in Node /\ m # old
    BY <1>1, <1>17, InNode
  <2>2. u.black[m] = IF m = new THEN t.black[old] ELSE t.black[m]
    BY Zenon, <1>3, <2>1 DEF TakenOver
  <2> QED BY <1>6, <2>1, <2>2
<1>19. AfterErase(t, Nil, hb)
  BY <1>1, <1>2 DEF Loops, AfterErase
<1>20. PICK h : AfterErase(u, w[Nil], h)
  BY <1>2, <1>5, <1>12, <1>14, <1>18, <1>19, SwapKeepsLoops
<1>21. Loops(u, "idle", Nil, Nil, h)
  BY <1>6, <1>20 DEF AfterErase
<1>22. Loops(tree', pc', node', parent', h)
  BY <1>1, <1>2, <1>21 DEF Loops
<1>23. ASSUME FirstIs(tree, below, tree.leftmost) PROVE FirstIs(tree', B, tree'.leftmost)
  <2>1. PICK f : f = t.leftmost
    OBVIOUS
  <2>2. FirstIs(t, below, f)
    BY <1>2, <1>23, <2>1
  <2>3. FirstIs(u, B, w[f])
    BY <1>2, <1>5, <1>12, <1>14, <1>15, <2>2, SwapKeepsFirst
  <2>4. f # new /\ f \in Node \cup {Nil}
    BY <1>1, <1>2, <2>2, RbTreeConstants DEF FirstIs, In
  <2>5. u.leftmost = w[f]
    BY <1>3, <1>6, <2>1, <2>4 DEF TakenOver
  <2> QED BY <1>2, <2>3, <2>5
<1>24. \A R : Respects(R, w) /\ Ordered(tree, below, R) => Ordered(u, B, R)
  BY <1>2, <1>5, <1>12, <1>15, SwapKeepsOrder
<1>25. Shape(tree', B)
  BY <1>2, <1>16
<1>26. \A m \in Node : m \in In(tree') <=> (m \in In(tree) /\ m # old) \/ m = new
  BY <1>2, <1>17
<1>27. \A R : Respects(R, Swap(old, new)) /\ Ordered(tree, below, R) => Ordered(tree', B, R)
  BY <1>2, <1>4, <1>24
<1> QED BY <1>22, <1>23, <1>25, <1>26, <1>27 DEF Substituted

-----------------------------------------------------------------------------
(* Linking in a node                                                       *)

(* The rest of the tree after n has been linked in.                        *)
AddedRest(t, u, n, leftmost) ==
  /\ u.leftmost = (IF leftmost THEN n ELSE t.leftmost)
  /\ \A m \in Node : /\ u.black[m] = IF m = n THEN FALSE ELSE t.black[m]
                     /\ u.last[m] = IF m = n THEN (IF Augmented THEN LAST[n] ELSE 0) ELSE t.last[m]

(* rb_link_node, the cached first node, and the end of the new one.        *)
LEMMA LinkFields ==
  ASSUME NEW t \in Trees, NEW n \in Node, NEW p \in Node \cup {Nil}, p # n, NEW d \in Side,
         NEW leftmost \in BOOLEAN, NEW u, u = Link(t, n, p, d, leftmost)
  PROVE  Added(t, u, n, p, d) /\ AddedRest(t, u, n, leftmost)
<1>1. PICK a : a = [t EXCEPT !.parent[n] = p, !.black[n] = FALSE,
                     !.child = [e \in Side |-> [@[e] EXCEPT ![n] = Nil]],
                     !.last[n] = IF Augmented THEN LAST[n] ELSE 0,
                     !.leftmost = IF leftmost THEN n ELSE @]
  BY Zenon
<1>2. u = IF p = Nil THEN [a EXCEPT !.root = n] ELSE [a EXCEPT !.child[d][p] = n]
  BY <1>1 DEF Link
<1>3. a = [root |-> t.root, leftmost |-> IF leftmost THEN n ELSE t.leftmost,
           child |-> [e \in Side |-> [t.child[e] EXCEPT ![n] = Nil]],
           parent |-> [t.parent EXCEPT ![n] = p], black |-> [t.black EXCEPT ![n] = FALSE],
           last |-> [t.last EXCEPT ![n] = IF Augmented THEN LAST[n] ELSE 0]]
  BY Zenon, <1>1 DEF Trees
<1>4. /\ a.child \in [Side -> [Node -> Node \cup {Nil}]]
      /\ \A e \in Side, m \in Node : a.child[e][m] = IF m = n THEN Nil ELSE t.child[e][m]
  BY <1>3 DEF Trees
<1>5. /\ a.parent \in [Node -> Node \cup {Nil}]
      /\ \A m \in Node : a.parent[m] = IF m = n THEN p ELSE t.parent[m]
  BY <1>3 DEF Trees
<1>6. /\ a.black \in [Node -> BOOLEAN]
      /\ \A m \in Node : a.black[m] = IF m = n THEN FALSE ELSE t.black[m]
  BY Zenon, <1>3 DEF Trees
<1>7. /\ a.last \in [Node -> Int]
      /\ \A m \in Node :
           a.last[m] = IF m = n THEN (IF Augmented THEN LAST[n] ELSE 0) ELSE t.last[m]
  <2>1. LAST[n] \in Int
    BY RbTreeConstants
  <2>2. (IF Augmented THEN LAST[n] ELSE 0) \in Int
    BY <2>1
  <2> QED BY <1>3, <2>2 DEF Trees
<1>8. /\ a.leftmost = (IF leftmost THEN n ELSE t.leftmost) /\ a.leftmost \in Node \cup {Nil}
      /\ a.root = t.root /\ a.root \in Node \cup {Nil}
  BY <1>3 DEF Trees
<1>9. a \in Trees
  BY <1>3, <1>4, <1>5, <1>6, <1>7, <1>8 DEF Trees
<1>10. CASE p = Nil
  <2>1. u = [root |-> n, leftmost |-> a.leftmost, child |-> a.child, parent |-> a.parent,
             black |-> a.black, last |-> a.last]
    BY <1>2, <1>9, <1>10 DEF Trees
  <2>2. u \in Trees
    BY <1>9, <2>1 DEF Trees
  <2>3. ASSUME NEW e \in Side, NEW m \in Node
        PROVE  u.child[e][m] = IF m = n THEN Nil ELSE IF m = p /\ e = d THEN n ELSE t.child[e][m]
    BY <1>4, <1>10, <2>1, RbTreeConstants
  <2>4. Added(t, u, n, p, d)
    BY <1>5, <1>10, <2>1, <2>2, <2>3 DEF Added
  <2>5. AddedRest(t, u, n, leftmost)
    <3>1. u.leftmost = a.leftmost /\ u.black = a.black /\ u.last = a.last
      BY <2>1
    <3>2. ASSUME NEW m \in Node
          PROVE  /\ u.black[m] = IF m = n THEN FALSE ELSE t.black[m]
                 /\ u.last[m] = IF m = n THEN (IF Augmented THEN LAST[n] ELSE 0)
                                ELSE t.last[m]
      <4>1. a.black[m] = IF m = n THEN FALSE ELSE t.black[m]
        BY Zenon, <1>6
      <4>2. a.last[m] = IF m = n THEN (IF Augmented THEN LAST[n] ELSE 0) ELSE t.last[m]
        BY <1>7
      <4> QED BY <3>1, <4>1, <4>2
    <3> QED BY Zenon, <1>8, <3>1, <3>2 DEF AddedRest
  <2> QED BY <2>4, <2>5
<1>11. CASE p # Nil
  <2>1. u = [root |-> a.root, leftmost |-> a.leftmost,
             child |-> [a.child EXCEPT ![d][p] = n], parent |-> a.parent,
             black |-> a.black, last |-> a.last]
    BY Zenon, <1>2, <1>9, <1>11 DEF Trees
  <2>2. /\ u.child \in [Side -> [Node -> Node \cup {Nil}]]
        /\ \A e \in Side, m \in Node :
             u.child[e][m] = IF m = p /\ e = d THEN n ELSE a.child[e][m]
    BY <1>4, <1>11, <2>1
  <2>3. u \in Trees
    BY <1>9, <2>1, <2>2 DEF Trees
  <2>4. ASSUME NEW e \in Side, NEW m \in Node
        PROVE  u.child[e][m] = IF m = n THEN Nil ELSE IF m = p /\ e = d THEN n ELSE t.child[e][m]
    BY <1>4, <2>2
  <2>5. Added(t, u, n, p, d)
    BY <1>5, <1>8, <1>11, <2>1, <2>3, <2>4 DEF Added
  <2>6. AddedRest(t, u, n, leftmost)
    <3>1. u.leftmost = a.leftmost /\ u.black = a.black /\ u.last = a.last
      BY <2>1
    <3>2. ASSUME NEW m \in Node
          PROVE  /\ u.black[m] = IF m = n THEN FALSE ELSE t.black[m]
                 /\ u.last[m] = IF m = n THEN (IF Augmented THEN LAST[n] ELSE 0)
                                ELSE t.last[m]
      <4>1. a.black[m] = IF m = n THEN FALSE ELSE t.black[m]
        BY Zenon, <1>6
      <4>2. a.last[m] = IF m = n THEN (IF Augmented THEN LAST[n] ELSE 0) ELSE t.last[m]
        BY <1>7
      <4> QED BY <3>1, <4>1, <4>2
    <3> QED BY Zenon, <1>8, <3>1, <3>2 DEF AddedRest
  <2> QED BY <2>5, <2>6
<1> QED BY <1>10, <1>11

(* The new node is red, and only its parent may be red too.                *)
LEMMA AddKeepsLoops ==
  ASSUME NEW t, NEW below, Shape(t, below), NEW hb, Paths(t, hb, Nil, "left"),
         RedsOk(t, Nil), NEW u, NEW n, NEW p, NEW d, Room(t, n, p, d), Added(t, u, n, p, d),
         NEW leftmost, AddedRest(t, u, n, leftmost)
  PROVE  \E h : Loops(u, "insert", n, p, h)
<1>1. PICK B : B = AddedBelow(below, n, p)
  OBVIOUS
<1>2. /\ n \in Node /\ n # Nil /\ p \in Node \cup {Nil} /\ p # n /\ d \in Side
      /\ \A m \in Node : m \in In(u) <=> m \in In(t) \/ m = n
      /\ \A e \in Side : u.child[e][n] = Nil
      /\ \A m \in Node, e \in Side : t.child[e][m] # n
  <2>1. AddFields(t, u, below, n, p, d)
    BY <1>1, AddFacts
  <2> QED BY <2>1 DEF AddFields
<1>3. /\ u \in Trees /\ u.root = (IF p = Nil THEN n ELSE t.root)
      /\ \A e \in Side, m \in Node :
           u.child[e][m] = IF m = n THEN Nil ELSE IF m = p /\ e = d THEN n ELSE t.child[e][m]
      /\ \A m \in Node : u.parent[m] = IF m = n THEN p ELSE t.parent[m]
  BY DEF Added
<1>4. \A m \in Node : u.black[m] = IF m = n THEN FALSE ELSE t.black[m]
  BY Zenon DEF AddedRest
<1>5. t \in Trees /\ n \notin In(t)
      /\ IF p = Nil THEN t.root = Nil ELSE p \in In(t) /\ t.child[d][p] = Nil
  BY DEF Shape, Room
<1>6. RedsOk(u, n)
  <2> SUFFICES ASSUME NEW m \in In(u), m # n, ~u.black[m]
               PROVE  m # u.root /\ u.black[u.parent[m]]
    BY DEF RedsOk, RedOk
  <2>1. m \in In(t) /\ m \in Node /\ m # Nil /\ ~t.black[m]
    BY Zenon, <1>2, <1>4, InNode
  <2>2. m # t.root /\ t.black[t.parent[m]]
    BY <2>1 DEF RedsOk, RedOk
  <2>3. t.parent[m] \in Node /\ t.parent[m] \in In(t)
    BY <2>1, <2>2, ParentFacts
  <2> QED BY Zenon, <1>3, <1>4, <1>5, <2>1, <2>2, <2>3
<1>7. PathsOut(t, hb)
  BY <1>5, PathsWhole
<1>8. PICK h : h = [hb EXCEPT ![n] = 0]
  BY Zenon
<1>9. h \in [Node \cup {Nil} -> Nat] /\ h[Nil] = 0 /\ h[n] = 0
      /\ \A m \in Node \cup {Nil} : m # n => h[m] = hb[m]
  BY <1>2, <1>7, <1>8 DEF PathsOut
<1>10. ASSUME NEW m \in In(u), NEW e \in Side
       PROVE  h[m] = h[u.child[e][m]] + Bit(u, m) /\ h[u.child[e][m]] \in Nat /\ Bit(u, m) \in Nat
  <2>1. m \in Node
    BY InNode
  <2>2. CASE m = n
    <3>1. u.child[e][m] = Nil /\ Bit(u, m) = 0
      BY Zenon, <1>2, <1>4, <2>2 DEF Bit
    <3> QED BY <1>9, <2>2, <3>1
  <2>3. CASE m # n
    <3>1. m \in In(t) /\ Bit(u, m) = Bit(t, m)
      BY Zenon, <1>2, <1>4, <2>1, <2>3 DEF Bit
    <3>2. hb[m] = hb[t.child[e][m]] + Bit(t, m) /\ hb[t.child[e][m]] \in Nat /\ Bit(t, m) \in Nat
      BY <1>7, <3>1 DEF PathsOut
    <3>3. h[u.child[e][m]] = hb[t.child[e][m]]
      <4>1. t.child[e][m] \in Node \cup {Nil} /\ t.child[e][m] # n
        BY <1>2, <1>5, <2>1 DEF Trees
      <4>2. CASE m = p /\ e = d
        <5>1. u.child[e][m] = n /\ t.child[e][m] = Nil /\ hb[Nil] = 0
          BY <1>3, <1>5, <1>7, <2>1, <2>3, <4>2, RbTreeConstants DEF PathsOut
        <5> QED BY <1>9, <5>1
      <4>3. CASE ~(m = p /\ e = d)
        <5>1. u.child[e][m] = t.child[e][m]
          BY <1>3, <2>1, <2>3, <4>3
        <5> QED BY <1>9, <4>1, <5>1
      <4> QED BY <4>2, <4>3
    <3> QED BY <1>9, <2>1, <2>3, <3>1, <3>2, <3>3
  <2> QED BY <2>2, <2>3
<1>11. Paths(u, h, Nil, "left")
  <2>1. PathsOut(u, h)
    BY <1>9, <1>10 DEF PathsOut
  <2> QED BY <1>3, <2>1, PathsWhole
<1>12. n \in In(u) /\ ~u.black[n] /\ p = u.parent[n]
  BY Zenon, <1>2, <1>3, <1>4
<1>13. Loops(u, "insert", n, p, h)
  BY <1>6, <1>11, <1>12 DEF Loops
<1> QED BY <1>13

=============================================================================
