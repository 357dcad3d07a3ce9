---------------------------- MODULE TreesProofs ----------------------------
(***************************************************************************)
(* For any set of nodes and any intervals: the interval tree of drm_mm is  *)
(* a red-black tree in the order of its nodes after every operation and in *)
(* every round of a rebalancing, each node has the last end of an interval *)
(* at or below it, and the search by interval finds the first one.  For    *)
(* any holes: each tree of holes is a red-black tree, it implements the    *)
(* sequence that DrmMm takes it for, and its search ends where it should.  *)
(* The lemmas from the shape and the paths to the rules hold for any tree. *)
(***************************************************************************)
EXTENDS IntervalTree, HoleTree, RbTreeProofs

-----------------------------------------------------------------------------
(* From the shape and the paths to the rules                               *)

(* s is n and then the items of r.                                         *)
OneMore(S, s, n, r) ==
  /\ s \in Seq(S) /\ r \in Seq(S) /\ Len(s) = Len(r) + 1 /\ Len(r) \in Nat /\ s[1] = n
  /\ \A k \in 1..Len(r) : s[k + 1] = r[k]
  /\ \A k : k \in ToSet(s) <=> k = n \/ k \in ToSet(r)

(* A sequence with one more item in front.                                 *)
LEMMA ItemsAfter ==
  ASSUME NEW S, NEW s \in Seq(S), NEW m \in S, NEW u, u = <<m>> \o s
  PROVE  OneMore(S, u, m, s)
<1>1. u \in Seq(S) /\ Len(u) = Len(s) + 1 /\ Len(s) \in Nat /\ u[1] = m
  OBVIOUS
<1>2. ASSUME NEW k \in 1..Len(s) PROVE u[k + 1] = s[k]
  BY <1>1
<1>3. ASSUME NEW k, k \in ToSet(u) PROVE k = m \/ k \in ToSet(s)
  <2>1. PICK i \in 1..Len(u) : k = u[i]
    BY <1>1, <1>3 DEF ToSet
  <2>2. CASE i = 1
    BY <1>1, <2>1, <2>2
  <2>3. CASE i # 1
    <3>1. i - 1 \in 1..Len(s) /\ (i - 1) + 1 = i
      BY <1>1, <2>1, <2>3
    <3>2. u[i] = s[i - 1]
      BY <1>2, <3>1
    <3>3. i - 1 \in DOMAIN s
      BY <3>1
    <3> QED BY <2>1, <3>2, <3>3 DEF ToSet
  <2> QED BY <2>2, <2>3
<1>4. ASSUME NEW k, k = m \/ k \in ToSet(s) PROVE k \in ToSet(u)
  <2>1. CASE k = m
    <3>1. 1 \in DOMAIN u
      BY <1>1
    <3> QED BY <1>1, <2>1, <3>1 DEF ToSet
  <2>2. CASE k \in ToSet(s)
    <3>1. PICK i \in 1..Len(s) : k = s[i]
      BY <2>2 DEF ToSet
    <3>2. i + 1 \in DOMAIN u /\ u[i + 1] = k
      BY <1>1, <1>2, <3>1
    <3> QED BY Zenon, <3>2 DEF ToSet
  <2> QED BY <1>4, <2>1, <2>2
<1> QED BY <1>1, <1>2, <1>3, <1>4 DEF OneMore

(* The sequence without items.                                             *)
LEMMA NoItems ==
  ASSUME NEW S
  PROVE  <<>> \in Seq(S) /\ Len(<<>>) = 0 /\ \A k : k \notin ToSet(<<>>)
<1>1. DOMAIN <<>> = {}
  OBVIOUS
<1> QED BY <1>1 DEF ToSet

(* The way up from a node: itself, then the way up from its parent.        *)
WayUpIs(t, n, s, r) ==
  /\ OneMore(Node, s, n, r)
  /\ n = t.root => Len(r) = 0 /\ \A k : k \notin ToSet(r)

(* In a tree it is so from every node.                                     *)
LEMMA WayUp ==
  ASSUME NEW t, NEW below, Shape(t, below), NEW n \in In(t)
  PROVE  WayUpIs(t, n, Upwards(t, n, Nil), Upwards(t, t.parent[n], Nil))
<1>1. n \in Node /\ n # Nil /\ t.parent[n] \in Node \cup {Nil}
  BY InNode DEF Shape, Trees
<1>2. UpwardsIs(t, Nil)
  BY ShapeUpwards
<1>3. PICK s, r : s = Upwards(t, n, Nil) /\ r = Upwards(t, t.parent[n], Nil)
  OBVIOUS
<1>4. s \in Seq(Node) /\ r \in Seq(Node) /\ s = <<n>> \o r
  BY Zenon, <1>1, <1>2, <1>3 DEF UpwardsIs
<1>5. n = t.root => r = <<>>
  <2>1. n = t.root => t.parent[n] = Nil
    BY <1>1 DEF Shape, Links
  <2> QED BY Zenon, <1>1, <1>2, <1>3, <2>1 DEF UpwardsIs
<1>6. OneMore(Node, s, n, r)
  BY Zenon, <1>1, <1>4, ItemsAfter
<1>7. n = t.root => Len(r) = 0 /\ \A k : k \notin ToSet(r)
  BY <1>5, NoItems
<1> QED BY <1>3, <1>6, <1>7 DEF WayUpIs

(* On it are the nodes that have the node in their subtrees.               *)
LEMMA UpwardsAre ==
  ASSUME NEW t, NEW below, Shape(t, below)
  PROVE  \A n \in In(t) : \A m :
           m \in ToSet(Upwards(t, n, Nil)) <=> m \in Node /\ n \in below[m]
<1> DEFINE good(n) == \A m : m \in ToSet(Upwards(t, n, Nil)) <=> m \in Node /\ n \in below[m]
<1>1. PICK B : B = {n \in In(t) : ~good(n)}
  BY Zenon
<1> SUFFICES ASSUME B # {} PROVE FALSE
  BY <1>1
<1>2. PICK n \in B : n = t.root \/ (t.parent[n] \in In(t) /\ t.parent[n] \notin B)
  BY <1>1, HighestOf
<1>3. n \in In(t) /\ ~good(n)
  BY <1>1, <1>2
<1>4. n \in Node /\ n # Nil /\ n \in below[n]
  BY <1>3, InNode, BelowParts
<1>5. PICK s, r : s = Upwards(t, n, Nil) /\ r = Upwards(t, t.parent[n], Nil)
  OBVIOUS
<1>6. /\ \A k : k \in ToSet(s) <=> k = n \/ k \in ToSet(r)
      /\ n = t.root => \A k : k \notin ToSet(r)
  <2>1. WayUpIs(t, n, s, r)
    BY <1>3, <1>5, WayUp
  <2> QED BY <2>1 DEF WayUpIs, OneMore
<1>7. CASE n = t.root
  <2>1. \A m : m \in ToSet(s) <=> m = n
    BY <1>6, <1>7
  <2>2. ASSUME NEW m \in Node, n \in below[m] PROVE m = n
    <3>1. m \in In(t)
      BY <1>3, <2>2, BelowIn
    <3>2. m \in below[n]
      BY <1>7, <3>1 DEF Shape, Subtrees
    <3> QED BY <1>4, <2>2, <3>2, BelowOneWay
  <2> QED BY <1>3, <1>4, <1>5, <2>1, <2>2
<1>8. CASE n # t.root
  <2>1. PICK p : p = t.parent[n]
    OBVIOUS
  <2>2. p \in In(t) /\ p \in Node /\ good(p) /\ \E d \in Side : t.child[d][p] = n
    BY <1>1, <1>2, <1>3, <1>8, <2>1, InNode, ParentFacts
  <2>3. \A k : k \in ToSet(r) <=> k \in Node /\ p \in below[k]
    BY <1>5, <2>1, <2>2
  <2>4. n \in below[p]
    <3>1. PICK d \in Side : t.child[d][p] = n
      BY <2>2
    <3>2. n \in below[t.child[d][p]]
      BY <1>4, <3>1
    <3> QED BY <2>2, <3>2, BelowParts
  <2>5. ASSUME NEW m \in Node PROVE n \in below[m] <=> m = n \/ p \in below[m]
    <3>1. n \in below[m] /\ m # n => p \in below[m]
      BY <2>1, BelowParent
    <3>2. p \in below[m] => n \in below[m]
      BY <2>4, BelowBelow
    <3> QED BY <1>4, <3>1, <3>2
  <2>6. good(n)
    BY <1>4, <1>5, <1>6, <2>3, <2>5
  <2> QED BY <1>3, <2>6
<1> QED BY <1>7, <1>8

(* How many black nodes are on the way up.                                 *)
BlacksAbove(t, n) == Cardinality({m \in ToSet(Upwards(t, n, Nil)) : t.black[m]})

(* long nodes are above n, blacks of them black.                           *)
CountsAre(t, n, long, blacks) ==
  /\ Len(Upwards(t, n, Nil)) \in Nat /\ BlacksAbove(t, n) \in Nat
  /\ Len(Upwards(t, n, Nil)) = long + 1 /\ BlacksAbove(t, n) = blacks + Bit(t, n)

(* The nodes above a node are in the tree.                                 *)
LEMMA AboveIn ==
  ASSUME NEW t, NEW below, Shape(t, below), NEW n \in In(t)
  PROVE  /\ ToSet(Upwards(t, n, Nil)) \subseteq In(t)
         /\ IsFiniteSet({m \in ToSet(Upwards(t, n, Nil)) : t.black[m]})
         /\ BlacksAbove(t, n) \in Nat
<1>1. n \in Node
  BY InNode
<1>2. ToSet(Upwards(t, n, Nil)) \subseteq In(t)
  <2> SUFFICES ASSUME NEW k \in ToSet(Upwards(t, n, Nil)) PROVE k \in In(t)
    OBVIOUS
  <2>1. k \in Node /\ n \in below[k]
    BY UpwardsAre
  <2> QED BY <2>1, BelowIn
<1>3. IsFiniteSet(In(t))
  BY DEF Shape, Subtrees
<1>4. {m \in ToSet(Upwards(t, n, Nil)) : t.black[m]} \subseteq In(t)
  BY <1>2
<1>5. IsFiniteSet({m \in ToSet(Upwards(t, n, Nil)) : t.black[m]})
  BY <1>3, <1>4, FS_Subset, Zenon
<1> QED BY <1>2, <1>5, FS_CardinalityType DEF BlacksAbove

(* None is above the root.                                                 *)
LEMMA CountsAtRoot ==
  ASSUME NEW t, NEW below, Shape(t, below), NEW n \in In(t), n = t.root
  PROVE  CountsAre(t, n, 0, 0)
<1>1. WayUpIs(t, n, Upwards(t, n, Nil), Upwards(t, t.parent[n], Nil))
  BY WayUp
<1>2. Len(Upwards(t, n, Nil)) = 1
  BY <1>1 DEF WayUpIs, OneMore
<1>3. \A k : k \in ToSet(Upwards(t, n, Nil)) <=> k = n
  BY <1>1 DEF WayUpIs, OneMore
<1>4. t \in Trees /\ n \in Node
  BY InNode DEF Shape
<1>5. BlacksAbove(t, n) = Bit(t, n)
  <2>1. CASE t.black[n]
    <3>1. {m \in ToSet(Upwards(t, n, Nil)) : t.black[m]} = {n}
      BY <1>3, <2>1
    <3> QED BY Zenon, <2>1, <3>1, FS_Singleton DEF BlacksAbove, Bit
  <2>2. CASE ~t.black[n]
    <3>1. {m \in ToSet(Upwards(t, n, Nil)) : t.black[m]} = {}
      BY <1>3, <2>2
    <3> QED BY <2>2, <3>1, FS_EmptySet DEF BlacksAbove, Bit
  <2> QED BY <2>1, <2>2
<1>6. Bit(t, n) \in Nat
  BY <1>4, BitType
<1> QED BY <1>2, <1>5, <1>6 DEF CountsAre

(* Above any other node there is one more than above its parent.           *)
LEMMA CountsBelow ==
  ASSUME NEW t, NEW below, Shape(t, below), NEW n \in In(t), n # t.root
  PROVE  CountsAre(t, n, Len(Upwards(t, t.parent[n], Nil)), BlacksAbove(t, t.parent[n]))
<1>1. PICK p : p = t.parent[n]
  OBVIOUS
<1>2. WayUpIs(t, n, Upwards(t, n, Nil), Upwards(t, p, Nil))
  BY <1>1, WayUp
<1>3. p \in In(t) /\ p \in Node /\ n \in Node /\ \E d \in Side : t.child[d][p] = n
  BY <1>1, InNode, ParentFacts
<1>4. /\ Len(Upwards(t, n, Nil)) = Len(Upwards(t, p, Nil)) + 1 /\ Len(Upwards(t, p, Nil)) \in Nat
      /\ \A k : k \in ToSet(Upwards(t, n, Nil)) <=> k = n \/ k \in ToSet(Upwards(t, p, Nil))
  BY <1>2 DEF WayUpIs, OneMore
<1>5. n \notin ToSet(Upwards(t, p, Nil))
  <2>1. p \notin below[n]
    <3>1. PICK d \in Side : t.child[d][p] = n
      BY <1>3
    <3> QED BY <1>3, <3>1, BelowParts
  <2> QED BY <1>3, <2>1, UpwardsAre
<1>6. PICK X, Y : /\ X = {m \in ToSet(Upwards(t, n, Nil)) : t.black[m]}
                  /\ Y = {m \in ToSet(Upwards(t, p, Nil)) : t.black[m]}
  BY Zenon
<1>7. n \notin Y /\ IsFiniteSet(Y) /\ BlacksAbove(t, p) = Cardinality(Y) /\ BlacksAbove(t, p) \in Nat
  BY <1>3, <1>5, <1>6, AboveIn DEF BlacksAbove
<1>8. BlacksAbove(t, n) = Cardinality(X)
  BY <1>6 DEF BlacksAbove
<1>9. BlacksAbove(t, n) = BlacksAbove(t, p) + Bit(t, n)
  <2>1. CASE t.black[n]
    <3>1. X = Y \cup {n}
      BY <1>4, <1>6, <2>1
    <3>2. Cardinality(X) = Cardinality(Y) + 1
      BY Zenon, <1>7, <3>1, FS_AddElement
    <3> QED BY <1>7, <1>8, <2>1, <3>2 DEF Bit
  <2>2. CASE ~t.black[n]
    <3>1. X = Y
      BY <1>4, <1>6, <2>2
    <3> QED BY <1>7, <1>8, <2>2, <3>1 DEF Bit
  <2> QED BY <2>1, <2>2
<1>10. Bit(t, n) \in Nat
  BY <1>3, BitType DEF Shape
<1> QED BY <1>1, <1>4, <1>7, <1>9, <1>10 DEF CountsAre

(* A path is at most twice as long as it has black nodes.                  *)
LongEnough(t, n) ==
  /\ Len(Upwards(t, n, Nil)) \in Nat /\ BlacksAbove(t, n) \in Nat
  /\ BlacksAbove(t, n) <= Len(Upwards(t, n, Nil))
  /\ Len(Upwards(t, n, Nil)) + Bit(t, n) <= 2 * BlacksAbove(t, n)

(* Since no red node is below a red one.                                   *)
LEMMA PathLengths ==
  ASSUME NEW t, NEW below, Shape(t, below), RedsOk(t, Nil)
  PROVE  \A n \in In(t) : LongEnough(t, n)
<1>1. PICK B : B = {n \in In(t) : ~LongEnough(t, n)}
  BY Zenon
<1> SUFFICES ASSUME B # {} PROVE FALSE
  BY <1>1
<1>2. PICK n \in B : n = t.root \/ (t.parent[n] \in In(t) /\ t.parent[n] \notin B)
  BY <1>1, HighestOf
<1>3. n \in In(t) /\ ~LongEnough(t, n) /\ n \in Node /\ n # Nil
  BY <1>1, <1>2, InNode
<1>4. RedOk(t, n) /\ Bit(t, n) = (IF t.black[n] THEN 1 ELSE 0)
  BY <1>3 DEF RedsOk, Bit
<1>5. CASE n = t.root
  <2>1. CountsAre(t, n, 0, 0)
    BY <1>3, <1>5, CountsAtRoot
  <2>2. Bit(t, n) = 1
    BY <1>4, <1>5 DEF RedOk
  <2>3. LongEnough(t, n)
    BY <2>1, <2>2 DEF LongEnough, CountsAre
  <2> QED BY <1>3, <2>3
<1>6. CASE n # t.root
  <2>1. PICK p : p = t.parent[n]
    OBVIOUS
  <2>2. p \in In(t) /\ p \in Node
    BY <1>2, <1>6, <2>1, InNode
  <2>3. LongEnough(t, p)
    BY <1>1, <1>2, <1>6, <2>1
  <2>4. CountsAre(t, n, Len(Upwards(t, p, Nil)), BlacksAbove(t, p))
    BY <1>3, <1>6, <2>1, CountsBelow
  <2>5. Bit(t, p) \in Nat
    BY <2>2, BitType DEF Shape
  <2>6. CASE t.black[n]
    <3>1. Bit(t, n) = 1
      BY <2>6 DEF Bit
    <3>2. LongEnough(t, n)
      BY <2>3, <2>4, <2>5, <3>1 DEF LongEnough, CountsAre
    <3> QED BY <1>3, <3>2
  <2>7. CASE ~t.black[n]
    <3>1. t.black[p]
      BY <1>4, <2>1, <2>7 DEF RedOk
    <3>2. Bit(t, n) = 0 /\ Bit(t, p) = 1
      BY <2>7, <3>1 DEF Bit
    <3>3. LongEnough(t, n)
      BY <2>3, <2>4, <3>2 DEF LongEnough, CountsAre
    <3> QED BY <1>3, <3>3
  <2> QED BY <2>6, <2>7
<1> QED BY <1>5, <1>6

(* The black nodes above and below a node are as many as below the root,   *)
(* but for the one that is missing in the subtree of x.                    *)
Short(below, x, n) == IF x # Nil /\ n \in below[x] THEN 1 ELSE 0

(* This for a node n.                                                      *)
HeightFits(t, below, hb, x, n) ==
  hb[t.root] + Bit(t, n) = BlacksAbove(t, n) + hb[n] + Short(below, x, n)

(* x is the child of q on the side on which a black node is missing, if    *)
(* one is.                                                                 *)
MissingAt(t, x, q, e) ==
  \/ q = Nil /\ x = Nil
  \/ q \in Node /\ e \in Side /\ x = t.child[e][q]

(* One step down, and a black node is missing if it is the step from q to  *)
(* x.                                                                      *)
LEMMA ShortBelow ==
  ASSUME NEW t, NEW below, Shape(t, below), NEW q, NEW e, NEW x, MissingAt(t, x, q, e),
         NEW p \in Node, NEW c \in Side, NEW n, n = t.child[c][p], n # Nil
  PROVE  Short(below, x, n) = Short(below, x, p) + (IF p = q /\ c = e THEN 1 ELSE 0)
<1>1. n \in Node /\ n \in below[n] /\ t.parent[n] = p /\ p \notin below[n] /\ n \in below[p]
  BY BelowParts, ChildFacts
<1>2. q = p /\ c = e => x = n
  BY <1>1, RbTreeConstants DEF MissingAt
<1>3. x = n => q = p /\ c = e
  <2> SUFFICES ASSUME x = n PROVE q = p /\ c = e
    OBVIOUS
  <2>1. q \in Node /\ e \in Side /\ x = t.child[e][q]
    BY <1>1, RbTreeConstants DEF MissingAt
  <2>2. t.child[e][q] = t.child[c][p] /\ t.child[e][q] # Nil
    BY <2>1
  <2>3. PICK m : m = q
    OBVIOUS
  <2>4. PICK f : f = e
    OBVIOUS
  <2>5. m \in Node /\ f \in Side
    BY <2>1, <2>3, <2>4
  <2>6. t.child[f][m] # Nil
    BY <2>2, <2>3, <2>4
  <2>7. t.child[f][m] = t.child[c][p]
    BY <2>2, <2>3, <2>4
  <2>8. m = p /\ f = c
    BY <2>5, <2>6, <2>7, OneParent
  <2> QED BY <2>3, <2>4, <2>8
<1>4. CASE x = n
  <2>1. Short(below, x, n) = 1 /\ Short(below, x, p) = 0
    BY <1>1, <1>4 DEF Short
  <2> QED BY <1>3, <1>4, <2>1
<1>5. CASE x # n
  <2>1. x # Nil => x \in Node
    BY DEF MissingAt, Shape, Trees
  <2>2. x # Nil => (n \in below[x] <=> p \in below[x])
    <3>1. x # Nil /\ n \in below[x] => p \in below[x]
      BY <1>1, <1>5, <2>1, BelowParent
    <3>2. x # Nil /\ p \in below[x] => n \in below[x]
      BY <1>1, <2>1, BelowBelow
    <3> QED BY <3>1, <3>2
  <2>3. Short(below, x, n) = Short(below, x, p)
    BY <2>2 DEF Short
  <2>4. Short(below, x, p) \in Nat
    BY DEF Short
  <2> QED BY <1>2, <1>5, <2>3, <2>4
<1> QED BY <1>4, <1>5

(* By induction from the root down.                                        *)
LEMMA HeightsAbove ==
  ASSUME NEW t, NEW below, Shape(t, below), NEW q, NEW e, NEW x, MissingAt(t, x, q, e),
         NEW hb, Paths(t, hb, q, e)
  PROVE  \A n \in In(t) : HeightFits(t, below, hb, x, n)
<1>1. PICK B : B = {n \in In(t) : ~HeightFits(t, below, hb, x, n)}
  BY Zenon
<1> SUFFICES ASSUME B # {} PROVE FALSE
  BY <1>1
<1>2. PICK n \in B : n = t.root \/ (t.parent[n] \in In(t) /\ t.parent[n] \notin B)
  BY <1>1, HighestOf
<1>3. n \in In(t) /\ ~HeightFits(t, below, hb, x, n) /\ n \in Node /\ n # Nil
  BY <1>1, <1>2, InNode
<1>4. \A m \in Node : hb[m] \in Nat /\ Bit(t, m) \in Nat
  BY BitType DEF Paths, Shape
<1>5. CASE n = t.root
  <2>1. CountsAre(t, n, 0, 0)
    BY <1>3, <1>5, CountsAtRoot
  <2>2. BlacksAbove(t, n) = Bit(t, n)
    BY <1>3, <1>4, <2>1 DEF CountsAre
  <2>3. Short(below, x, n) = 0
    <3>1. CASE x = Nil
      BY <3>1 DEF Short
    <3>2. CASE x # Nil
      <4>1. q \in Node /\ e \in Side /\ x = t.child[e][q]
        BY <3>2 DEF MissingAt
      <4>2. x \in In(t) /\ x # t.root /\ x \in Node
        BY <3>2, <4>1, ChildFacts
      <4>3. x \in below[n]
        BY <1>5, <4>2 DEF Shape, Subtrees
      <4>4. n \notin below[x]
        BY <1>3, <1>5, <4>2, <4>3, BelowOneWay
      <4> QED BY <4>4 DEF Short
    <3> QED BY <3>1, <3>2
  <2>4. HeightFits(t, below, hb, x, n)
    BY <1>3, <1>4, <1>5, <2>2, <2>3 DEF HeightFits
  <2> QED BY <1>3, <2>4
<1>6. CASE n # t.root
  <2>1. PICK p : p = t.parent[n]
    OBVIOUS
  <2>2. p \in In(t) /\ p \in Node
    BY <1>2, <1>6, <2>1, InNode
  <2>3. PICK c \in Side : t.child[c][p] = n
    BY <1>3, <1>6, <2>1, ParentFacts
  <2>4. HeightFits(t, below, hb, x, p)
    BY <1>1, <1>2, <1>6, <2>1
  <2>5. CountsAre(t, n, Len(Upwards(t, p, Nil)), BlacksAbove(t, p))
    BY <1>3, <1>6, <2>1, CountsBelow
  <2>6. BlacksAbove(t, n) = BlacksAbove(t, p) + Bit(t, n) /\ BlacksAbove(t, p) \in Nat
    BY Zenon, <2>2, <2>5, AboveIn DEF CountsAre
  <2>7. hb[p] = hb[n] + Bit(t, p) + (IF p = q /\ c = e THEN 1 ELSE 0)
    BY <2>2, <2>3 DEF Paths
  <2>8. Short(below, x, n) = Short(below, x, p) + (IF p = q /\ c = e THEN 1 ELSE 0)
    BY <1>3, <2>2, <2>3, ShortBelow
  <2>9. Short(below, x, p) \in Nat /\ hb[t.root] \in Nat
    <3>1. t.root \in Node \cup {Nil}
      BY DEF Shape, Trees
    <3> QED BY <3>1 DEF Paths, Short
  <2>10. hb[t.root] + Bit(t, p) = BlacksAbove(t, p) + hb[p] + Short(below, x, p)
    BY <2>4 DEF HeightFits
  <2>11. hb[t.root] + Bit(t, n) = BlacksAbove(t, n) + hb[n] + Short(below, x, n)
    <3>1. \A y \in Nat : y = (IF p = q /\ c = e THEN 1 ELSE 0) =>
            /\ hb[p] = hb[n] + Bit(t, p) + y
            /\ Short(below, x, n) = Short(below, x, p) + y
      BY <2>7, <2>8
    <3>2. PICK y \in Nat : y = (IF p = q /\ c = e THEN 1 ELSE 0)
      OBVIOUS
    <3>3. hb[p] = hb[n] + Bit(t, p) + y /\ Short(below, x, n) = Short(below, x, p) + y
      BY <3>1, <3>2
    <3>4. Bit(t, n) \in Nat /\ Bit(t, p) \in Nat /\ hb[n] \in Nat /\ hb[p] \in Nat
      BY <1>3, <1>4, <2>2
    <3>5. \A r, bn, bp, an, ap, hn, hp, sn, sp \in Nat :
            /\ r + bp = ap + hp + sp /\ an = ap + bn /\ hp = hn + bp + y /\ sn = sp + y
            => r + bn = an + hn + sn
      OBVIOUS
    <3>6. BlacksAbove(t, n) \in Nat /\ Short(below, x, n) \in Nat
      BY <2>6, <2>9, <3>3, <3>4
    <3> QED BY <2>6, <2>9, <2>10, <3>3, <3>4, <3>5, <3>6
  <2>12. HeightFits(t, below, hb, x, n)
    BY <2>11 DEF HeightFits
  <2> QED BY <1>3, <2>12
<1> QED BY <1>5, <1>6

(* On the way to a way out.                                                *)
ShortAt(below, x, q, e, n, d) ==
  IF x # Nil THEN Short(below, x, n) ELSE IF n = q /\ d = e THEN 1 ELSE 0

(* On every way out there are as many black nodes, but for what is         *)
(* missing.                                                                *)
LEMMA BlacksAtExit ==
  ASSUME NEW t, NEW below, Shape(t, below), NEW q, NEW e, NEW x, MissingAt(t, x, q, e),
         NEW hb, Paths(t, hb, q, e), NEW n \in In(t), NEW d \in Side, t.child[d][n] = Nil
  PROVE  /\ BlacksAbove(t, n) \in Nat /\ hb[t.root] \in Nat
         /\ BlacksAbove(t, n) + ShortAt(below, x, q, e, n, d) = hb[t.root]
<1>1. HeightFits(t, below, hb, x, n)
  BY HeightsAbove
<1>2. n \in Node /\ n # Nil /\ Bit(t, n) \in Nat /\ hb[n] \in Nat
  BY InNode, BitType DEF Shape, Paths
<1>3. BlacksAbove(t, n) \in Nat
  BY Zenon, AboveIn
<1>4. hb[t.root] \in Nat
  <2>1. t.root \in Node \cup {Nil}
    BY DEF Shape, Trees
  <2> QED BY <2>1 DEF Paths
<1>5. hb[n] = Bit(t, n) + (IF n = q /\ d = e THEN 1 ELSE 0)
  <2>1. hb[n] = hb[t.child[d][n]] + Bit(t, n) + (IF n = q /\ d = e THEN 1 ELSE 0)
    BY DEF Paths
  <2>2. hb[t.child[d][n]] = 0
    BY DEF Paths
  <2> QED BY <1>2, <2>1, <2>2
<1>6. hb[t.root] + Bit(t, n) = BlacksAbove(t, n) + hb[n] + Short(below, x, n)
  BY <1>1 DEF HeightFits
<1>7. CASE x # Nil
  <2>1. ~(n = q /\ d = e)
    BY <1>7 DEF MissingAt
  <2>2. hb[n] = Bit(t, n)
    BY <1>2, <1>5, <2>1
  <2>3. Short(below, x, n) \in Nat /\ ShortAt(below, x, q, e, n, d) = Short(below, x, n)
    BY <1>7 DEF Short, ShortAt
  <2> QED BY <1>2, <1>3, <1>4, <1>6, <2>2, <2>3
<1>8. CASE x = Nil
  <2>1. Short(below, x, n) = 0 /\ ShortAt(below, x, q, e, n, d) = (IF n = q /\ d = e THEN 1 ELSE 0)
    BY <1>8 DEF Short, ShortAt
  <2>2. PICK y \in Nat : y = (IF n = q /\ d = e THEN 1 ELSE 0)
    OBVIOUS
  <2>3. hb[n] = Bit(t, n) + y /\ ShortAt(below, x, q, e, n, d) = y
    BY <1>5, <2>1, <2>2
  <2> QED BY <1>2, <1>3, <1>4, <1>6, <2>1, <2>3
<1> QED BY <1>3, <1>4, <1>7, <1>8

(* Values that are all equal to one are equal.                             *)
LEMMA AllTheSame ==
  ASSUME NEW S, NEW v, \A y \in S : y = v
  PROVE  Same(S)
<1>1. CASE S = {}
  BY <1>1, FS_EmptySet DEF Same
<1>2. CASE S # {}
  <2>1. S = {v}
    BY <1>2
  <2>2. Cardinality(S) = 1
    BY Zenon, <2>1, FS_Singleton
  <2> QED BY <2>2 DEF Same
<1> QED BY <1>1, <1>2

(* The ways out, and what the rules say of each.                           *)
LEMMA ExitsAre ==
  ASSUME NEW e \in Exits
  PROVE  /\ e[1] \in In(tree) /\ e[2] \in Side /\ tree.child[e[2]][e[1]] = Nil
         /\ e = <<e[1], e[2]>>
         /\ Blacks(e) = BlacksAbove(tree, e[1])
         /\ Depth(e) = Len(Upwards(tree, e[1], Nil))
<1>1. PICK n \in Linked, d \in Side : e = <<n, d>>
  BY DEF Exits
<1>2. e[1] = n /\ e[2] = d /\ e[1] \in In(tree) /\ tree.child[e[2]][e[1]] = Nil
  BY <1>1 DEF Exits, Linked, InTree, In
<1> QED BY <1>1, <1>2 DEF Blacks, Depth, BlacksAbove

(* With nothing missing all ways out have as many black nodes.             *)
LEMMA WholePaths ==
  ASSUME NEW below, Shape(tree, below), NEW hb, Paths(tree, hb, Nil, "left")
  PROVE  \E v \in Nat : \A e \in Exits : Blacks(e) = v
<1>1. hb[tree.root] \in Nat
  <2>1. tree.root \in Node \cup {Nil}
    BY DEF Shape, Trees
  <2> QED BY <2>1 DEF Paths
<1>2. ASSUME NEW e \in Exits PROVE Blacks(e) = hb[tree.root]
  <2>1. PICK n, d : n = e[1] /\ d = e[2]
    OBVIOUS
  <2>2. /\ n \in In(tree) /\ d \in Side /\ tree.child[d][n] = Nil
        /\ Blacks(e) = BlacksAbove(tree, n)
    BY <2>1, ExitsAre
  <2>3. MissingAt(tree, Nil, Nil, "left")
    BY DEF MissingAt
  <2>4. /\ BlacksAbove(tree, n) \in Nat
        /\ BlacksAbove(tree, n) + ShortAt(below, Nil, Nil, "left", n, d) = hb[tree.root]
    BY <2>2, <2>3, BlacksAtExit
  <2>5. ShortAt(below, Nil, Nil, "left", n, d) = 0
    BY <2>2, InNode DEF ShortAt
  <2> QED BY <2>2, <2>4, <2>5
<1> QED BY <1>1, <1>2

(* And none is more than twice as long as another.                         *)
LEMMA BoundedDepths ==
  ASSUME NEW below, Shape(tree, below), RedsOk(tree, Nil),
         NEW v \in Nat, \A e \in Exits : Blacks(e) = v,
         NEW depths, depths = {Depth(e) : e \in Exits}, depths # {}
  PROVE  Max(depths) <= 2 * Min(depths)
<1>1. ASSUME NEW y \in depths PROVE y \in Nat /\ v <= y /\ y <= 2 * v /\ y >= 1
  <2>1. PICK e \in Exits : y = Depth(e)
    OBVIOUS
  <2>2. PICK n : n = e[1]
    OBVIOUS
  <2>3. n \in In(tree) /\ BlacksAbove(tree, n) = v /\ Len(Upwards(tree, n, Nil)) = y
    BY <2>1, <2>2, ExitsAre
  <2>4. LongEnough(tree, n)
    BY <2>3, PathLengths
  <2>5. Bit(tree, n) \in Nat
    BY <2>3, InNode, BitType DEF Shape
  <2>6. WayUpIs(tree, n, Upwards(tree, n, Nil), Upwards(tree, tree.parent[n], Nil))
    BY <2>3, WayUp
  <2>7. y >= 1
    BY <2>3, <2>6 DEF WayUpIs, OneMore
  <2> QED BY <2>3, <2>4, <2>5, <2>7 DEF LongEnough
<1>2. depths \in SUBSET Nat /\ 2 * v \in Nat
  BY <1>1
<1>3. depths \in SUBSET (1..2 * v)
  <2>1. \A y \in depths : y \in 1..2 * v
    BY <1>1, <1>2
  <2> QED BY <2>1
<1>4. Min(depths) \in depths
  BY Zenon, <1>2, LeastElement
<1>5. Max(depths) \in depths
  BY Zenon, <1>2, <1>3, GreatestPlace
<1>6. PICK a, b : a = Min(depths) /\ b = Max(depths)
  BY Zenon
<1>7. a \in Nat /\ b \in Nat /\ v <= a /\ b <= 2 * v
  BY <1>1, <1>4, <1>5, <1>6
<1>8. b <= 2 * a
  BY <1>7
<1> QED BY <1>6, <1>8

(* The rules of rbtree.c between two calls.                                *)
LEMMA RulesHold ==
  ASSUME NEW below, Shape(tree, below), NEW hb, Loops(tree, pc, node, parent, hb)
  PROVE  Rules
<1> SUFFICES ASSUME pc = "idle" PROVE Rules
  BY DEF Rules
<1>1. RedsOk(tree, Nil) /\ Paths(tree, hb, Nil, "left")
  BY DEF Loops
<1>2. ASSUME NEW n \in Linked PROVE RedInOrder(n) /\ RedOk(tree, n)
  <2>1. n \in In(tree) /\ n # Nil
    BY RbTreeConstants DEF Linked, InTree, In
  <2>2. RedOk(tree, n)
    BY <1>1, <2>1 DEF RedsOk
  <2> QED BY <2>2 DEF RedOk, RedInOrder, Red
<1>3. tree.root # Nil => tree.black[tree.root]
  <2> SUFFICES ASSUME tree.root # Nil PROVE tree.black[tree.root]
    OBVIOUS
  <2>1. tree.root \in Linked
    BY DEF Linked, InTree, Shape, Trees
  <2> QED BY <1>2, <2>1 DEF RedOk
<1>4. PICK v \in Nat : \A e \in Exits : Blacks(e) = v
  BY <1>1, WholePaths
<1>5. Same({Blacks(e) : e \in Exits})
  <2>1. \A y \in {Blacks(e) : e \in Exits} : y = v
    BY <1>4
  <2> QED BY <2>1, AllTheSame
<1>6. \A depths : depths = {Depth(e) : e \in Exits} =>
                    (depths # {} => Max(depths) <= 2 * Min(depths))
  BY <1>1, <1>4, BoundedDepths
<1> QED BY <1>2, <1>3, <1>5, <1>6 DEF Rules

(* The loop of __rb_insert: one node may be red below a red one, and       *)
(* nothing is missing.                                                     *)
LEMMA InsertLoopHolds ==
  ASSUME NEW below, Shape(tree, below), NEW hb, Loops(tree, pc, node, parent, hb)
  PROVE  InsertLoop
<1> SUFFICES ASSUME pc = "insert" PROVE InsertLoop
  BY DEF InsertLoop
<1>1. /\ node \in In(tree) /\ ~tree.black[node] /\ parent = tree.parent[node]
      /\ RedsOk(tree, node) /\ Paths(tree, hb, Nil, "left")
  BY DEF Loops
<1>2. Red(node)
  BY <1>1, InNode DEF Red
<1>3. ASSUME NEW n \in Linked \ {node} PROVE RedInOrder(n)
  <2>1. n \in In(tree) /\ n # node
    BY DEF Linked, InTree, In
  <2>2. RedOk(tree, n)
    BY <1>1, <2>1 DEF RedsOk
  <2> QED BY <2>2 DEF RedOk, RedInOrder, Red
<1>4. PICK v \in Nat : \A e \in Exits : Blacks(e) = v
  BY <1>1, WholePaths
<1>5. Same({Blacks(e) : e \in Exits})
  <2>1. \A y \in {Blacks(e) : e \in Exits} : y = v
    BY <1>4
  <2> QED BY <2>1, AllTheSame
<1> QED BY <1>1, <1>2, <1>3, <1>5 DEF InsertLoop

(* Of one black node less, on the ways out that the loop goes up for.      *)
LEMMA ShortPaths ==
  ASSUME NEW below, Shape(tree, below), NEW hb, NEW d, NEW s,
         EraseRound(tree, node, parent, d, s, hb)
  PROVE  \E v : \A e \in Exits :
           Blacks(e) + (IF (IF node = Nil THEN e = <<parent, d>>
                            ELSE node \in ToSet(Upwards(tree, e[1], Nil)))
                        THEN 1 ELSE 0) = v
<1>1. /\ d \in Side /\ parent \in Node /\ parent # Nil /\ node = tree.child[d][parent]
      /\ Paths(tree, hb, parent, d)
  BY DEF EraseRound
<1>2. node # Nil => node \in Node
  BY DEF EraseRound
<1>3. MissingAt(tree, node, parent, d)
  BY <1>1 DEF MissingAt
<1> SUFFICES ASSUME NEW e \in Exits
             PROVE  Blacks(e) + (IF (IF node = Nil THEN e = <<parent, d>>
                                     ELSE node \in ToSet(Upwards(tree, e[1], Nil)))
                                 THEN 1 ELSE 0) = hb[tree.root]
  BY Zenon
<1>4. PICK n, c : n = e[1] /\ c = e[2]
  OBVIOUS
<1>5. /\ n \in In(tree) /\ c \in Side /\ tree.child[c][n] = Nil /\ e = <<n, c>>
      /\ Blacks(e) = BlacksAbove(tree, n)
  BY <1>4, ExitsAre
<1>6. BlacksAbove(tree, n) + ShortAt(below, node, parent, d, n, c) = hb[tree.root]
  BY <1>1, <1>3, <1>5, BlacksAtExit
<1>7. (IF (IF node = Nil THEN e = <<parent, d>>
           ELSE node \in ToSet(Upwards(tree, e[1], Nil))) THEN 1 ELSE 0)
        = ShortAt(below, node, parent, d, n, c)
  <2>1. CASE node = Nil
    <3>1. e = <<parent, d>> <=> n = parent /\ c = d
      BY <1>5
    <3> QED BY <2>1, <3>1 DEF ShortAt
  <2>2. CASE node # Nil
    <3>1. node \in ToSet(Upwards(tree, n, Nil)) <=> n \in below[node]
      BY <1>2, <1>5, <2>2, UpwardsAre
    <3> QED BY <1>4, <2>2, <3>1 DEF ShortAt, Short
  <2> QED BY <2>1, <2>2
<1> QED BY <1>5, <1>6, <1>7

(* The loop of ____rb_erase_color: the ways out below node lack one black  *)
(* node, and no others.                                                    *)
LEMMA EraseLoopHolds ==
  ASSUME NEW below, Shape(tree, below), NEW hb, Loops(tree, pc, node, parent, hb)
  PROVE  EraseLoop
<1> SUFFICES ASSUME pc = "erase" PROVE EraseLoop
  BY DEF EraseLoop
<1>1. PICK t, d, s : /\ t = tree /\ d = D /\ s = Sibling /\ Near = t.child[d][s]
                     /\ Far = t.child[Other(d)][s] /\ EraseRound(t, node, parent, d, s, hb)
  BY EraseNames
<1>2. EraseRound(tree, node, parent, D, Sibling, hb)
  BY <1>1
<1>3. /\ D \in Side /\ parent \in Node /\ parent # Nil /\ Sibling \in Node /\ Sibling # Nil
      /\ Sibling # parent /\ Sibling \in In(tree) /\ node = tree.child[D][parent]
      /\ RedsOk(tree, Nil) /\ Paths(tree, hb, parent, D)
      /\ hb[node] \in Nat /\ hb[Sibling] = hb[node] + 1
  BY <1>2 DEF EraseRound
<1>4. ~Red(node)
  BY <1>2 DEF EraseRound, Red
<1>5. node # Nil => parent = tree.parent[node]
  BY <1>3, ChildFacts
<1>6. ASSUME Red(Sibling) PROVE Near # Nil /\ Far # Nil
  <2>1. Bit(tree, Sibling) = 0
    BY <1>6 DEF Red, Bit
  <2>2. ASSUME NEW c \in Side PROVE tree.child[c][Sibling] # Nil
    <3>1. hb[Sibling] = hb[tree.child[c][Sibling]] + Bit(tree, Sibling)
                          + (IF Sibling = parent /\ c = D THEN 1 ELSE 0)
      BY <1>3 DEF Paths
    <3>2. (IF Sibling = parent /\ c = D THEN 1 ELSE 0) = 0
      BY <1>3
    <3>3. tree.child[c][Sibling] \in Node \cup {Nil}
      BY <1>3 DEF Shape, Trees
    <3>4. hb[tree.child[c][Sibling]] \in Nat
      BY <1>3, <3>3 DEF Paths
    <3>5. hb[tree.child[c][Sibling]] # 0
      BY <1>3, <2>1, <3>1, <3>2, <3>4
    <3> QED BY <1>3, <3>5 DEF Paths
  <2>3. Other(D) \in Side
    BY <1>3, Sides
  <2> QED BY <1>1, <1>3, <2>2, <2>3
<1>7. ASSUME NEW n \in Linked PROVE RedInOrder(n)
  <2>1. n \in In(tree) /\ n # Nil
    BY RbTreeConstants DEF Linked, InTree, In
  <2>2. RedOk(tree, n)
    BY <1>3, <2>1 DEF RedsOk
  <2> QED BY <2>2 DEF RedOk, RedInOrder, Red
<1>8. PICK v : \A e \in Exits :
           Blacks(e) + (IF (IF node = Nil THEN e = <<parent, D>>
                            ELSE node \in ToSet(Upwards(tree, e[1], Nil)))
                        THEN 1 ELSE 0) = v
  BY Zenon, <1>2, ShortPaths
<1>9. Same({Blacks(e) + (IF (IF node = Nil THEN e = <<parent, D>>
                             ELSE node \in ToSet(Upwards(tree, e[1], Nil)))
                         THEN 1 ELSE 0) : e \in Exits})
  <2>1. \A y \in {Blacks(e) + (IF (IF node = Nil THEN e = <<parent, D>>
                             ELSE node \in ToSet(Upwards(tree, e[1], Nil)))
                         THEN 1 ELSE 0) : e \in Exits} : y = v
    BY <1>8
  <2> QED BY Zenon, <2>1, AllTheSame
<1> QED BY <1>3, <1>4, <1>5, <1>6, <1>7, <1>9, Zenon DEF EraseLoop

(* The properties that the runs check follow from the invariants.          *)
LEMMA RedBlackHolds ==
  ASSUME NEW below, Shape(tree, below), NEW hb, Loops(tree, pc, node, parent, hb)
  PROVE  RedBlack
BY RulesHold, InsertLoopHolds, EraseLoopHolds DEF RedBlack

-----------------------------------------------------------------------------
(* The walks from node to node                                             *)

(* A subtree has one node that is the last on a side.                      *)
LEMMA OneOuter ==
  ASSUME NEW t, NEW below, Shape(t, below), NEW c \in In(t), NEW d \in Side,
         NEW v, OuterIs(t, below, c, d, v), NEW w, OuterIs(t, below, c, d, w)
  PROVE  v = w
<1>1. PICK B : B = {k \in below[c] : v \in below[k] /\ w \in below[k]}
  BY Zenon
<1>2. c \in Node /\ c \in below[c] /\ v \in below[c] /\ w \in below[c]
  BY InNode, BelowParts DEF OuterIs
<1>3. B \subseteq In(t) /\ B # {}
  <2>1. \A k \in below[c] : k \in In(t)
    BY <1>2, BelowIn
  <2> QED BY <1>1, <1>2, <2>1
<1>4. PICK k \in B : \A e \in Side : t.child[e][k] \notin B
  BY <1>3, LowestOf
<1>5. k \in below[c] /\ v \in below[k] /\ w \in below[k] /\ k \in Node
  BY <1>1, <1>2, <1>4, BelowIn
<1>6. PICK l, r : l = t.child[d][k] /\ r = t.child[Other(d)][k]
  BY Zenon
<1>7. /\ v \notin below[r] /\ w \notin below[r] /\ t.child[d][v] = Nil /\ t.child[d][w] = Nil
  BY <1>5, <1>6 DEF OuterIs
<1>8. \A m \in below[k] : m = k \/ m \in below[l] \/ m \in below[r]
  <2>1. \A m \in below[k] : m = k \/ \E e \in Side : m \in below[t.child[e][k]]
    BY <1>5, BelowParts
  <2>2. \A e \in Side : e = d \/ e = Other(d)
    BY Sides
  <2> QED BY <1>6, <2>1, <2>2
<1>9. CASE l = Nil
  <2>1. below[l] = {}
    BY <1>9 DEF Shape, Subtrees
  <2> QED BY <1>5, <1>7, <1>8, <2>1
<1>10. CASE l # Nil
  <2>1. v # k /\ w # k
    BY <1>6, <1>7, <1>10
  <2>2. v \in below[l] /\ w \in below[l]
    BY <1>5, <1>7, <1>8, <2>1
  <2>3. l \in below[k]
    BY <1>5, <1>6, <1>10, ChildFacts
  <2>4. l \in below[c]
    BY <1>2, <1>5, <2>3, BelowBelow
  <2>5. l \in B
    BY <1>1, <2>2, <2>4
  <2> QED BY <1>4, <1>6, <2>5
<1> QED BY <1>9, <1>10

(* From the last node on a side the way up leads on as from the head of    *)
(* its subtree.                                                            *)
LEMMA UpFromOuter ==
  ASSUME NEW t, NEW below, Shape(t, below), NEW d \in Side, NEW up, UpIs(t, d, up)
  PROVE  \A n \in In(t) : up[Outermost(t, n, d)] = up[n]
<1>1. PICK B : B = {n \in In(t) : up[Outermost(t, n, d)] # up[n]}
  BY Zenon
<1> SUFFICES ASSUME B # {} PROVE FALSE
  BY <1>1
<1>2. PICK n \in B : \A e \in Side : t.child[e][n] \notin B
  BY <1>1, LowestOf
<1>3. n \in In(t) /\ n \in Node /\ up[Outermost(t, n, d)] # up[n]
  BY <1>1, <1>2, InNode
<1>4. PICK c : c = t.child[d][n]
  OBVIOUS
<1>5. Outermost(t, n, d) = IF c = Nil THEN n ELSE Outermost(t, c, d)
  BY <1>3, <1>4, OutermostSteps
<1>6. c # Nil
  BY <1>3, <1>5
<1>7. c \in In(t) /\ c \in Node /\ t.parent[c] = n /\ n # Nil
  BY <1>3, <1>4, <1>6, ChildFacts, InNode
<1>8. up[c] = up[n]
  BY <1>4, <1>7 DEF UpIs
<1>9. up[Outermost(t, c, d)] = up[c]
  BY <1>1, <1>2, <1>4, <1>7
<1> QED BY <1>3, <1>5, <1>6, <1>8, <1>9

(* What is next to a node on a side.                                       *)
NextTo(t, n, d, m) == Neighbour(t, n, d) = m

(* The node next to a node with a child on that side is in the subtree of  *)
(* this child; and back.                                                   *)
LEMMA NextBelow ==
  ASSUME NEW t, NEW below, Shape(t, below), NEW d \in Side, NEW n \in In(t),
         NEW c, c = t.child[d][n], c # Nil
  PROVE  /\ NextTo(t, n, d, Outermost(t, c, Other(d)))
         /\ NextTo(t, Outermost(t, c, Other(d)), Other(d), n)
<1>1. n \in Node /\ Node # {} /\ Other(d) \in Side /\ Other(Other(d)) = d /\ d # Other(d)
  <2>1. n \in Node
    BY InNode
  <2> QED BY <2>1 DEF Side, Other
<1>2. PICK up : UpIs(t, d, up)
  BY <1>1, NeighbourSteps
<1>3. PICK back : UpIs(t, Other(d), back)
  BY <1>1, NeighbourSteps
<1>4. NextTo(t, n, d, Outermost(t, c, Other(d)))
  BY <1>2 DEF UpIs, NextTo
<1>5. c \in In(t) /\ c \in Node /\ t.parent[c] = n /\ c # t.child[Other(d)][n]
  <2>1. c \in In(t) /\ c \in Node /\ t.parent[c] = n
    BY <1>1, ChildFacts
  <2>2. c # t.child[Other(d)][n]
    BY <1>1 DEF Shape, Links
  <2> QED BY <2>1, <2>2
<1>6. PICK w : w = Outermost(t, c, Other(d))
  OBVIOUS
<1>7. t.child[Other(d)][w] = Nil
  <2>1. OuterIs(t, below, c, Other(d), w)
    BY <1>1, <1>5, <1>6, OutermostIs
  <2> QED BY <2>1 DEF OuterIs
<1>8. Neighbour(t, w, Other(d)) = back[w]
  BY <1>3, <1>7 DEF UpIs
<1>9. back[w] = back[c]
  BY <1>1, <1>3, <1>5, <1>6, UpFromOuter
<1>10. back[c] = n
  BY <1>1, <1>3, <1>5 DEF UpIs
<1> QED BY <1>4, <1>6, <1>8, <1>9, <1>10 DEF NextTo

(* And beyond the last node of the tree.                                   *)
LEMMA NextOfLast ==
  ASSUME NEW t, NEW below, Shape(t, below), NEW d \in Side, t.root # Nil
  PROVE  NextTo(t, Outermost(t, t.root, d), d, Nil)
<1>1. t.root \in In(t) /\ t.root \in Node /\ Node # {} /\ t.parent[t.root] = Nil
  BY DEF Shape, Trees, In, Links
<1>2. PICK up : UpIs(t, d, up)
  BY <1>1, NeighbourSteps
<1>3. PICK w : w = Outermost(t, t.root, d)
  OBVIOUS
<1>4. t.child[d][w] = Nil
  <2>1. OuterIs(t, below, t.root, d, w)
    BY <1>1, <1>3, OutermostIs
  <2> QED BY <2>1 DEF OuterIs
<1>5. Neighbour(t, w, d) = up[w] /\ up[w] = up[t.root]
  BY <1>1, <1>2, <1>3, <1>4, UpFromOuter DEF UpIs
<1>6. up[t.root] = Nil
  BY <1>1, <1>2 DEF UpIs
<1> QED BY <1>3, <1>5, <1>6 DEF NextTo

(* w is the items of a, then m, then those of b.                           *)
Spliced(S, w, a, m, b) ==
  /\ w \in Seq(S) /\ a \in Seq(S) /\ b \in Seq(S) /\ Len(a) \in Nat /\ Len(b) \in Nat
  /\ Len(w) = Len(a) + 1 + Len(b) /\ w[Len(a) + 1] = m
  /\ \A k \in 1..Len(a) : w[k] = a[k]
  /\ \A k \in 1..Len(b) : w[Len(a) + 1 + k] = b[k]

(* A sequence made of two and an item between them.                        *)
LEMMA Splice ==
  ASSUME NEW S, NEW a \in Seq(S), NEW b \in Seq(S), NEW m \in S, NEW w, w = a \o <<m>> \o b
  PROVE  Spliced(S, w, a, m, b)
<1>1. PICK c : c = a \o <<m>>
  BY Zenon
<1>2. /\ c \in Seq(S) /\ Len(c) = Len(a) + 1 /\ Len(a) \in Nat /\ Len(b) \in Nat
      /\ c[Len(a) + 1] = m /\ \A k \in 1..Len(a) : c[k] = a[k]
  BY <1>1
<1>3. w = c \o b
  BY <1>1
<1>4. /\ w \in Seq(S) /\ Len(w) = Len(c) + Len(b)
      /\ \A k \in 1..Len(w) : w[k] = IF k <= Len(c) THEN c[k] ELSE b[k - Len(c)]
  BY <1>2, <1>3
<1>5. \A k \in 1..Len(c) : w[k] = c[k]
  BY <1>2, <1>4
<1>6. \A k \in 1..Len(b) : w[Len(c) + k] = b[k]
  <2> SUFFICES ASSUME NEW k \in 1..Len(b) PROVE w[Len(c) + k] = b[k]
    BY Zenon
  <2>1. Len(c) + k \in 1..Len(w) /\ ~(Len(c) + k <= Len(c)) /\ (Len(c) + k) - Len(c) = k
    BY <1>2, <1>4
  <2> QED BY Zenon, <1>4, <2>1
<1> HIDE <1>1
<1>7. w[Len(a) + 1] = m /\ \A k \in 1..Len(a) : w[k] = a[k]
  <2>1. Len(a) + 1 \in 1..Len(c) /\ \A k \in 1..Len(a) : k \in 1..Len(c)
    BY <1>2
  <2> QED BY <1>2, <1>5, <2>1
<1> QED BY <1>2, <1>4, <1>6, <1>7 DEF Spliced

(* Each item is next to the one before it.                                 *)
RunIs(t, w) ==
  \A k \in 1..Len(w) - 1 : NextTo(t, w[k], "right", w[k + 1]) /\ NextTo(t, w[k + 1], "left", w[k])

(* It is a run if its parts are, and if it is one where they meet.         *)
LEMMA SpliceRuns ==
  ASSUME NEW t, NEW S, NEW w, NEW a, NEW m, NEW b, Spliced(S, w, a, m, b),
         RunIs(t, a), RunIs(t, b),
         Len(a) > 0 => NextTo(t, a[Len(a)], "right", m) /\ NextTo(t, m, "left", a[Len(a)]),
         Len(b) > 0 => NextTo(t, m, "right", b[1]) /\ NextTo(t, b[1], "left", m)
  PROVE  RunIs(t, w)
<1>1. PICK x, y \in Nat : x = Len(a) /\ y = Len(b)
  BY DEF Spliced
<1>2. /\ Len(w) = x + 1 + y /\ w[x + 1] = m /\ \A k \in 1..x : w[k] = a[k]
      /\ \A k \in 1..y : w[x + 1 + k] = b[k]
  BY <1>1 DEF Spliced
<1> SUFFICES ASSUME NEW k \in 1..Len(w) - 1
             PROVE  NextTo(t, w[k], "right", w[k + 1]) /\ NextTo(t, w[k + 1], "left", w[k])
  BY DEF RunIs
<1>3. k \in 1..x + y
  BY <1>2
<1>4. CASE k < x
  <2>1. k \in 1..x /\ k + 1 \in 1..x /\ k \in 1..Len(a) - 1
    BY <1>1, <1>3, <1>4
  <2>2. NextTo(t, a[k], "right", a[k + 1]) /\ NextTo(t, a[k + 1], "left", a[k])
    BY Zenon, <2>1 DEF RunIs
  <2>3. w[k] = a[k] /\ w[k + 1] = a[k + 1]
    BY <1>2, <2>1
  <2> QED BY <2>2, <2>3
<1>5. CASE k = x
  <2>1. k \in 1..x /\ Len(a) > 0
    BY <1>1, <1>3, <1>5
  <2>2. w[k] = a[Len(a)] /\ w[k + 1] = m
    BY <1>1, <1>2, <1>5, <2>1
  <2> QED BY <2>1, <2>2
<1>6. CASE k = x + 1
  <2>1. Len(b) > 0 /\ 1 \in 1..y /\ k + 1 = x + 1 + 1
    BY <1>1, <1>3, <1>6
  <2>2. w[k] = m /\ w[k + 1] = b[1]
    BY <1>2, <1>6, <2>1
  <2> QED BY <2>1, <2>2
<1>7. CASE k > x + 1
  <2>1. PICK j : j = k - (x + 1)
    OBVIOUS
  <2>2. j \in 1..y /\ j + 1 \in 1..y /\ j \in 1..Len(b) - 1 /\ k = x + 1 + j /\ k + 1 = x + 1 + (j + 1)
    BY <1>1, <1>3, <1>7, <2>1
  <2>3. NextTo(t, b[j], "right", b[j + 1]) /\ NextTo(t, b[j + 1], "left", b[j])
    BY <2>2 DEF RunIs
  <2>4. w[k] = b[j] /\ w[k + 1] = b[j + 1]
    BY <1>2, <2>2
  <2> QED BY <2>3, <2>4
<1> QED BY <1>3, <1>4, <1>5, <1>6, <1>7

(* The nodes of a subtree from left to right, by children and by walks.    *)
WalkFits(t, w, n) ==
  /\ w \in Seq(Node) /\ Len(w) \in Nat /\ Len(w) > 0 /\ RunIs(t, w)
  /\ w[1] = Outermost(t, n, "left") /\ w[Len(w)] = Outermost(t, n, "right")

(* Nothing is out of order without items.                                  *)
LEMMA NoRun ==
  ASSUME NEW t
  PROVE  RunIs(t, <<>>) /\ Len(<<>>) = 0
<1>1. Len(<<>>) = 0 /\ 1..Len(<<>>) - 1 = {}
  OBVIOUS
<1> QED BY <1>1 DEF RunIs

(* From the children up to their parent.                                   *)
LEMMA WalkFitsAbove ==
  ASSUME NEW t, NEW below, Shape(t, below), NEW n \in In(t), NEW l, NEW r,
         l = t.child["left"][n], r = t.child["right"][n], NEW a, NEW b, NEW w,
         Spliced(Node, w, a, n, b),
         l = Nil => a = <<>>, l # Nil => WalkFits(t, a, l),
         r = Nil => b = <<>>, r # Nil => WalkFits(t, b, r)
  PROVE  WalkFits(t, w, n)
<1>1. n \in Node
  BY InNode
<1>2. PICK x, y \in Nat : x = Len(a) /\ y = Len(b)
  BY DEF Spliced
<1>3. /\ w \in Seq(Node) /\ Len(w) = x + 1 + y /\ w[x + 1] = n /\ \A k \in 1..x : w[k] = a[k]
      /\ \A k \in 1..y : w[x + 1 + k] = b[k]
  BY <1>2 DEF Spliced
<1>4. RunIs(t, a) /\ RunIs(t, b)
  BY NoRun DEF WalkFits
<1>5. (x > 0 <=> l # Nil) /\ (y > 0 <=> r # Nil)
  BY <1>2, NoRun DEF WalkFits
<1>6. x > 0 => /\ NextTo(t, a[x], "right", n) /\ NextTo(t, n, "left", a[x])
  <2> SUFFICES ASSUME x > 0 PROVE NextTo(t, a[x], "right", n) /\ NextTo(t, n, "left", a[x])
    OBVIOUS
  <2>1. l # Nil /\ a[x] = Outermost(t, l, "right")
    BY <1>2, <1>5 DEF WalkFits
  <2>2. "left" \in Side /\ Other("left") = "right"
    BY LeftRight
  <2>3. /\ NextTo(t, n, "left", Outermost(t, l, Other("left")))
        /\ NextTo(t, Outermost(t, l, Other("left")), Other("left"), n)
    BY <2>1, <2>2, NextBelow
  <2> QED BY <2>1, <2>2, <2>3
<1>7. y > 0 => /\ NextTo(t, n, "right", b[1]) /\ NextTo(t, b[1], "left", n)
  <2> SUFFICES ASSUME y > 0 PROVE NextTo(t, n, "right", b[1]) /\ NextTo(t, b[1], "left", n)
    OBVIOUS
  <2>1. r # Nil /\ b[1] = Outermost(t, r, "left")
    BY <1>5 DEF WalkFits
  <2>2. "right" \in Side /\ Other("right") = "left"
    BY LeftRight
  <2>3. /\ NextTo(t, n, "right", Outermost(t, r, Other("right")))
        /\ NextTo(t, Outermost(t, r, Other("right")), Other("right"), n)
    BY <2>1, <2>2, NextBelow
  <2> QED BY <2>1, <2>2, <2>3
<1>8. RunIs(t, w)
  BY <1>2, <1>4, <1>6, <1>7, SpliceRuns
<1>9. w[1] = Outermost(t, n, "left")
  <2>1. Outermost(t, n, "left") = IF l = Nil THEN n ELSE Outermost(t, l, "left")
    BY <1>1, LeftRight, OutermostSteps
  <2>2. CASE l = Nil
    <3>1. x = 0
      BY <1>5, <2>2
    <3> QED BY <1>3, <2>1, <2>2, <3>1
  <2>3. CASE l # Nil
    <3>1. a[1] = Outermost(t, l, "left") /\ 1 \in 1..x
      BY <1>5, <2>3 DEF WalkFits
    <3> QED BY <1>3, <2>1, <2>3, <3>1
  <2> QED BY <2>2, <2>3
<1>10. w[Len(w)] = Outermost(t, n, "right")
  <2>1. Outermost(t, n, "right") = IF r = Nil THEN n ELSE Outermost(t, r, "right")
    BY <1>1, LeftRight, OutermostSteps
  <2>2. CASE r = Nil
    <3>1. y = 0
      BY <1>5, <2>2
    <3> QED BY <1>3, <2>1, <2>2, <3>1
  <2>3. CASE r # Nil
    <3>1. b[y] = Outermost(t, r, "right") /\ y \in 1..y
      BY <1>2, <1>5, <2>3 DEF WalkFits
    <3>2. w[x + 1 + y] = b[y]
      BY <1>3, <3>1
    <3> QED BY <1>3, <2>1, <2>3, <3>1, <3>2
  <2> QED BY <2>2, <2>3
<1>11. Len(w) \in Nat /\ Len(w) > 0
  BY <1>3
<1> QED BY <1>3, <1>8, <1>9, <1>10, <1>11 DEF WalkFits

(* Hence for all subtrees.                                                 *)
LEMMA WalksFit ==
  ASSUME NEW t, NEW below, Shape(t, below), NEW walk, WalkIs(t, walk)
  PROVE  \A n \in In(t) : WalkFits(t, walk[n], n)
<1>1. PICK B : B = {n \in In(t) : ~WalkFits(t, walk[n], n)}
  BY Zenon
<1> SUFFICES ASSUME B # {} PROVE FALSE
  BY <1>1
<1>2. PICK n \in B : \A e \in Side : t.child[e][n] \notin B
  BY <1>1, LowestOf
<1>3. n \in In(t) /\ n \in Node /\ ~WalkFits(t, walk[n], n)
  BY <1>1, <1>2, InNode
<1>4. PICK l, r : l = t.child["left"][n] /\ r = t.child["right"][n]
  BY Zenon
<1>5. l # Nil => WalkFits(t, walk[l], l)
  <2>1. l # Nil => l \in In(t)
    BY <1>3, <1>4, LeftRight, ChildFacts
  <2> QED BY <1>1, <1>2, <1>4, <2>1, LeftRight
<1>6. r # Nil => WalkFits(t, walk[r], r)
  <2>1. r # Nil => r \in In(t)
    BY <1>3, <1>4, LeftRight, ChildFacts
  <2> QED BY <1>1, <1>2, <1>4, <2>1, LeftRight
<1>7. PICK a, b, w : a = walk[l] /\ b = walk[r] /\ w = walk[n]
  OBVIOUS
<1>8. Spliced(Node, w, a, n, b)
  <2>1. l \in Node \cup {Nil} /\ r \in Node \cup {Nil}
    BY <1>3, <1>4, LeftRight DEF Shape, Trees
  <2>2. a \in Seq(Node) /\ b \in Seq(Node) /\ w = a \o <<n>> \o b
    BY Zenon, <1>3, <1>4, <1>7, <2>1 DEF WalkIs
  <2> QED BY Zenon, <1>3, <2>2, Splice
<1>9. (l = Nil => a = <<>>) /\ (r = Nil => b = <<>>)
  BY <1>7 DEF WalkIs
<1>10. WalkFits(t, w, n)
  BY <1>3, <1>4, <1>5, <1>6, <1>7, <1>8, <1>9, WalkFitsAbove
<1> QED BY <1>3, <1>7, <1>10

(* rb_next and rb_prev go through the tree in order, to its ends.          *)
LEMMA WalksAgreeHolds ==
  ASSUME NEW below, Shape(tree, below)
  PROVE  WalksAgree
<1>1. PICK walk : WalkIs(tree, walk)
  BY InOrderSteps
<1>2. PICK s : s = InOrder(tree)
  OBVIOUS
<1> SUFFICES ASSUME NEW k \in 1..Len(s)
             PROVE  /\ Neighbour(tree, s[k], "right") = IF k = Len(s) THEN Nil ELSE s[k + 1]
                    /\ Neighbour(tree, s[k], "left") = IF k = 1 THEN Nil ELSE s[k - 1]
  BY <1>2 DEF WalksAgree
<1>3. s = walk[tree.root]
  BY <1>1, <1>2 DEF WalkIs
<1>4. tree.root # Nil
  <2> SUFFICES ASSUME tree.root = Nil PROVE FALSE
    OBVIOUS
  <2>1. s = <<>>
    BY <1>1, <1>3 DEF WalkIs
  <2> QED BY <2>1
<1>5. tree.root \in In(tree)
  BY <1>4 DEF Shape, Trees, In
<1>6. WalkFits(tree, s, tree.root)
  BY <1>1, <1>3, <1>5, WalksFit
<1>7. PICK n \in Nat : n = Len(s)
  BY <1>6 DEF WalkFits
<1>8. k \in 1..n /\ n > 0
  BY <1>7
<1>9. Neighbour(tree, s[k], "right") = IF k = Len(s) THEN Nil ELSE s[k + 1]
  <2>1. CASE k = n
    <3>1. NextTo(tree, Outermost(tree, tree.root, "right"), "right", Nil)
      BY <1>4, LeftRight, NextOfLast
    <3>2. s[k] = Outermost(tree, tree.root, "right")
      BY <1>6, <1>7, <2>1 DEF WalkFits
    <3> QED BY <1>7, <2>1, <3>1, <3>2 DEF NextTo
  <2>2. CASE k # n
    <3>1. k \in 1..Len(s) - 1
      BY <1>7, <1>8, <2>2
    <3>2. NextTo(tree, s[k], "right", s[k + 1])
      BY <1>6, <3>1 DEF WalkFits, RunIs
    <3> QED BY <1>7, <2>2, <3>2 DEF NextTo
  <2> QED BY <2>1, <2>2
<1>10. Neighbour(tree, s[k], "left") = IF k = 1 THEN Nil ELSE s[k - 1]
  <2>1. CASE k = 1
    <3>1. NextTo(tree, Outermost(tree, tree.root, "left"), "left", Nil)
      BY <1>4, LeftRight, NextOfLast
    <3>2. s[k] = Outermost(tree, tree.root, "left")
      BY <1>6, <2>1 DEF WalkFits
    <3> QED BY <2>1, <3>1, <3>2 DEF NextTo
  <2>2. CASE k # 1
    <3>1. PICK j : j = k - 1
      OBVIOUS
    <3>2. j \in 1..Len(s) - 1 /\ j + 1 = k
      BY <1>7, <1>8, <2>2, <3>1
    <3>3. NextTo(tree, s[j + 1], "left", s[j])
      BY <1>6, <3>2 DEF WalkFits, RunIs
    <3> QED BY <2>2, <3>1, <3>2, <3>3 DEF NextTo
  <2> QED BY <2>1, <2>2
<1> QED BY <1>9, <1>10

(* The first node is the last one on the left.                             *)
LEMMA FirstIsOuter ==
  ASSUME NEW t, NEW below, Shape(t, below), t.root # Nil, NEW first,
         FirstIs(t, below, first)
  PROVE  t.root \in In(t) /\ OuterIs(t, below, t.root, "left", first)
<1>1. t.root \in In(t) /\ below[t.root] = In(t)
  BY DEF Shape, Trees, In, Subtrees
<1>2. \A m \in In(t) : m \in Node
  BY InNode
<1> QED BY <1>1, <1>2, LeftRight DEF FirstIs, OuterIs

(* The other property that the runs check.                                 *)
LEMMA LinksAgreeHolds ==
  ASSUME NEW below, Shape(tree, below), FirstIs(tree, below, tree.leftmost)
  PROVE  LinksAgree
<1>1. tree.root # Nil => tree.parent[tree.root] = Nil
  BY DEF Shape, Links
<1>2. \A n \in Linked, d \in Side :
        tree.child[d][n] # Nil => /\ tree.parent[tree.child[d][n]] = n
                                  /\ tree.child[d][n] # tree.child[Other(d)][n]
  BY DEF Shape, Links, Linked
<1>3. \A n \in Linked : n \in In(tree) /\ n \in Node
  BY DEF Linked, InTree, In
<1>4. \A n \in Linked \ {tree.root} : \E d \in Side : tree.child[d][tree.parent[n]] = n
  BY <1>3, ParentFacts
<1>5. ASSUME NEW n \in Linked PROVE tree.root \in ToSet(Upwards(tree, n, Nil))
  <2>1. n \in below[tree.root] /\ n \in In(tree)
    BY <1>3 DEF Shape, Subtrees
  <2>2. tree.root \in Node \cup {Nil} /\ tree.root # Nil
    BY <2>1 DEF Shape, Subtrees, Trees
  <2> QED BY <2>1, <2>2, UpwardsAre
<1>6. WalksAgree
  BY WalksAgreeHolds
<1>7. tree.leftmost = IF tree.root = Nil THEN Nil ELSE InOrder(tree)[1]
  <2>1. CASE tree.root = Nil
    BY <2>1 DEF FirstIs
  <2>2. CASE tree.root # Nil
    <3>1. tree.root \in In(tree) /\ OuterIs(tree, below, tree.root, "left", tree.leftmost)
      BY <2>2, FirstIsOuter
    <3>2. PICK walk : WalkIs(tree, walk)
      BY InOrderSteps
    <3>3. WalkFits(tree, walk[tree.root], tree.root)
      BY SMTT(30), <3>1, <3>2, WalksFit
    <3>4. InOrder(tree)[1] = Outermost(tree, tree.root, "left")
      BY <3>2, <3>3 DEF WalkIs, WalkFits
    <3>5. OuterIs(tree, below, tree.root, "left", Outermost(tree, tree.root, "left"))
      BY <3>1, LeftRight, OutermostIs
    <3>6. tree.leftmost = Outermost(tree, tree.root, "left")
      BY <3>1, <3>5, LeftRight, OneOuter
    <3> QED BY <2>2, <3>4, <3>6
  <2> QED BY <2>1, <2>2
<1> QED BY <1>1, <1>2, <1>4, <1>5, <1>6, <1>7 DEF LinksAgree

-----------------------------------------------------------------------------
(* The order of the nodes                                                  *)

(* One interval ends before the other starts.                              *)
IntervalOrder == {e \in Node \X Node : LAST[e[1]] < START[e[2]]}

(* This order is transitive, as no interval ends before it starts.         *)
LEMMA Intervals ==
  /\ \A m \in Node : START[m] \in Int /\ LAST[m] \in Int /\ START[m] <= LAST[m]
  /\ \A m, n \in Node : <<m, n>> \in IntervalOrder <=> LAST[m] < START[n]
  /\ \A m, n \in Node : SideFor(m, n) \in Side
  /\ Transitive(IntervalOrder)
<1>1. \A m \in Node : START[m] \in Int /\ LAST[m] \in Int /\ START[m] <= LAST[m]
  BY IntervalTreeConstants, RbTreeConstants
<1>2. \A m, n \in Node : <<m, n>> \in IntervalOrder <=> LAST[m] < START[n]
  BY DEF IntervalOrder
<1>3. \A m, n \in Node : SideFor(m, n) \in Side
  BY DEF SideFor, Side
<1>4. Transitive(IntervalOrder)
  BY <1>1, <1>2 DEF Transitive
<1> QED BY <1>1, <1>2, <1>3, <1>4

-----------------------------------------------------------------------------
(* The way down                                                            *)

(* The way down by a side for each node, node by node.                     *)
DescentIs(t, side, down) ==
  /\ down \in [Node \cup {Nil} -> Seq(Node)] /\ down[Nil] = <<>>
  /\ \A m \in Node : down[m] = <<m>> \o down[t.child[side[m]][m]]
  /\ \A m : WayDown(t, m, side) = down[m]

(* In a tree the recursive function does what its equation says.           *)
LEMMA DescentSteps ==
  ASSUME NEW t, NEW below, Shape(t, below), NEW side \in [Node -> Side]
  PROVE  \E down : DescentIs(t, side, down)
<1> DEFINE S == Node \cup {Nil}
           V == Seq(Node)
           step(f, m) == IF m = Nil THEN <<>> ELSE <<m>> \o f[t.child[side[m]][m]]
           E == [m \in S |-> [f \in [S -> V] |-> step(f, m)]]
           iter == CHOOSE f : f = [m \in S |-> step(f, m)]
<1>1. PICK rank : rank = Height(t, below)
  OBVIOUS
<1>2. PICK N \in Nat : /\ rank \in [S -> 0..N]
                       /\ \A m \in Node, d \in Side : rank[t.child[d][m]] < rank[m]
  BY <1>1, HeightRanks
<1>3. \A m \in Node : /\ t.child[side[m]][m] \in S
                      /\ rank[t.child[side[m]][m]] < rank[m]
  <2>1. \A m \in Node, d \in Side : t.child[d][m] \in S
    BY DEF Shape, Trees
  <2> QED BY <1>2, <2>1
<1>4. V # {}
  <2>1. <<>> \in V
    OBVIOUS
  <2> QED BY <2>1
<1>5. \A a \in V, m \in Node : <<m>> \o a \in V
  OBVIOUS
<1>6. <<>> \in V
  OBVIOUS
<1> HIDE DEF V
<1>7. E \in [S -> [[S -> V] -> V]]
  <2> SUFFICES ASSUME NEW m \in S, NEW f \in [S -> V] PROVE step(f, m) \in V
    OBVIOUS
  <2>1. CASE m = Nil
    BY <1>6, <2>1
  <2>2. CASE m # Nil
    <3>1. m \in Node /\ f[t.child[side[m]][m]] \in V
      BY <1>3, <2>2
    <3> QED BY <1>5, <2>2, <3>1
  <2> QED BY <2>1, <2>2
<1>8. Founded(S, V, E, rank)
  <2> SUFFICES ASSUME NEW m \in S, NEW f \in [S -> V], NEW g \in [S -> V],
                      \A y \in S : rank[y] < rank[m] => f[y] = g[y]
               PROVE  step(f, m) = step(g, m)
    BY DEF Founded
  <2>1. m \in Node => f[t.child[side[m]][m]] = g[t.child[side[m]][m]]
    BY <1>3
  <2> QED BY <2>1
<1> HIDE DEF S
<1>9. PICK f : Solution(S, V, E, f)
  <2> HIDE DEF E
  <2>1. Recursive(S, V, E, N, rank)
    BY <1>2, <1>4, <1>7, <1>8 DEF Recursive
  <2> QED BY <2>1, Recursion
<1>10. f = [m \in S |-> step(f, m)]
  <2>1. f \in [S -> V] /\ \A m \in S : f[m] = E[m][f]
    BY <1>9 DEF Solution
  <2>2. \A m \in S : E[m][f] = step(f, m)
    BY <2>1
  <2> HIDE DEF step, E
  <2> QED BY <2>1, <2>2
<1>11. iter = [m \in S |-> step(iter, m)]
  <2> HIDE DEF step
  <2> QED BY <1>10, Zenon
<1>12. \A m \in S : iter[m] = step(iter, m)
  <2> HIDE DEF step, iter
  <2> QED BY <1>11, Zenon
<1>13. iter = [m \in S |-> iter[m]]
  <2> HIDE DEF step, iter
  <2> QED BY <1>11
<1>14. \A m : WayDown(t, m, side) = iter[m]
  BY Zenon DEF WayDown, iter, S
<1> HIDE DEF iter
<1>15. PICK P : P = {m \in S : iter[m] \in V}
  OBVIOUS
<1>16. \A m \in S : (\A y \in S : rank[y] < rank[m] => y \in P) => m \in P
  <2> SUFFICES ASSUME NEW m \in S, \A y \in S : rank[y] < rank[m] => y \in P
               PROVE  step(iter, m) \in V
    BY <1>12, <1>15
  <2>1. CASE m = Nil
    BY <1>6, <2>1
  <2>2. CASE m # Nil
    <3>1. m \in Node
      BY <2>2 DEF S
    <3>2. iter[t.child[side[m]][m]] \in V
      BY <1>3, <1>15, <3>1
    <3> QED BY <1>5, <2>2, <3>1, <3>2
  <2> QED BY <2>1, <2>2
<1>17. \A m \in S : m \in P
  <2> HIDE DEF step
  <2> QED BY <1>2, <1>16, RankInduction
<1>18. iter \in [S -> V]
  BY <1>13, <1>15, <1>17
<1>19. Nil \in S /\ (\A m \in Node : m \in S /\ m # Nil)
  BY RbTreeConstants DEF S
<1> QED BY <1>12, <1>14, <1>18, <1>19 DEF DescentIs, S, V

(* path leads from m to w, where there is room on the side given; on it    *)
(* are the nodes that w is below.                                          *)
WayDownIs(t, below, side, m, path, w) ==
  /\ path \in Seq(Node) /\ Len(path) \in Nat /\ Len(path) > 0 /\ w = path[Len(path)]
  /\ w \in below[m] /\ t.child[side[w]][w] = Nil
  /\ \A k : k \in ToSet(path) <=> k \in below[m] /\ w \in below[k]
  /\ \A k \in below[m], e \in Side : w \in below[t.child[e][k]] => e = side[k]

(* It ends where there is no child.                                        *)
LEMMA WayEnds ==
  ASSUME NEW t, NEW below, Shape(t, below), NEW side \in [Node -> Side], NEW m \in In(t), NEW path,
         OneMore(Node, path, m, <<>>), t.child[side[m]][m] = Nil
  PROVE  WayDownIs(t, below, side, m, path, m)
<1>1. m \in Node /\ m \in below[m]
  BY InNode, BelowParts
<1>2. \A k : k \in ToSet(path) <=> k = m
  BY NoItems DEF OneMore
<1>3. path \in Seq(Node) /\ Len(path) = 1 /\ path[1] = m
  BY NoItems DEF OneMore
<1>4. ASSUME NEW k \in below[m], m \in below[k] PROVE k = m
  <2>1. k \in Node
    BY <1>1, BelowIn
  <2> QED BY <1>1, <1>4, <2>1, BelowOneWay
<1>5. ASSUME NEW k \in below[m], NEW e \in Side, m \in below[t.child[e][k]] PROVE FALSE
  <2>1. k \in Node
    BY <1>1, BelowIn
  <2>2. m \in below[k] /\ m # k
    BY <1>5, <2>1, BelowParts
  <2> QED BY <1>4, <2>2
<1>6. \A k : k \in ToSet(path) <=> k \in below[m] /\ m \in below[k]
  BY <1>1, <1>2, <1>4
<1> QED BY <1>1, <1>3, <1>5, <1>6 DEF WayDownIs

(* Or goes on below a child.                                               *)
LEMMA WayGoesOn ==
  ASSUME NEW t, NEW below, Shape(t, below), NEW side \in [Node -> Side], NEW m \in In(t),
         NEW path, NEW rest, OneMore(Node, path, m, rest), NEW c, c = t.child[side[m]][m], c # Nil,
         NEW w, WayDownIs(t, below, side, c, rest, w)
  PROVE  WayDownIs(t, below, side, m, path, w)
<1>1. m \in Node /\ side[m] \in Side
  BY InNode
<1>2. c \in Node /\ c \in below[m] /\ (\A k \in below[c] : k \in below[m] /\ k # m)
  BY <1>1, ChildFacts, BelowParts
<1>3. w \in below[c] /\ w \in below[m] /\ t.child[side[w]][w] = Nil
  BY <1>2 DEF WayDownIs
<1>4. path \in Seq(Node) /\ Len(path) \in Nat /\ Len(path) > 0 /\ w = path[Len(path)]
  <2>1. PICK j \in Nat : j = Len(rest) /\ j > 0
    BY DEF WayDownIs
  <2>2. path \in Seq(Node) /\ Len(path) = j + 1 /\ path[j + 1] = rest[j]
    <3>1. j \in 1..Len(rest)
      BY <2>1
    <3> QED BY <2>1, <3>1 DEF OneMore
  <2> QED BY <2>1, <2>2 DEF WayDownIs
<1>5. ASSUME NEW e \in Side, w \in below[t.child[e][m]] PROVE e = side[m]
  <2>1. \A d \in Side : \A x \in below[t.child[d][m]] : x \notin below[t.child[Other(d)][m]]
    BY <1>1 DEF Shape, Subtrees
  <2>2. w \notin below[t.child[Other(side[m])][m]]
    BY <1>1, <1>3, <2>1
  <2> QED BY <1>1, <1>5, <2>2, Sides
<1>6. ASSUME NEW k \in below[m], w \in below[k], k # m PROVE k \in below[c]
  <2>1. PICK e \in Side : k \in below[t.child[e][m]]
    BY <1>1, <1>6, BelowParts
  <2>2. t.child[e][m] \in Node
    BY <1>1, <2>1 DEF Shape, Subtrees, Trees
  <2>3. w \in below[t.child[e][m]]
    BY <1>6, <2>1, <2>2, BelowBelow
  <2> QED BY <1>5, <2>1, <2>3
<1>7. \A k : k \in ToSet(rest) <=> k \in below[c] /\ w \in below[k]
  BY DEF WayDownIs
<1>8. \A k : k \in ToSet(path) <=> k = m \/ k \in ToSet(rest)
  BY DEF OneMore
<1>9. m \in below[m]
  BY <1>1, BelowParts
<1>10. \A k : k \in ToSet(path) <=> k \in below[m] /\ w \in below[k]
  BY <1>2, <1>3, <1>6, <1>7, <1>8, <1>9
<1>11. ASSUME NEW k \in below[m], NEW e \in Side, w \in below[t.child[e][k]]
       PROVE  e = side[k]
  <2>1. CASE k = m
    BY <1>5, <1>11, <2>1
  <2>2. CASE k # m
    <3>1. k \in Node
      BY <1>1, BelowIn
    <3>2. w \in below[k]
      BY <1>11, <3>1, BelowParts
    <3>3. k \in below[c]
      BY <1>6, <2>2, <3>2
    <3> QED BY <1>11, <3>3 DEF WayDownIs
  <2> QED BY <2>1, <2>2
<1> QED BY <1>3, <1>4, <1>10, <1>11 DEF WayDownIs

(* So it is from every node, by induction from the leaves up.              *)
LEMMA WaysDown ==
  ASSUME NEW t, NEW below, Shape(t, below), NEW side \in [Node -> Side], NEW down, DescentIs(t, side, down)
  PROVE  \A m \in In(t) : \E w : WayDownIs(t, below, side, m, down[m], w)
<1>1. PICK B : B = {m \in In(t) : ~\E w : WayDownIs(t, below, side, m, down[m], w)}
  OBVIOUS
<1> SUFFICES ASSUME B # {} PROVE FALSE
  BY <1>1
<1>2. PICK m \in B : \A e \in Side : t.child[e][m] \notin B
  BY <1>1, LowestOf
<1>3. m \in In(t) /\ m \in Node /\ ~\E w : WayDownIs(t, below, side, m, down[m], w)
  BY <1>1, <1>2, InNode
<1>4. PICK c : c = t.child[side[m]][m]
  OBVIOUS
<1>5. side[m] \in Side
  BY <1>3
<1>6. c \in Node \cup {Nil}
  BY <1>3, <1>4, <1>5 DEF Shape, Trees
<1>7. PICK path, rest : path = down[m] /\ rest = down[c]
  OBVIOUS
<1>8. OneMore(Node, path, m, rest)
  <2>1. path = <<m>> \o rest /\ rest \in Seq(Node)
    BY <1>3, <1>4, <1>6, <1>7 DEF DescentIs
  <2> QED BY <1>3, <2>1, ItemsAfter
<1>9. CASE c = Nil
  <2>1. rest = <<>>
    BY <1>7, <1>9 DEF DescentIs
  <2>2. WayDownIs(t, below, side, m, path, m)
    BY <1>3, <1>4, <1>8, <1>9, <2>1, WayEnds
  <2> QED BY <1>3, <1>7, <2>2
<1>10. CASE c # Nil
  <2>1. c \in In(t)
    BY <1>3, <1>4, <1>5, <1>10, ChildFacts
  <2>2. c \notin B
    BY <1>2, <1>4, <1>5
  <2>3. PICK w : WayDownIs(t, below, side, c, rest, w)
    BY <1>1, <1>7, <2>1, <2>2
  <2>4. WayDownIs(t, below, side, m, path, w)
    BY <1>3, <1>4, <1>8, <1>10, <2>3, WayGoesOn
  <2> QED BY <1>3, <1>7, <2>4
<1> QED BY <1>9, <1>10

-----------------------------------------------------------------------------
(* Adding a node                                                           *)

Larger(a, b) == IF a <= b THEN b ELSE a

(* The larger of two ends.                                                 *)
LEMMA LargerIs ==
  ASSUME NEW a \in Int, NEW b \in Int
  PROVE  Max({a, b}) = Larger(a, b) /\ Larger(a, b) \in Int
<1>1. \E x \in {a, b} : \A y \in {a, b} : x >= y
  OBVIOUS
<1>2. Max({a, b}) \in {a, b} /\ \A y \in {a, b} : Max({a, b}) >= y
  BY <1>1 DEF Max
<1> QED BY <1>2 DEF Larger

(* The nodes to which the end of n is passed on.                           *)
RaisedSet(t, path, hole, n) ==
  LET above == Upwards(t, hole, Nil)
      enough == {k \in 1..Len(above) : t.last[above[k]] >= LAST[n]}
  IN  ToSet(path) \cup (IF enough = {} THEN ToSet(above)
                        ELSE ToSet(SubSeq(above, 1, Min(enough) - 1)))

(* The nodes of X have the end of n if it is larger than theirs.           *)
RaisedTo(t, u, X, n) ==
  /\ OnlyLast(t, u)
  /\ \A m \in Node : u.last[m] = IF m \in X THEN Larger(t.last[m], LAST[n]) ELSE t.last[m]

(* This is what Raise does.                                                *)
LEMMA RaiseFields ==
  ASSUME NEW t \in Trees, NEW path, NEW hole, NEW n \in Node
  PROVE  RaisedTo(t, Raise(t, path, hole, n), RaisedSet(t, path, hole, n), n)
<1>1. PICK X : X = RaisedSet(t, path, hole, n)
  OBVIOUS
<1>2. PICK f : f = [m \in Node |-> IF m \in X THEN Max({t.last[m], LAST[n]}) ELSE t.last[m]]
  OBVIOUS
<1>3. Raise(t, path, hole, n) = [t EXCEPT !.last = f]
  <2>1. Raise(t, path, hole, n) =
          [t EXCEPT !.last = [m \in Node |-> IF m \in RaisedSet(t, path, hole, n)
                                             THEN Max({t.last[m], LAST[n]}) ELSE t.last[m]]]
    BY DEF Raise, RaisedSet
  <2> QED BY <1>1, <1>2, <2>1
<1>4. \A m \in Node : t.last[m] \in Int /\ LAST[n] \in Int
  BY Intervals DEF Trees
<1>5. \A m \in Node : f[m] = IF m \in X THEN Larger(t.last[m], LAST[n]) ELSE t.last[m]
  BY <1>2, <1>4, LargerIs
<1>6. f \in [Node -> Int]
  <2>1. \A m \in Node : f[m] \in Int
    BY <1>4, <1>5, LargerIs
  <2> QED BY <1>2, <2>1
<1>7. PICK u : u = [t EXCEPT !.last = f]
  OBVIOUS
<1>8. OnlyLast(t, u) /\ u.last = f
  BY <1>6, <1>7 DEF OnlyLast, Trees
<1> QED BY <1>1, <1>3, <1>5, <1>7, <1>8 DEF RaisedTo

(* Ends alone change neither shape nor order nor colours.                  *)
LEMMA OnlyLastKeeps ==
  ASSUME NEW t, NEW u, OnlyLast(t, u), NEW below, Shape(t, below)
  PROVE  /\ Shape(u, below) /\ u.leftmost = t.leftmost
         /\ \A m \in Node : m \in In(u) <=> m \in In(t)
         /\ \A first : FirstIs(t, below, first) => FirstIs(u, below, first)
         /\ \A R : Ordered(t, below, R) => Ordered(u, below, R)
         /\ \A hb : Paths(t, hb, Nil, "left") => Paths(u, hb, Nil, "left")
         /\ RedsOk(t, Nil) => RedsOk(u, Nil)
<1>1. /\ u \in Trees /\ u.root = t.root /\ u.leftmost = t.leftmost /\ u.child = t.child
      /\ u.parent = t.parent /\ u.black = t.black
  BY DEF OnlyLast
<1>2. In(u) = In(t)
  BY <1>1 DEF In
<1>3. Links(u)
  BY <1>1, <1>2 DEF Shape, Links
<1>4. Subtrees(u, below)
  BY <1>1, <1>2 DEF Shape, Subtrees
<1>5. \A first : FirstIs(t, below, first) => FirstIs(u, below, first)
  BY <1>1, <1>2 DEF FirstIs
<1>6. \A R : Ordered(t, below, R) => Ordered(u, below, R)
  BY <1>1 DEF Ordered
<1>7. \A hb : Paths(t, hb, Nil, "left") => Paths(u, hb, Nil, "left")
  BY <1>1, <1>2 DEF Paths, Bit
<1>8. RedsOk(t, Nil) => RedsOk(u, Nil)
  BY <1>1, <1>2 DEF RedsOk, RedOk
<1> QED BY <1>1, <1>2, <1>3, <1>4, <1>5, <1>6, <1>7, <1>8 DEF Shape

-----------------------------------------------------------------------------
(* The place of the new node                                               *)

(* n is to be added next to hole: what a caller has to keep to.            *)
Behind(t, hole, n) ==
  /\ n \in Node /\ n \notin In(t) /\ hole \in Node \cup {Nil}
  /\ hole # Nil => hole \in In(t) /\ LAST[hole] < START[n]
  /\ \A m \in In(t) : m # hole => LAST[n] < START[m] \/ (hole # Nil /\ START[m] < START[hole])

(* Where the way down begins.                                              *)
TopFor(t, hole) == IF hole = Nil THEN t.root ELSE t.child["right"][hole]

(* All nodes below the top of the way down come after n.                   *)
LEMMA AllAfter ==
  ASSUME NEW t, NEW below, Shape(t, below), Ordered(t, below, IntervalOrder),
         NEW hole, NEW n, Behind(t, hole, n), NEW top, top = TopFor(t, hole), top # Nil
  PROVE  /\ top \in In(t)
         /\ \A m \in below[top] : m \in Node /\ LAST[n] < START[m] /\ SideFor(n, m) = "left"
<1>1. n \in Node
  BY DEF Behind
<1>2. top \in In(t) /\ top \in Node
  <2>1. CASE hole = Nil
    <3>1. top = t.root
      BY <2>1 DEF TopFor
    <3> QED BY <3>1 DEF Shape, Trees, In
  <2>2. CASE hole # Nil
    <3>1. top = t.child["right"][hole] /\ hole \in Node
      BY <2>2 DEF TopFor, Behind
    <3> QED BY <3>1, LeftRight, ChildFacts
  <2> QED BY <2>1, <2>2
<1>3. ASSUME NEW m \in below[top] PROVE m \in Node /\ LAST[n] < START[m] /\ SideFor(n, m) = "left"
  <2>1. m \in Node /\ m \in In(t)
    BY <1>2, BelowIn
  <2>2. LAST[n] < START[m]
    <3>1. CASE hole = Nil
      <4>1. m # hole
        BY <2>1, <3>1, InNode
      <4> QED BY <2>1, <3>1, <4>1 DEF Behind
    <3>2. CASE hole # Nil
      <4>1. hole \in Node /\ m \in below[t.child["right"][hole]]
        BY <3>2 DEF Behind, TopFor
      <4>2. m # hole
        BY <4>1, LeftRight, BelowParts
      <4>3. Precedes(IntervalOrder, "right", m, hole)
        BY <4>1, LeftRight DEF Ordered
      <4>4. LAST[hole] < START[m]
        BY <2>1, <4>1, <4>3, Intervals DEF Precedes
      <4>5. LAST[n] < START[m] \/ START[m] < START[hole]
        BY <2>1, <4>2 DEF Behind
      <4> QED BY <1>1, <2>1, <4>1, <4>4, <4>5, Intervals
    <3> QED BY <3>1, <3>2
  <2>3. START[n] < START[m]
    BY <1>1, <2>1, <2>2, Intervals
  <2> QED BY <2>1, <2>2, <2>3 DEF SideFor
<1> QED BY <1>2, <1>3

(* And those above hole come after it as they come after hole.             *)
LEMMA AfterHole ==
  ASSUME NEW t, NEW below, Shape(t, below), Ordered(t, below, IntervalOrder),
         NEW hole, NEW n, Behind(t, hole, n), hole # Nil,
         NEW m \in Node, NEW e \in Side, hole \in below[t.child[e][m]] \/ (m = hole /\ e = "right")
  PROVE  Precedes(IntervalOrder, e, n, m)
<1>1. n \in Node /\ hole \in Node /\ hole \in In(t) /\ LAST[hole] < START[n]
  BY InNode DEF Behind
<1>2. CASE m = hole /\ e = "right"
  BY <1>1, <1>2, Intervals DEF Precedes
<1>3. CASE hole \in below[t.child[e][m]]
  <2>1. Precedes(IntervalOrder, e, hole, m)
    BY <1>3 DEF Ordered
  <2>2. m # hole /\ m \in In(t)
    <3>1. m # hole /\ hole \in below[m]
      BY <1>3, BelowParts
    <3> QED BY <1>1, <3>1, BelowIn
  <2>3. CASE e = "left"
    <3>1. LAST[hole] < START[m]
      BY <1>1, <2>1, <2>3, Intervals DEF Precedes
    <3>2. LAST[n] < START[m] \/ START[m] < START[hole]
      BY <2>2 DEF Behind
    <3>3. LAST[n] < START[m]
      BY <1>1, <3>1, <3>2, Intervals
    <3> QED BY <1>1, <2>3, <3>3, Intervals DEF Precedes
  <2>4. CASE e # "left"
    <3>1. LAST[m] < START[hole]
      BY <1>1, <2>1, <2>4, Intervals DEF Precedes
    <3>2. LAST[m] < START[n]
      BY <1>1, <3>1, Intervals
    <3> QED BY <1>1, <2>4, <3>2, Intervals DEF Precedes
  <2> QED BY <2>3, <2>4
<1> QED BY <1>2, <1>3

(* The place for n: next to hole, or the leftmost one below top.           *)
PlaceIs(t, below, hole, top, p, d) ==
  \/ top = Nil /\ p = hole /\ d = "right"
  \/ /\ top # Nil /\ top \in In(t) /\ p \in below[top] /\ d = "left"
     /\ t.child["left"][p] = Nil
     /\ \A m \in below[top], e \in Side : p \in below[t.child[e][m]] => e = "left"

(* path is the way down, and ends above the place.                         *)
PathIs(t, below, hole, top, p, path) ==
  /\ path \in Seq(Node) /\ Len(path) \in Nat
  /\ top = Nil => path = <<>> /\ p = hole
  /\ top # Nil => \A k : k \in ToSet(path) <=> k \in below[top] /\ p \in below[k]

(* The way down comes to that place, and goes to the left all the way.     *)
LEMMA PlaceFound ==
  ASSUME NEW t, NEW below, Shape(t, below), Ordered(t, below, IntervalOrder),
         NEW hole, NEW n, Behind(t, hole, n), NEW top, top = TopFor(t, hole),
         NEW path, path = Descent(t, top, n),
         NEW p, p = (IF path = <<>> THEN hole ELSE path[Len(path)]),
         NEW d, d = (IF path = <<>> THEN "right" ELSE SideFor(n, p))
  PROVE  /\ PlaceIs(t, below, hole, top, p, d)
         /\ PathIs(t, below, hole, top, p, path)
         /\ \A k \in 1..Len(path) : SideFor(n, path[k]) = "left"
<1>0. PICK side : side = [k \in Node |-> SideFor(n, k)]
  OBVIOUS
<1>1. side \in [Node -> Side] /\ \A k \in Node : side[k] = SideFor(n, k)
  BY <1>0, Intervals DEF Behind
<1>2. PICK down : DescentIs(t, side, down)
  BY <1>1, DescentSteps
<1>3. path = down[top]
  BY <1>0, <1>2 DEF DescentIs, Descent
<1>4. CASE top = Nil
  <2>1. path = <<>>
    BY <1>2, <1>3, <1>4 DEF DescentIs
  <2>2. 1..Len(path) = {} /\ path \in Seq(Node) /\ Len(path) \in Nat
    BY <2>1
  <2> QED BY <1>4, <2>1, <2>2 DEF PlaceIs, PathIs
<1>5. CASE top # Nil
  <2>1. /\ top \in In(t)
        /\ \A m \in below[top] : m \in Node /\ LAST[n] < START[m] /\ SideFor(n, m) = "left"
    BY <1>5, AllAfter
  <2>2. PICK w : WayDownIs(t, below, side, top, path, w)
    BY <1>1, <1>2, <1>3, <2>1, WaysDown
  <2>3. /\ path \in Seq(Node) /\ Len(path) \in Nat /\ Len(path) > 0 /\ w = path[Len(path)]
        /\ w \in below[top] /\ t.child[SideFor(n, w)][w] = Nil
        /\ \A k : k \in ToSet(path) <=> k \in below[top] /\ w \in below[k]
        /\ \A k \in below[top], e \in Side : w \in below[t.child[e][k]] => e = SideFor(n, k)
    BY <1>1, <2>1, <2>2 DEF WayDownIs
  <2>4. p = w /\ d = SideFor(n, w)
    <3>1. path # <<>>
      BY <2>3
    <3> QED BY <2>3, <3>1
  <2>5. SideFor(n, w) = "left"
    BY <2>1, <2>3
  <2>6. PlaceIs(t, below, hole, top, p, d)
    BY <1>5, <2>1, <2>3, <2>4, <2>5 DEF PlaceIs
  <2>7. ASSUME NEW k \in 1..Len(path) PROVE SideFor(n, path[k]) = "left"
    <3>1. path[k] \in ToSet(path)
      BY <2>3 DEF ToSet
    <3>2. path[k] \in below[top]
      BY <2>3, <3>1
    <3> QED BY <2>1, <3>2
  <2>8. PathIs(t, below, hole, top, p, path)
    BY <1>5, <2>3, <2>4 DEF PathIs
  <2> QED BY <2>6, <2>7, <2>8
<1> QED BY <1>4, <1>5

(* Nothing is there yet.                                                   *)
LEMMA PlaceHasRoom ==
  ASSUME NEW t, NEW below, Shape(t, below), NEW hole, NEW n, Behind(t, hole, n),
         NEW top, top = TopFor(t, hole), NEW p, NEW d, PlaceIs(t, below, hole, top, p, d)
  PROVE  Room(t, n, p, d) /\ p \in Node \cup {Nil} /\ p # n
<1>1. n \in Node /\ n \notin In(t) /\ n # Nil /\ hole \in Node \cup {Nil}
  BY RbTreeConstants DEF Behind
<1>2. CASE top = Nil
  <2>1. p = hole /\ d = "right"
    BY <1>2 DEF PlaceIs
  <2>2. hole = Nil => t.root = Nil
    BY <1>2 DEF TopFor
  <2>3. hole # Nil => hole \in In(t) /\ t.child["right"][hole] = Nil
    BY <1>2 DEF TopFor, Behind
  <2>4. Room(t, n, p, d)
    BY <1>1, <2>1, <2>2, <2>3, LeftRight DEF Room
  <2> QED BY <1>1, <2>1, <2>3, <2>4
<1>3. CASE top # Nil
  <2>1. top \in In(t) /\ p \in below[top] /\ d = "left" /\ t.child["left"][p] = Nil
    BY <1>3 DEF PlaceIs
  <2>2. top \in Node
    BY <2>1, InNode
  <2>3. p \in Node /\ p \in In(t)
    BY <2>1, <2>2, BelowIn
  <2>4. p # Nil
    BY <2>3, InNode
  <2> QED BY <1>1, <2>1, <2>3, <2>4, LeftRight DEF Room
<1> QED BY <1>2, <1>3

(* The new node is in order with all nodes above it.                       *)
LEMMA PlaceInOrder ==
  ASSUME NEW t, NEW below, Shape(t, below), Ordered(t, below, IntervalOrder),
         NEW hole, NEW n, Behind(t, hole, n),
         NEW top, top = TopFor(t, hole), NEW p, NEW d, PlaceIs(t, below, hole, top, p, d),
         NEW m \in Node, NEW e \in Side, p \in below[t.child[e][m]] \/ (m = p /\ e = d)
  PROVE  Precedes(IntervalOrder, e, n, m)
<1>1. n \in Node /\ hole \in Node \cup {Nil}
  BY DEF Behind
<1>2. CASE top = Nil
  <2>1. p = hole /\ d = "right"
    BY <1>2 DEF PlaceIs
  <2>2. hole # Nil
    <3> SUFFICES ASSUME hole = Nil PROVE FALSE
      OBVIOUS
    <3>1. p = Nil /\ m # Nil
      BY <2>1, RbTreeConstants
    <3>2. below[t.child[e][m]] \in SUBSET Node
      BY BelowParts
    <3> QED BY <3>1, <3>2, RbTreeConstants
  <2> QED BY <2>1, <2>2, AfterHole
<1>3. CASE top # Nil
  <2>1. /\ top \in In(t) /\ p \in below[top] /\ d = "left" /\ t.child["left"][p] = Nil
        /\ \A k \in below[top], f \in Side : p \in below[t.child[f][k]] => f = "left"
    BY <1>3 DEF PlaceIs
  <2>2. \A k \in below[top] : k \in Node /\ LAST[n] < START[k]
    BY <1>3, AllAfter
  <2>3. top \in Node /\ top \in below[top] /\ p \in Node /\ p \in below[m]
    <3>1. top \in Node
      BY <2>1, InNode
    <3>2. p \in Node
      BY <2>1, <2>2
    <3>3. p \in below[m]
      BY <3>2, BelowParts
    <3> QED BY <3>1, <3>2, <3>3, BelowParts
  <2>4. CASE m \in below[top]
    <3>1. e = "left"
      BY <2>1, <2>4
    <3>2. LAST[n] < START[m]
      BY <2>2, <2>4
    <3> QED BY <1>1, <3>1, <3>2, Intervals DEF Precedes
  <2>5. CASE m \notin below[top]
    <3>1. top \in below[m] /\ top # m
      BY <2>1, <2>3, <2>5, Nested
    <3>2. m \in In(t)
      BY <2>1, <3>1, BelowIn
    <3>3. hole # Nil
      <4> SUFFICES ASSUME hole = Nil PROVE FALSE
        OBVIOUS
      <4>1. below[top] = In(t)
        BY DEF TopFor, Shape, Subtrees
      <4> QED BY <2>5, <3>2, <4>1
    <3>4. top = t.child["right"][hole] /\ hole \in Node
      BY <1>1, <3>3 DEF TopFor
    <3>5. t.parent[top] = hole
      BY <1>3, <3>4, LeftRight, ChildFacts
    <3>6. hole \in below[m]
      BY <3>1, <3>5, BelowParent
    <3>7. p \in below[t.child[e][m]]
      BY <2>1, <2>5
    <3>8. \A f \in Side : \A k \in below[t.child[f][m]] : k \notin below[t.child[Other(f)][m]]
      BY DEF Shape, Subtrees
    <3>9. ASSUME NEW f \in Side, p \in below[t.child[f][m]] PROVE f = e
      <4>1. f = e \/ f = Other(e)
        BY Sides
      <4> QED BY <3>7, <3>8, <3>9, <4>1
    <3>10. CASE m = hole
      <4>1. p \in below[t.child["right"][m]]
        BY <2>1, <3>4, <3>10
      <4>2. e = "right"
        BY <3>9, <4>1, LeftRight
      <4> QED BY <3>3, <3>10, <4>2, AfterHole
    <3>11. CASE m # hole
      <4>1. PICK f \in Side : hole \in below[t.child[f][m]]
        BY <3>6, <3>11, BelowParts
      <4>2. t.child[f][m] \in Node
        BY <4>1 DEF Shape, Subtrees, Trees
      <4>3. p \in below[hole]
        <5>1. \A k \in below[t.child["right"][hole]] : k \in below[hole]
          BY <3>4, LeftRight, BelowParts
        <5> QED BY <2>1, <3>4, <5>1
      <4>4. p \in below[t.child[f][m]]
        BY <4>1, <4>2, <4>3, BelowBelow
      <4>5. f = e
        BY <3>9, <4>4
      <4> QED BY <3>3, <4>1, <4>5, AfterHole
    <3> QED BY <3>10, <3>11
  <2> QED BY <2>4, <2>5
<1> QED BY <1>2, <1>3

(* leftmost, as the code computes it, tells whether n is the first one.    *)
LEMMA LeftmostPlace ==
  ASSUME NEW t, NEW below, Shape(t, below), NEW hole, NEW n, Behind(t, hole, n),
         NEW top, top = TopFor(t, hole), NEW p, NEW d, PlaceIs(t, below, hole, top, p, d),
         NEW first, FirstIs(t, below, first)
  PROVE  hole = Nil <=> p = Nil \/ (p = first /\ d = "left")
<1>1. (hole \in Node \cup {Nil}) /\ (Nil \notin Node)
  BY RbTreeConstants DEF Behind
<1>2. CASE top = Nil
  BY <1>2 DEF PlaceIs
<1>3. CASE top # Nil
  <2>1. /\ top \in In(t) /\ p \in below[top] /\ d = "left" /\ t.child["left"][p] = Nil
        /\ \A m \in below[top], e \in Side : p \in below[t.child[e][m]] => e = "left"
    BY <1>3 DEF PlaceIs
  <2>2. top \in Node /\ p \in Node /\ p # Nil
    <3>1. top \in Node
      BY <2>1, InNode
    <3> QED BY <1>1, <2>1, <3>1, BelowIn
  <2>3. ASSUME hole = Nil PROVE p = first
    <3>1. top = t.root /\ t.root # Nil
      BY <1>3, <2>3 DEF TopFor
    <3>2. OuterIs(t, below, t.root, "left", first)
      BY <3>1, FirstIsOuter
    <3>3. OuterIs(t, below, t.root, "left", p)
      <4>1. \A m \in below[top] : p \notin below[t.child["right"][m]]
        BY <2>1, LeftRight
      <4> QED BY <2>1, <3>1, <4>1, LeftRight DEF OuterIs
    <3> QED BY <2>1, <3>1, <3>2, <3>3, LeftRight, OneOuter
  <2>4. ASSUME hole # Nil, p = first PROVE FALSE
    <3>1. hole \in Node /\ top = t.child["right"][hole]
      BY <1>1, <2>4 DEF TopFor
    <3>2. t.root # Nil
      <4>1. top \in below[t.root]
        BY <2>1 DEF Shape, Subtrees
      <4> QED BY <4>1 DEF Shape, Subtrees
    <3>3. p \notin below[t.child["right"][hole]]
      BY <2>4, <3>1, <3>2 DEF FirstIs
    <3> QED BY <2>1, <3>1, <3>3
  <2> QED BY <2>1, <2>2, <2>3, <2>4
<1> QED BY <1>2, <1>3

-----------------------------------------------------------------------------
(* The invariant                                                           *)

(* The tree is one, in order, and the cached node is its first.            *)
TreeOk(t, below) ==
  Shape(t, below) /\ FirstIs(t, below, t.leftmost) /\ Ordered(t, below, IntervalOrder)

TreeInv == \E below, hb : TreeOk(tree, below) /\ Loops(tree, pc, node, parent, hb)

(* What Add does, with a name for each of its parts.                       *)
AddIs(u, hole, n, top, path, p, d, leftmost) ==
  /\ pc = "idle" /\ Behind(tree, hole, n)
  /\ top = TopFor(tree, hole) /\ path = Descent(tree, top, n)
  /\ p = (IF path = <<>> THEN hole ELSE path[Len(path)])
  /\ d = (IF path = <<>> THEN "right" ELSE SideFor(n, p))
  /\ leftmost = (hole = Nil /\ \A k \in 1..Len(path) : SideFor(n, path[k]) = "left")
  /\ u = Raise(tree, path, hole, n)
  /\ tree' = Link(u, n, p, d, leftmost)
  /\ pc' = "insert" /\ node' = n /\ parent' = p

(* Add in one step, taken to pieces.                                       *)
LEMMA AddParts ==
  ASSUME NEW hole \in Node \cup {Nil}, NEW n \in Node, Add(hole, n), NEW below, Shape(tree, below)
  PROVE  \E u, top, path, p, d, leftmost : AddIs(u, hole, n, top, path, p, d, leftmost)
<1>1. pc = "idle" /\ ~InTree(n) /\ Follows(hole, n)
  BY DEF Add
<1>2. Behind(tree, hole, n)
  <2>1. n \notin In(tree)
    BY <1>1 DEF InTree, In
  <2>2. hole # Nil => hole \in In(tree) /\ LAST[hole] < START[n]
    BY <1>1 DEF Follows, InTree, In
  <2>3. \A m \in In(tree) : m # hole => LAST[n] < START[m] \/ (hole # Nil /\ START[m] < START[hole])
    <3>1. \A m \in In(tree) : m # hole => m \in Linked \ {hole}
      BY DEF In, Linked, InTree
    <3> QED BY <1>1, <3>1 DEF Follows
  <2> QED BY <2>1, <2>2, <2>3 DEF Behind
<1>3. PICK top : top = TopFor(tree, hole)
  OBVIOUS
<1>4. PICK path : path = Descent(tree, top, n)
  OBVIOUS
<1>5. PICK p : p = (IF path = <<>> THEN hole ELSE path[Len(path)])
  OBVIOUS
<1>6. PICK d : d = (IF path = <<>> THEN "right" ELSE SideFor(n, p))
  OBVIOUS
<1>7. PICK leftmost : leftmost = (hole = Nil /\ \A k \in 1..Len(path) : SideFor(n, path[k]) = "left")
  OBVIOUS
<1>8. PICK u : u = Raise(tree, path, hole, n)
  OBVIOUS
<1>9. top = IF hole = Nil THEN tree.root ELSE tree.child["right"][hole]
  BY <1>3 DEF TopFor
<1>10. /\ tree' = Link(u, n, p, d, leftmost)
       /\ Fixup("insert", n, p)
  BY <1>4, <1>5, <1>6, <1>7, <1>8, <1>9, Zenon DEF Add
<1>11. pc' = "insert" /\ node' = n /\ parent' = p
  BY <1>10 DEF Fixup
<1>12. AddIs(u, hole, n, top, path, p, d, leftmost)
  BY <1>1, <1>2, <1>3, <1>4, <1>5, <1>6, <1>7, <1>8, <1>10, <1>11, Zenon DEF AddIs
<1> QED BY <1>12

(* The place and the tree after it.                                        *)
Grown(below, u, hole, n, top, path, p, d, leftmost) ==
  /\ n \in Node /\ hole \in Node \cup {Nil}
  /\ OnlyLast(tree, u) /\ RaisedTo(tree, u, RaisedSet(tree, path, hole, n), n)
  /\ Room(u, n, p, d) /\ Added(u, tree', n, p, d) /\ AddedRest(u, tree', n, leftmost)
  /\ PathIs(tree, below, hole, top, p, path)

(* The pieces: a raise of ends, a place with room, a leaf in it.           *)
LEMMA AddGrows ==
  ASSUME NEW below, TreeOk(tree, below), NEW u, NEW hole, NEW n, NEW top, NEW path, NEW p, NEW d,
         NEW leftmost, AddIs(u, hole, n, top, path, p, d, leftmost)
  PROVE  /\ Grown(below, u, hole, n, top, path, p, d, leftmost)
         /\ PlaceIs(tree, below, hole, top, p, d)
         /\ leftmost = (p = Nil \/ (p = tree.leftmost /\ d = "left"))
<1>1. PICK t : t = tree
  OBVIOUS
<1>2. Shape(t, below) /\ FirstIs(t, below, t.leftmost) /\ Ordered(t, below, IntervalOrder)
  BY <1>1 DEF TreeOk
<1>3. /\ Behind(t, hole, n) /\ top = TopFor(t, hole) /\ path = Descent(t, top, n)
      /\ p = (IF path = <<>> THEN hole ELSE path[Len(path)])
      /\ d = (IF path = <<>> THEN "right" ELSE SideFor(n, p))
  BY <1>1 DEF AddIs
<1>4. /\ PlaceIs(t, below, hole, top, p, d)
      /\ PathIs(t, below, hole, top, p, path)
      /\ \A k \in 1..Len(path) : SideFor(n, path[k]) = "left"
  BY <1>2, <1>3, PlaceFound
<1>5. leftmost = (hole = Nil /\ \A k \in 1..Len(path) : SideFor(n, path[k]) = "left")
  BY DEF AddIs
<1>6. leftmost = (hole = Nil)
  BY <1>4, <1>5
<1>7. hole = Nil <=> p = Nil \/ (p = t.leftmost /\ d = "left")
  BY <1>2, <1>3, <1>4, LeftmostPlace
<1>8. Room(t, n, p, d) /\ p \in Node \cup {Nil} /\ p # n
  BY <1>2, <1>3, <1>4, PlaceHasRoom
<1>9. n \in Node /\ hole \in Node \cup {Nil} /\ t \in Trees /\ d \in Side
  BY <1>2, <1>3, <1>8 DEF Behind, Shape, Room
<1>10. u = Raise(t, path, hole, n) /\ tree' = Link(u, n, p, d, leftmost)
  BY <1>1 DEF AddIs
<1>11. RaisedTo(t, u, RaisedSet(t, path, hole, n), n) /\ OnlyLast(t, u)
  <2>1. RaisedTo(t, u, RaisedSet(t, path, hole, n), n)
    BY <1>9, <1>10, RaiseFields
  <2> QED BY <2>1 DEF RaisedTo
<1>12. u \in Trees /\ Room(u, n, p, d)
  BY <1>8, <1>11 DEF OnlyLast, Room, In
<1>13. leftmost \in BOOLEAN
  BY <1>6
<1>14. Added(u, tree', n, p, d) /\ AddedRest(u, tree', n, leftmost)
  BY <1>8, <1>9, <1>10, <1>12, <1>13, LinkFields
<1>15. Grown(below, u, hole, n, top, path, p, d, leftmost)
  BY <1>1, <1>4, <1>9, <1>11, <1>12, <1>14 DEF Grown
<1> QED BY <1>1, <1>4, <1>6, <1>7, <1>15

(* An insertion keeps the invariant.                                       *)
LEMMA AddKeeps ==
  ASSUME NEW below, TreeOk(tree, below), NEW hb, Loops(tree, pc, node, parent, hb),
         NEW hole \in Node \cup {Nil}, NEW n \in Node, Add(hole, n)
  PROVE  TreeInv'
<1>1. PICK u, top, path, p, d, leftmost : AddIs(u, hole, n, top, path, p, d, leftmost)
  BY AddParts DEF TreeOk
<1>2. /\ Grown(below, u, hole, n, top, path, p, d, leftmost)
      /\ PlaceIs(tree, below, hole, top, p, d)
      /\ leftmost = (p = Nil \/ (p = tree.leftmost /\ d = "left"))
  BY <1>1, AddGrows
<1>3. PICK v : v = tree'
  OBVIOUS
<1>4. /\ OnlyLast(tree, u) /\ Room(u, n, p, d) /\ Added(u, v, n, p, d)
      /\ AddedRest(u, v, n, leftmost)
  BY <1>2, <1>3 DEF Grown
<1>5. RedsOk(tree, Nil) /\ Paths(tree, hb, Nil, "left")
  <2>1. pc = "idle"
    BY <1>1 DEF AddIs
  <2> QED BY <2>1 DEF Loops
<1>6. /\ Shape(u, below) /\ u.leftmost = tree.leftmost
      /\ FirstIs(u, below, tree.leftmost) /\ Ordered(u, below, IntervalOrder)
      /\ Paths(u, hb, Nil, "left") /\ RedsOk(u, Nil)
  BY <1>4, <1>5, OnlyLastKeeps DEF TreeOk
<1>7. PICK B : B = AddedBelow(below, n, p)
  OBVIOUS
<1>8. Shape(v, B)
  BY <1>4, <1>6, <1>7, AddKeepsShape
<1>9. FirstIs(v, B, v.leftmost)
  <2>1. PICK f : f = IF p = Nil \/ (p = tree.leftmost /\ d = "left") THEN n ELSE tree.leftmost
    OBVIOUS
  <2>2. FirstIs(v, B, f)
    BY <1>4, <1>6, <1>7, <2>1, AddKeepsFirst
  <2>3. v.leftmost = f
    BY <1>2, <1>4, <1>6, <2>1 DEF AddedRest
  <2> QED BY <2>2, <2>3
<1>10. Ordered(v, B, IntervalOrder)
  <2>1. Behind(tree, hole, n) /\ top = TopFor(tree, hole)
    BY <1>1 DEF AddIs
  <2>2. u.child = tree.child
    BY <1>4 DEF OnlyLast
  <2>3. ASSUME NEW m \in Node, NEW e \in Side, p \in below[u.child[e][m]] \/ (m = p /\ e = d)
        PROVE  Precedes(IntervalOrder, e, n, m)
    <3>1. p \in below[tree.child[e][m]] \/ (m = p /\ e = d)
      BY <2>2, <2>3
    <3>2. Shape(tree, below) /\ Ordered(tree, below, IntervalOrder)
      BY DEF TreeOk
    <3> QED BY <1>2, <2>1, <3>1, <3>2, PlaceInOrder
  <2> QED BY <1>4, <1>6, <1>7, <2>3, AddKeepsOrder
<1>11. PICK h : Loops(v, "insert", n, p, h)
  BY <1>4, <1>6, AddKeepsLoops
<1>12. Loops(tree', pc', node', parent', h)
  BY <1>1, <1>3, <1>11 DEF AddIs
<1>13. TreeOk(tree', B)
  BY <1>3, <1>8, <1>9, <1>10 DEF TreeOk
<1> QED BY <1>12, <1>13 DEF TreeInv

(* The empty tree.                                                         *)
LEMMA InitTree ==
  ASSUME RbInit
  PROVE  TreeInv
<1>1. /\ tree.root = Nil /\ tree.leftmost = Nil
      /\ \A e \in Side, m \in Node : tree.child[e][m] = Nil
      /\ \A m \in Node : tree.parent[m] = Nil
      /\ pc = "idle" /\ node = Nil /\ parent = Nil
  BY DEF RbInit, EmptyTree
<1>2. tree \in Trees
  BY DEF RbInit, EmptyTree, Trees
<1>3. In(tree) = {}
  BY <1>1, RbTreeConstants DEF In
<1>4. PICK below : below = [m \in Node \cup {Nil} |-> IF m = Nil THEN {} ELSE {m}]
  OBVIOUS
<1>5. /\ below \in [Node \cup {Nil} -> SUBSET Node] /\ below[Nil] = {}
      /\ \A m \in Node : below[m] = {m}
  BY <1>4, RbTreeConstants
<1>6. Links(tree)
  BY <1>1 DEF Links
<1>7. Subtrees(tree, below)
  BY <1>1, <1>3, <1>5, FS_EmptySet, LeftRight DEF Subtrees
<1>8. Shape(tree, below)
  BY <1>2, <1>6, <1>7 DEF Shape
<1>9. FirstIs(tree, below, tree.leftmost)
  BY <1>1 DEF FirstIs
<1>10. Ordered(tree, below, IntervalOrder)
  BY <1>1, <1>5 DEF Ordered
<1>11. PICK hb : hb = [m \in Node \cup {Nil} |-> 0]
  OBVIOUS
<1>12. Loops(tree, pc, node, parent, hb)
  <2>1. RedsOk(tree, Nil)
    BY <1>3 DEF RedsOk
  <2>2. Paths(tree, hb, Nil, "left")
    BY <1>3, <1>11 DEF Paths
  <2> QED BY <1>1, <2>1, <2>2 DEF Loops
<1> QED BY <1>8, <1>9, <1>10, <1>12 DEF TreeInv, TreeOk

(* Nodes of one interval are in the same order to all others.              *)
LEMMA SameInterval ==
  ASSUME NEW old \in Node, NEW new \in Node, START[old] = START[new], LAST[old] = LAST[new]
  PROVE  Respects(IntervalOrder, Swap(old, new))
<1>1. PICK r : r = Swap(old, new)
  OBVIOUS
<1>2. ASSUME NEW x \in Node PROVE r[x] \in Node /\ START[r[x]] = START[x] /\ LAST[r[x]] = LAST[x]
  BY <1>1 DEF Swap
<1>3. ASSUME NEW x \in Node, NEW y \in Node
      PROVE  <<x, y>> \in IntervalOrder <=> <<r[x], r[y]>> \in IntervalOrder
  <2>1. /\ r[x] \in Node /\ START[r[x]] = START[x] /\ LAST[r[x]] = LAST[x]
        /\ r[y] \in Node /\ START[r[y]] = START[y] /\ LAST[r[y]] = LAST[y]
    BY <1>2
  <2>2. <<x, y>> \in IntervalOrder <=> LAST[x] < START[y]
    BY Intervals
  <2>3. <<r[x], r[y]>> \in IntervalOrder <=> LAST[r[x]] < START[r[y]]
    BY <2>1, Intervals
  <2> QED BY <2>1, <2>2, <2>3
<1> QED BY <1>1, <1>3 DEF Respects

(* One case per operation, and one for the steps of rebalancing.           *)
LEMMA StepKeepsTree ==
  ASSUME TreeInv, [Next]_rbVars
  PROVE  TreeInv'
<1>1. PICK below, hb : TreeOk(tree, below) /\ Loops(tree, pc, node, parent, hb)
  BY DEF TreeInv
<1>2. /\ Shape(tree, below) /\ FirstIs(tree, below, tree.leftmost)
      /\ Ordered(tree, below, IntervalOrder) /\ Transitive(IntervalOrder)
  BY <1>1, Intervals DEF TreeOk
<1>3. ASSUME NEW hole \in Node \cup {Nil}, NEW n \in Node, Add(hole, n)
      PROVE  TreeInv'
  BY <1>1, <1>3, AddKeeps
<1>4. ASSUME NEW n \in Node, Erase(n)
      PROVE  TreeInv'
  <2>1. Erased(below, n)
    BY <1>1, <1>2, <1>4, EraseKeeps
  <2>2. PICK B, h : Lessened(tree, below, tree', B, n) /\ Loops(tree', pc', node', parent', h)
    BY <2>1 DEF Erased
  <2>3. TreeOk(tree', B)
    BY <1>2, <2>2 DEF Lessened, TreeOk
  <2> QED BY <2>2, <2>3 DEF TreeInv
<1>5. ASSUME NEW old \in Node, NEW new \in Node, Replace(old, new)
      PROVE  TreeInv'
  <2>1. START[old] = START[new] /\ LAST[old] = LAST[new] /\ ReplaceNode(old, new)
    BY <1>5 DEF Replace
  <2>2. Substituted(below, old, new)
    BY <1>1, <1>2, <2>1, ReplaceKeeps
  <2>3. Respects(IntervalOrder, Swap(old, new))
    BY <2>1, SameInterval
  <2>4. PICK B, h : /\ Shape(tree', B) /\ Loops(tree', pc', node', parent', h)
                    /\ FirstIs(tree, below, tree.leftmost) => FirstIs(tree', B, tree'.leftmost)
                    /\ \A R : Respects(R, Swap(old, new)) /\ Ordered(tree, below, R)
                              => Ordered(tree', B, R)
    BY <2>2 DEF Substituted
  <2>5. TreeOk(tree', B)
    BY <1>2, <2>3, <2>4 DEF TreeOk
  <2> QED BY <2>4, <2>5 DEF TreeInv
<1>6. CASE Rebalance
  <2>1. Rebalanced(below)
    BY <1>1, <1>2, <1>6, RebalanceKeeps
  <2>2. PICK B, h : Kept(tree, below, tree', B) /\ Loops(tree', pc', node', parent', h)
    BY <2>1 DEF Rebalanced
  <2>3. TreeOk(tree', B)
    BY <1>2, <2>2 DEF Kept, TreeOk
  <2> QED BY <2>2, <2>3 DEF TreeInv
<1>7. CASE UNCHANGED rbVars
  <2>1. tree' = tree /\ pc' = pc /\ node' = node /\ parent' = parent
    BY <1>7 DEF rbVars
  <2> QED BY <1>1, <2>1 DEF TreeInv
<1> QED BY <1>3, <1>4, <1>5, <1>6, <1>7 DEF Next

(* The nodes in the tree always form a search tree by their intervals, and *)
(* a red-black tree but for what the loop in progress has to make good.    *)
THEOREM TreeInvariant == Spec => []TreeInv
<1>1. RbInit => TreeInv
  BY InitTree
<1>2. TreeInv /\ [Next]_rbVars => TreeInv'
  BY StepKeepsTree
<1> QED BY <1>1, <1>2, PTL DEF Spec

(* The rules of rbtree.c between two calls, and the invariants of the      *)
(* loops of __rb_insert and ____rb_erase_color in every round.             *)
THEOREM RedBlackCorrect == Spec => []RedBlack
<1>1. TreeInv => RedBlack
  BY RedBlackHolds DEF TreeInv, TreeOk
<1> QED BY <1>1, TreeInvariant, PTL

(* Children and parents agree in every state, so do the walks by either,   *)
(* and the cached leftmost node is the first one.                          *)
THEOREM LinksAgreeCorrect == Spec => []LinksAgree
<1>1. TreeInv => LinksAgree
  BY LinksAgreeHolds DEF TreeInv, TreeOk
<1> QED BY <1>1, TreeInvariant, PTL

-----------------------------------------------------------------------------
(* The ends, one by one                                                    *)

(* All ends are right as to those of the children.                         *)
LocalEnds(t) == Augmented => \A n \in In(t) : LocalEnd(t, n)

(* An end that is right for the subtree is right as to the children.       *)
LEMMA EndToLocal ==
  ASSUME NEW t, NEW below, Shape(t, below), NEW n \in In(t), EndOf(t, below, n),
         \A e \in Side : t.child[e][n] # Nil => EndOf(t, below, t.child[e][n])
  PROVE  LocalEnd(t, n)
<1>1. n \in Node /\ t.last[n] \in Int /\ LAST[n] \in Int
  BY InNode, RbTreeConstants DEF Shape, Trees
<1>2. /\ n \in below[n] /\ below[n] \in SUBSET Node
      /\ \A m \in below[n] : m = n \/ \E e \in Side : m \in below[t.child[e][n]]
  BY <1>1, BelowParts
<1>3. t.last[n] >= LAST[n]
  BY <1>1, <1>2 DEF EndOf
<1>4. ASSUME NEW e \in Side, NEW c, c = t.child[e][n], c # Nil
      PROVE  t.last[c] \in Int /\ t.last[n] >= t.last[c] /\ EndOf(t, below, c)
  <2>1. c \in Node /\ \A m \in below[c] : m \in below[n]
    BY <1>1, <1>4, ChildIs
  <2>2. EndOf(t, below, c) /\ t.last[c] \in Int
    BY <1>4, <2>1 DEF Shape, Trees
  <2>3. PICK m \in below[c] : LAST[m] = t.last[c]
    BY <2>2 DEF EndOf
  <2>4. LAST[m] <= t.last[n]
    BY <2>1, <2>3 DEF EndOf
  <2> QED BY <1>1, <2>2, <2>3, <2>4
<1>5. \/ t.last[n] = LAST[n]
      \/ \E e \in Side : t.child[e][n] # Nil /\ t.last[n] = t.last[t.child[e][n]]
  <2>1. PICK m \in below[n] : LAST[m] = t.last[n]
    BY DEF EndOf
  <2>2. CASE m = n
    BY <2>1, <2>2
  <2>3. CASE m # n
    <3>1. PICK e \in Side : m \in below[t.child[e][n]]
      BY <1>2, <2>1, <2>3
    <3>2. PICK c : c = t.child[e][n]
      OBVIOUS
    <3>3. m \in below[c] /\ c # Nil
      BY <3>1, <3>2 DEF Shape, Subtrees
    <3>4. t.last[c] \in Int /\ t.last[n] >= t.last[c] /\ EndOf(t, below, c)
      BY <1>4, <3>2, <3>3
    <3>5. LAST[m] <= t.last[c]
      BY <3>3, <3>4 DEF EndOf
    <3>6. t.last[n] = t.last[c]
      BY <1>1, <2>1, <3>4, <3>5
    <3> QED BY <3>2, <3>3, <3>6
  <2> QED BY <2>2, <2>3
<1>6. \A e \in Side : t.child[e][n] # Nil => t.last[n] >= t.last[t.child[e][n]]
  BY <1>4
<1> QED BY <1>3, <1>5, <1>6 DEF LocalEnd

(* So all ends are right as to the children when they are for the          *)
(* subtrees, and the other way round, from the leaves up.                  *)
LEMMA EndsAreLocal ==
  ASSUME NEW t, NEW below, Shape(t, below)
  PROVE  Ends(t, below) <=> LocalEnds(t)
<1>1. ASSUME NEW n \in In(t), NEW e \in Side, t.child[e][n] # Nil PROVE t.child[e][n] \in In(t)
  BY <1>1, InNode, ChildFacts
<1>2. ASSUME Ends(t, below) PROVE LocalEnds(t)
  <2> SUFFICES ASSUME Augmented, NEW n \in In(t) PROVE LocalEnd(t, n)
    BY DEF LocalEnds
  <2>1. EndOf(t, below, n) /\ \A e \in Side : t.child[e][n] # Nil => EndOf(t, below, t.child[e][n])
    BY <1>1, <1>2 DEF Ends
  <2> QED BY <2>1, EndToLocal
<1>3. ASSUME LocalEnds(t) PROVE Ends(t, below)
  <2> SUFFICES ASSUME Augmented PROVE \A n \in In(t) : EndOf(t, below, n)
    BY DEF Ends
  <2>1. PICK B : B = {n \in In(t) : ~EndOf(t, below, n)}
    OBVIOUS
  <2>2. ASSUME B # {} PROVE FALSE
    <3>1. PICK n \in B : \A e \in Side : t.child[e][n] \notin B
      BY <2>1, <2>2, LowestOf
    <3>2. n \in In(t) /\ LocalEnd(t, n)
      BY <1>3, <2>1 DEF LocalEnds
    <3>3. \A e \in Side : t.child[e][n] # Nil => EndOf(t, below, t.child[e][n])
      BY <1>1, <2>1, <3>1, <3>2
    <3>4. EndOf(t, below, n)
      BY <3>2, <3>3, LocalToEnd
    <3> QED BY <2>1, <3>4
  <2> QED BY <2>1, <2>2
<1> QED BY <1>2, <1>3

(* Equal ends at a node and at its children are as right as before.        *)
SameEnds(t, u, m) ==
  /\ u.last[m] = t.last[m]
  /\ \A e \in Side : /\ u.child[e][m] = Nil <=> t.child[e][m] = Nil
                     /\ u.child[e][m] # Nil => u.last[u.child[e][m]] = t.last[t.child[e][m]]

(* Such a node is as right as it was.                                     *)
LEMMA SameEndsLocal ==
  ASSUME NEW t, NEW u, NEW m, SameEnds(t, u, m), LocalEnd(t, m)
  PROVE  LocalEnd(u, m)
BY DEF SameEnds, LocalEnd

-----------------------------------------------------------------------------
(* What propagate makes good                                               *)

(* Whatever node of Y is a child in X has its parent there for a parent.   *)
ChildrenOf(t, X, Y) ==
  /\ X \subseteq Node /\ Y \subseteq Node
  /\ \A m \in X, e \in Side :
       t.child[e][m] \in Y => t.child[e][m] # m /\ t.parent[t.child[e][m]] = m

(* All ends of X are right, or will be when that of m is.                  *)
RightBut(acc, X, m) ==
  \A k \in X : LocalEnd(acc.tree, k) \/ (~acc.settled /\ k = m)

(* Nothing but ends of Y has changed.                                      *)
OnlyEndsOf(t, u, Y) == OnlyLast(t, u) /\ \A m \in Node \ Y : u.last[m] = t.last[m]

(* One node of the walk.                                                   *)
LEMMA RecomputeMends ==
  ASSUME NEW acc \in Accs, NEW X, NEW Y, ChildrenOf(acc.tree, X, Y), NEW m \in Y,
         RightBut(acc, X, m), NEW b, b = Recompute(acc, m)
  PROVE  /\ b \in Accs /\ OnlyEndsOf(acc.tree, b.tree, Y)
         /\ RightBut(b, X, acc.tree.parent[m])
<1>1. m \in Node /\ X \subseteq Node
  BY DEF ChildrenOf
<1>2. b \in Accs /\ OnlyLast(acc.tree, b.tree)
  BY <1>1, RecomputeType
<1>3. PICK t, c : t = acc.tree /\ c = ComputeMax(t, m)
  OBVIOUS
<1>4. t \in Trees /\ acc.settled \in BOOLEAN /\ acc = [tree |-> acc.tree, settled |-> acc.settled]
  BY <1>3 DEF Accs
<1>5. /\ c \in Int /\ c >= LAST[m]
      /\ \A e \in Side : t.child[e][m] # Nil => c >= t.last[t.child[e][m]]
      /\ c = LAST[m] \/ \E e \in Side : t.child[e][m] # Nil /\ c = t.last[t.child[e][m]]
  BY <1>1, <1>3, <1>4, ComputeMaxType
<1>6. CASE acc.settled \/ t.last[m] = c
  <2>1. b = [acc EXCEPT !.settled = TRUE]
    BY <1>3, <1>6 DEF Recompute
  <2>2. b = [tree |-> t, settled |-> TRUE]
    BY Zenon, <1>3, <1>4, <2>1
  <2>3. b.tree = t /\ b.settled = TRUE
    BY <2>2
  <2>4. t.last[m] = c => LocalEnd(t, m)
    BY <1>5 DEF LocalEnd
  <2>5. \A k \in X : LocalEnd(t, k)
    BY <1>3, <1>6, <2>4 DEF RightBut
  <2>6. RightBut(b, X, acc.tree.parent[m])
    BY <2>3, <2>5 DEF RightBut
  <2>7. OnlyEndsOf(acc.tree, b.tree, Y)
    BY <1>2, <1>3, <2>3 DEF OnlyEndsOf
  <2> QED BY <1>2, <2>6, <2>7
<1>7. CASE ~(acc.settled \/ t.last[m] = c)
  <2>1. PICK u : u = [t EXCEPT !.last[m] = c]
    BY Zenon
  <2>2. b = [acc EXCEPT !.tree.last[m] = c]
    BY <1>3, <1>7 DEF Recompute
  <2>3. b = [tree |-> u, settled |-> acc.settled]
    BY <1>3, <1>4, <2>1, <2>2
  <2>4. b.tree = u /\ b.settled = FALSE
    BY <1>4, <1>7, <2>3
  <2>5. /\ u.child = t.child /\ u.parent = t.parent
        /\ \A k \in Node : u.last[k] = IF k = m THEN c ELSE t.last[k]
    BY <1>1, <1>4, <1>5, <2>1 DEF Trees
  <2>6. OnlyEndsOf(acc.tree, b.tree, Y)
    BY <1>2, <1>3, <2>4, <2>5 DEF OnlyEndsOf
  <2>7. \A k \in X : k # m => LocalEnd(t, k)
    BY <1>3 DEF RightBut
  <2>8. ASSUME NEW k \in X, NEW e \in Side, k = m \/ k # t.parent[m], t.child[e][k] # Nil
        PROVE  /\ t.child[e][k] \in Node /\ u.child[e][k] = t.child[e][k]
               /\ u.last[u.child[e][k]] = t.last[t.child[e][k]]
    <3>1. PICK q : q = t.child[e][k]
      OBVIOUS
    <3>2. q \in Node
      BY <1>1, <1>4, <2>8, <3>1 DEF Trees
    <3>3. q # m
      BY <1>3, <2>8, <3>1 DEF ChildrenOf
    <3>4. u.child[e][k] = q
      BY <2>5, <3>1
    <3> QED BY <2>5, <3>1, <3>2, <3>3, <3>4
  <2>9. \A k \in X, e \in Side : u.child[e][k] = t.child[e][k]
    BY <2>5
  <2>10. ASSUME NEW k \in X, k # t.parent[m], k # m PROVE LocalEnd(u, k)
    <3>1. u.last[k] = t.last[k]
      BY <1>1, <2>5, <2>10
    <3>2. SameEnds(t, u, k)
      BY <2>8, <2>9, <2>10, <3>1 DEF SameEnds
    <3> QED BY <2>7, <2>10, <3>2, SameEndsLocal
  <2>11. ASSUME m \in X PROVE LocalEnd(u, m)
    <3>1. u.last[m] = c
      BY <1>1, <2>5
    <3>2. \A e \in Side : u.child[e][m] # Nil => u.last[u.child[e][m]] = t.last[t.child[e][m]]
      BY <2>8, <2>9, <2>11
    <3>3. \A e \in Side : u.child[e][m] = t.child[e][m]
      BY <2>9, <2>11
    <3> QED BY <1>5, <3>1, <3>2, <3>3 DEF LocalEnd
  <2>12. RightBut(b, X, acc.tree.parent[m])
    BY <1>3, <2>4, <2>10, <2>11 DEF RightBut
  <2> QED BY <1>2, <2>6, <2>12
<1> QED BY <1>6, <1>7

(* The walk up does not leave Y before it ends.                            *)
ClimbsIn(t, Y, stop) == \A m \in Y : t.parent[m] \in Y \cup {Nil, stop}

(* After k nodes of path the walk is at m, with the rest of it ahead.      *)
WalkAt(t, X, Y, stop, path, a, k, m) ==
  /\ m \in Node \cup {Nil} /\ m \in Y \cup {Nil, stop}
  /\ a \in Accs /\ OnlyEndsOf(t, a.tree, Y) /\ RightBut(a, X, m)
  /\ Len(Upwards(t, m, stop)) = Len(path) - k
  /\ \A j \in 1..(Len(path) - k) : Upwards(t, m, stop)[j] = path[k + j]

(* It goes on to the parent.                                               *)
LEMMA WalkGoesOn ==
  ASSUME NEW t \in Trees, NEW stop, UpwardsIs(t, stop), NEW X, NEW Y, ChildrenOf(t, X, Y),
         ClimbsIn(t, Y, stop), NEW path \in Seq(Node), NEW k \in 1..Len(path),
         NEW a, NEW m, WalkAt(t, X, Y, stop, path, a, k - 1, m), NEW b, b = Recompute(a, path[k])
  PROVE  \E q : WalkAt(t, X, Y, stop, path, b, k, q)
<1>1. PICK N, r, q, s : /\ N = Len(path) /\ r = Upwards(t, m, stop)
                        /\ q = t.parent[m] /\ s = Upwards(t, q, stop)
  OBVIOUS
<1>2. N \in Nat /\ k \in 1..N /\ k \in Nat /\ k <= N /\ 1 <= k
  BY <1>1
<1>3. /\ m \in Node \cup {Nil} /\ m \in Y \cup {Nil, stop}
      /\ a \in Accs /\ OnlyEndsOf(t, a.tree, Y) /\ RightBut(a, X, m)
      /\ Len(r) = N - (k - 1) /\ \A j \in 1..(N - (k - 1)) : r[j] = path[(k - 1) + j]
  BY Zenon, <1>1 DEF WalkAt
<1>4. m # Nil /\ m # stop
  <2> SUFFICES ASSUME m = Nil \/ m = stop PROVE FALSE
    OBVIOUS
  <2>1. r = <<>>
    BY Zenon, <1>1, <1>3 DEF UpwardsIs
  <2>2. Len(r) = 0
    BY <2>1
  <2> QED BY <1>2, <1>3, <2>2
<1>5. m \in Y /\ m \in Node /\ q \in Node \cup {Nil} /\ q \in Y \cup {Nil, stop}
  <2>1. m \in Y /\ m \in Node
    BY <1>3, <1>4
  <2>2. q \in Node \cup {Nil}
    BY <1>1, <2>1 DEF Trees
  <2> QED BY <1>1, <2>1, <2>2 DEF ClimbsIn
<1>6. r = <<m>> \o s /\ s \in Seq(Node)
  BY Zenon, <1>1, <1>4, <1>5 DEF UpwardsIs
<1>7. OneMore(Node, r, m, s)
  BY <1>5, <1>6, ItemsAfter
<1>8. Len(r) = Len(s) + 1 /\ Len(s) \in Nat /\ r[1] = m /\ \A j \in 1..Len(s) : r[j + 1] = s[j]
  BY <1>7 DEF OneMore
<1>9. Len(s) = N - k /\ path[k] = m
  <2>1. 1 \in 1..(N - (k - 1)) /\ (k - 1) + 1 = k
    BY <1>2
  <2>2. path[k] = r[1] /\ r[1] = m
    BY <1>3, <1>8, <2>1
  <2>3. Len(s) + 1 = N - (k - 1) /\ Len(s) \in Nat
    BY <1>3, <1>8
  <2>4. Len(s) = N - k
    BY <1>2, <2>3
  <2> QED BY <2>2, <2>4
<1>10. ASSUME NEW j \in 1..(N - k) PROVE s[j] = path[k + j]
  <2>1. j \in 1..Len(s) /\ j + 1 \in 1..(N - (k - 1)) /\ (k - 1) + (j + 1) = k + j
    BY <1>2, <1>9, <1>10
  <2> QED BY <1>3, <1>8, <2>1
<1>11. a.tree.child = t.child /\ a.tree.parent = t.parent
  BY <1>3 DEF OnlyEndsOf, OnlyLast
<1>12. ChildrenOf(a.tree, X, Y)
  BY <1>11 DEF ChildrenOf
<1>13. b = Recompute(a, m)
  BY <1>9
<1>14. b \in Accs /\ OnlyEndsOf(a.tree, b.tree, Y) /\ RightBut(b, X, a.tree.parent[m])
  BY <1>3, <1>5, <1>12, <1>13, RecomputeMends
<1>15. RightBut(b, X, q)
  BY <1>1, <1>11, <1>14
<1>16. OnlyEndsOf(t, b.tree, Y)
  BY <1>3, <1>14 DEF OnlyEndsOf, OnlyLast
<1>17. WalkAt(t, X, Y, stop, path, b, k, q)
  BY Zenon, <1>1, <1>5, <1>9, <1>10, <1>14, <1>15, <1>16 DEF WalkAt
<1> QED BY <1>17

(* If the end of n is the only one that may be wrong, none is wrong after  *)
(* the walk up from n, although it stops early.                            *)
LEMMA PropagateMends ==
  ASSUME NEW t \in Trees, Augmented, NEW stop, UpwardsIs(t, stop), NEW X, NEW Y,
         ChildrenOf(t, X, Y), ClimbsIn(t, Y, stop), stop \notin X,
         NEW n \in Node \cup {Nil}, n \in Y \cup {Nil, stop}, \A k \in X : k # n => LocalEnd(t, k),
         NEW u, u = Propagate(t, n, stop)
  PROVE  OnlyEndsOf(t, u, Y) /\ \A k \in X : LocalEnd(u, k)
<1>1. PICK path : path = Upwards(t, n, stop)
  OBVIOUS
<1>2. path \in Seq(Node) /\ X \subseteq Node
  BY Zenon, <1>1 DEF UpwardsIs, ChildrenOf
<1>3. PICK acc : Propagated(t, u, path, acc)
  BY <1>1, <1>2, PropagateSteps
<1>4. PICK N : N = Len(path)
  BY Zenon
<1>5. /\ acc \in [0..N -> Accs] /\ acc[0] = [tree |-> t, settled |-> FALSE]
      /\ \A k \in 1..N : acc[k] = Recompute(acc[k - 1], path[k])
      /\ u = acc[N].tree /\ N \in Nat
  BY <1>2, <1>3, <1>4 DEF Propagated
<1>6. PICK P : P = {k \in 0..N : \E m : WalkAt(t, X, Y, stop, path, acc[k], k, m)}
  BY Zenon
<1>7. 0 \in P
  <2>1. 0 \in 0..N
    BY <1>5
  <2>6. acc[0] \in Accs
    BY Zenon, <1>5, <2>1
  <2>2. acc[0].tree = t /\ acc[0].settled = FALSE
    BY <1>5
  <2>3. OnlyEndsOf(t, acc[0].tree, Y)
    BY <2>2 DEF OnlyEndsOf, OnlyLast
  <2>4. RightBut(acc[0], X, n)
    BY <2>2 DEF RightBut
  <2>5. /\ Len(Upwards(t, n, stop)) = Len(path) - 0
        /\ \A j \in 1..(Len(path) - 0) : Upwards(t, n, stop)[j] = path[0 + j]
    <3>1. Len(path) - 0 = Len(path) /\ \A j \in 1..Len(path) : 0 + j = j
      BY <1>4, <1>5
    <3> QED BY <1>1, <3>1
  <2>7. WalkAt(t, X, Y, stop, path, acc[0], 0, n)
    BY <2>3, <2>4, <2>5, <2>6 DEF WalkAt
  <2> QED BY <1>6, <2>1, <2>7
<1>8. ASSUME NEW k \in 1..N, k - 1 \in P PROVE k \in P
  <2>1. PICK m : WalkAt(t, X, Y, stop, path, acc[k - 1], k - 1, m)
    BY <1>6, <1>8
  <2>2. acc[k] = Recompute(acc[k - 1], path[k]) /\ k \in 1..Len(path) /\ k \in 0..N
    BY <1>4, <1>5
  <2>3. \E q : WalkAt(t, X, Y, stop, path, acc[k], k, q)
    BY <1>2, <2>1, <2>2, WalkGoesOn
  <2> QED BY <1>6, <2>2, <2>3
<1>9. N \in P
  <2>1. N \in Nat /\ \A k \in 1..N : k - 1 \in P => k \in P
    BY <1>5, <1>8
  <2>2. \A k \in 0..N : k \in P
    BY <1>7, <2>1, StepInduction
  <2>3. N \in 0..N
    BY <1>5
  <2> QED BY <2>2, <2>3
<1>10. PICK m : WalkAt(t, X, Y, stop, path, acc[N], N, m)
  BY <1>6, <1>9
<1>11. /\ m \in Node \cup {Nil} /\ m \in Y \cup {Nil, stop} /\ OnlyEndsOf(t, u, Y)
       /\ RightBut(acc[N], X, m) /\ Len(Upwards(t, m, stop)) = N - N
  BY <1>4, <1>5, <1>10 DEF WalkAt
<1>12. m = Nil \/ m = stop
  <2> SUFFICES ASSUME m # Nil, m # stop PROVE FALSE
    OBVIOUS
  <2>1. PICK r, s : r = Upwards(t, m, stop) /\ s = Upwards(t, t.parent[m], stop)
    OBVIOUS
  <2>2. m \in Node /\ t.parent[m] \in Node \cup {Nil}
    BY <1>11 DEF Trees
  <2>3. r = <<m>> \o s /\ s \in Seq(Node)
    BY Zenon, <2>1, <2>2 DEF UpwardsIs
  <2>4. OneMore(Node, r, m, s)
    BY <2>2, <2>3, ItemsAfter
  <2>5. Len(r) = Len(s) + 1 /\ Len(s) \in Nat
    BY <2>4 DEF OneMore
  <2> QED BY <1>5, <1>11, <2>1, <2>5
<1>13. \A k \in X : LocalEnd(u, k)
  <2>1. \A k \in X : k # m
    BY <1>2, <1>12, RbTreeConstants
  <2> QED BY <1>5, <1>11, <2>1 DEF RightBut
<1> QED BY <1>11, <1>13

-----------------------------------------------------------------------------
(* The ends when a node is taken out                                       *)

(* What is wrong when the node is bypassed is good when it is unlinked.    *)
LEMMA UnlinkedEnds ==
  ASSUME NEW z \in Trees, Augmented, UpwardsIs(z, Nil), NEW k \in Node \cup {Nil}, NEW n \in Node,
         NEW first, NEW u, NEW B, Shape(u, B), n \notin In(u),
         NEW y, y = Propagate(z, k, Nil), Unlinked(y, u, n, first),
         \A m \in In(u) : m # k => LocalEnd(z, m)
  PROVE  \A m \in In(u) : LocalEnd(u, m)
<1>1. z.child = y.child /\ z.parent = y.parent
  <2>1. OnlyLast(z, y)
    BY PropagateFields
  <2> QED BY <2>1 DEF OnlyLast
<1>2. PICK X : X = In(u)
  OBVIOUS
<1>3. X \subseteq Node /\ Nil \notin X
  BY <1>2, RbTreeConstants DEF In
<1>4. ASSUME NEW m \in X, NEW e \in Side
      PROVE  /\ u.child[e][m] = z.child[e][m] /\ m # n /\ m \in Node
             /\ u.child[e][m] # Nil => /\ u.child[e][m] \in Node /\ u.child[e][m] # n
                                       /\ u.child[e][m] # m /\ z.parent[u.child[e][m]] = m
  <2>1. m \in Node /\ m # n
    BY <1>2, <1>3
  <2>2. u.child[e][m] = z.child[e][m]
    BY <1>1, <2>1 DEF Unlinked
  <2>3. ASSUME NEW c, c = u.child[e][m], c # Nil
        PROVE  c \in Node /\ c # n /\ c # m /\ z.parent[c] = m
    <3>1. c \in Node /\ c \in In(u) /\ c # m /\ u.parent[c] = m
      BY <2>1, <2>3, ChildIs
    <3>2. c # n
      BY <3>1
    <3>3. u.parent[c] = z.parent[c]
      BY <1>1, <3>1, <3>2 DEF Unlinked
    <3> QED BY <3>1, <3>2, <3>3
  <2> QED BY <2>1, <2>2, <2>3
<1>5. ChildrenOf(z, X, Node)
  BY <1>3, <1>4, RbTreeConstants DEF ChildrenOf
<1>6. ClimbsIn(z, Node, Nil)
  BY DEF ClimbsIn, Trees
<1>7. \A m \in X : LocalEnd(y, m)
  <2>1. (\A m \in X : m # k => LocalEnd(z, m)) /\ k \in Node \cup {Nil, Nil}
    BY <1>2
  <2> QED BY <1>3, <1>5, <1>6, <2>1, PropagateMends
<1>8. ASSUME NEW m \in X PROVE SameEnds(y, u, m)
  <2>1. m \in Node /\ m # n
    BY <1>4, LeftRight
  <2>2. u.last[m] = y.last[m]
    BY <2>1 DEF Unlinked
  <2>3. ASSUME NEW e \in Side
        PROVE  u.child[e][m] = y.child[e][m]
    BY <1>1, <1>4, <2>3
  <2>4. ASSUME NEW e \in Side, NEW c, c = u.child[e][m], c # Nil
        PROVE  u.last[c] = y.last[c]
    <3>1. c \in Node /\ c # n
      BY <1>4, <2>4
    <3> QED BY <3>1 DEF Unlinked
  <2> QED BY <2>2, <2>3, <2>4 DEF SameEnds
<1> QED BY <1>2, <1>7, <1>8, SameEndsLocal

(* With at most one child.                                                 *)
LEMMA EraseOuterMends ==
  ASSUME NEW below, Shape(tree, below), Augmented, LocalEnds(tree), NEW n \in In(tree),
         NEW d \in Side, tree.child[d][n] = Nil, NEW first \in Node \cup {Nil},
         NEW u, u = [Unlink(EraseOuter(n).tree, n) EXCEPT !.leftmost = first],
         NEW B, Shape(u, B), \A m \in Node : m \in In(u) <=> m \in In(tree) /\ m # n
  PROVE  \A m \in In(u) : LocalEnd(u, m)
<1>1. n \in Node /\ n # Nil
  BY InNode
<1>2. PICK w, x, p : OuterLeft(n, w, x, p)
  BY EraseOuterSteps
<1>3. /\ Bypassed(tree, w, n, x, p) /\ UpwardsIs(w, Nil) /\ p = tree.parent[n]
      /\ p \in Node \cup {Nil}
  BY Zenon, <1>2 DEF OuterLeft
<1>4. PICK y : y = Propagate(w, p, Nil)
  OBVIOUS
<1>5. EraseOuter(n).tree = y
  <2>1. EraseOuter(n) = [tree |-> Propagate(w, p, Nil),
                         rebalance |-> IF x = Nil /\ tree.black[n] THEN p ELSE Nil]
    BY Zenon, <1>2 DEF OuterLeft
  <2> QED BY <1>4, <2>1
<1>6. w \in Trees /\ w.last = tree.last
  BY <1>3 DEF Bypassed
<1>7. y \in Trees
  <2>1. OnlyLast(w, y)
    BY <1>3, <1>4, <1>6, PropagateFields
  <2> QED BY <2>1 DEF OnlyLast
<1>8. Unlinked(y, u, n, first)
  BY <1>1, <1>5, <1>7, UnlinkFields
<1>9. ASSUME NEW m \in In(u), m # p PROVE LocalEnd(w, m)
  <2>1. m \in Node /\ m \in In(tree) /\ m # n
    BY <1>9, InNode
  <2>2. ASSUME NEW e \in Side PROVE w.child[e][m] = tree.child[e][m]
    <3>1. tree.child[e][m] # n
      <4> SUFFICES ASSUME tree.child[e][m] = n PROVE FALSE
        OBVIOUS
      <4>1. tree.parent[n] = m
        BY <1>1, <2>1, ChildIs
      <4> QED BY <1>3, <1>9, <4>1
    <3> QED BY <1>3, <2>1, <3>1 DEF Bypassed
  <2>3. SameEnds(tree, w, m)
    BY <1>6, <2>2 DEF SameEnds
  <2>4. LocalEnd(tree, m)
    BY <2>1 DEF LocalEnds
  <2> QED BY <2>3, <2>4, SameEndsLocal
<1>10. n \notin In(u)
  BY <1>1
<1> QED BY <1>1, <1>3, <1>4, <1>6, <1>8, <1>9, <1>10, UnlinkedEnds

(* The nodes on the way up from p to s, after s has left its place.        *)
LEMMA LeaveClimbs ==
  ASSUME NEW t, NEW below, Shape(t, below), NEW n, NEW s, NEW r, NEW l, NEW c, NEW p, NEW q,
         Successor(t, n, s, r, l, c, p, q), Apart(t, n, s, r, l, c, p, q), s # r,
         r \in In(t), s \in below[r], NEW z, Vacated(t, z, n, s, r, c, p),
         NEW X, X = {m \in In(t) : m # n /\ m # s}, NEW Y, Y = {m \in below[r] : m \notin below[s]}
  PROVE  /\ ChildrenOf(z, X, Y) /\ ClimbsIn(z, Y, s) /\ p \in Y /\ s \notin Y /\ n \notin Y
<1>1. /\ n \in Node /\ s \in Node /\ r \in Node /\ p \in Node /\ n # s /\ n # r /\ Nil \notin Node
      /\ p # s /\ t.child["left"][p] = s /\ t.parent[s] = p /\ t.parent[r] = n /\ s # Nil
      /\ (c # Nil => t.parent[c] = s /\ c \in In(t)) /\ s \in In(t)
  BY RbTreeConstants DEF Apart
<1>2. r = t.child["right"][n] /\ c = t.child["right"][s]
  BY DEF Successor
<1>3. Y \subseteq Node /\ X \subseteq Node /\ s \in below[s]
  BY <1>1, BelowParts, InNode
<1>4. n \notin below[r]
  BY <1>1, <1>2, LeftRight, BelowParts
<1>5. p \in below[r] /\ p \notin below[s]
  <2>1. p \in below[r]
    BY <1>1, BelowParent
  <2>2. s \in below[p]
    BY <1>1, LeftRight, ChildIs
  <2> QED BY <1>1, <2>1, <2>2, BelowOneWay
<1>6. c # Nil => c \in below[s]
  BY <1>1, <1>2, LeftRight, ChildIs
<1>7. /\ \A e \in Side, m \in Node :
           z.child[e][m] = IF e = "left" /\ m = p THEN c
                           ELSE IF e = "right" /\ m = s THEN r ELSE t.child[e][m]
      /\ \A m \in Node : z.parent[m] = IF m = r THEN s ELSE t.parent[m]
  BY Zenon DEF Vacated
<1>8. ASSUME NEW m \in X, NEW e \in Side, NEW k \in Y, k = z.child[e][m]
      PROVE  k # m /\ z.parent[k] = m
  <2>1. m \in Node /\ m # s /\ m # n /\ k \in Node /\ k # Nil /\ k \notin below[s]
    BY <1>1, <1>3
  <2>2. k = t.child[e][m]
    <3>1. ~(e = "left" /\ m = p)
      BY <1>6, <1>7, <1>8, <2>1
    <3> QED BY <1>7, <1>8, <2>1, <3>1
  <2>3. k # m /\ t.parent[k] = m
    BY <2>1, <2>2, ChildIs
  <2>4. k # r
    BY <1>1, <2>1, <2>3
  <2> QED BY <1>7, <2>1, <2>3, <2>4
<1>9. ChildrenOf(z, X, Y)
  BY <1>3, <1>8 DEF ChildrenOf
<1>10. ASSUME NEW m \in Y PROVE z.parent[m] \in Y \cup {Nil, s}
  <2>1. m \in Node /\ m \in below[r] /\ m \notin below[s]
    BY <1>3
  <2>2. CASE m = r
    BY <1>7, <2>1, <2>2
  <2>3. CASE m # r
    <3>1. PICK h : h = t.parent[m]
      OBVIOUS
    <3>2. z.parent[m] = h /\ h \in below[r]
      BY <1>1, <1>7, <2>1, <2>3, <3>1, BelowParent
    <3>3. h \in Node /\ m \in In(t)
      BY <1>1, <2>1, <3>2, BelowIn
    <3>4. m # t.root
      <4>1. t.root # Nil => t.parent[t.root] = Nil
        BY DEF Shape, Links
      <4> QED BY <1>1, <2>1, <3>1, <3>3, <4>1
    <3>5. m \in below[h]
      <4>1. PICK e \in Side : t.child[e][h] = m
        BY <3>1, <3>3, <3>4, ParentFacts
      <4> QED BY <1>1, <2>1, <3>3, <4>1, ChildIs
    <3>6. h \notin below[s]
      BY <1>1, <2>1, <3>5, BelowBelow
    <3> QED BY <3>2, <3>6
  <2> QED BY <2>2, <2>3
<1>11. ClimbsIn(z, Y, s)
  BY <1>10 DEF ClimbsIn
<1> QED BY <1>3, <1>4, <1>5, <1>9, <1>11

(* When s has left its place it has the end of n, and the ends of all      *)
(* others are right.                                                       *)
LeftEnds(t, v, n, s) ==
  /\ v.last[s] = t.last[n] /\ v.last[n] = t.last[n]
  /\ \A m \in In(t) : m # n /\ m # s => LocalEnd(v, m)

(* So it is after s has left its place.                                    *)
LEMMA LeaveMends ==
  ASSUME NEW t, NEW below, Shape(t, below), Augmented, LocalEnds(t),
         NEW n, NEW s, NEW r, NEW l, NEW c, NEW p, NEW q,
         Successor(t, n, s, r, l, c, p, q), Apart(t, n, s, r, l, c, p, q),
         r \in In(t), s \in below[r]
  PROVE  LeftEnds(t, Leave(t, n, s, p, c), n, s)
<1>1. /\ n \in Node /\ s \in Node /\ p \in Node /\ n # s /\ t \in Trees /\ Nil \notin Node
      /\ n \in In(t) /\ r = t.child["right"][n]
      /\ \A m \in Node, e \in Side :
           t.child[e][m] = s => IF s = r THEN m = n ELSE m = p /\ e = "left"
  BY RbTreeConstants DEF Successor, Apart, Shape
<1>2. PICK v : v = Leave(t, n, s, p, c)
  OBVIOUS
<1>3. \A m \in In(t) : LocalEnd(t, m) /\ m \in Node
  BY InNode DEF LocalEnds
<1>4. ASSUME NEW z, NEW m \in In(t), m # n, m # s,
             \A k \in Node : z.last[k] = IF k = s THEN t.last[n] ELSE t.last[k],
             \A e \in Side : z.child[e][m] = t.child[e][m] /\ t.child[e][m] # s
      PROVE  LocalEnd(z, m)
  <2>1. z.last[m] = t.last[m]
    BY <1>3, <1>4
  <2>2. ASSUME NEW e \in Side, NEW k, k = t.child[e][m], k # Nil
        PROVE  z.last[k] = t.last[k]
    <3>1. k \in Node /\ k # s
      BY <1>1, <1>3, <1>4, <2>2 DEF Trees
    <3> QED BY <1>4, <3>1
  <2>3. SameEnds(t, z, m)
    BY <1>4, <2>1, <2>2 DEF SameEnds
  <2> QED BY <1>3, <2>3, SameEndsLocal
<1>5. CASE s = r
  <2>1. v = Copy(t, n, s)
    BY <1>1, <1>2, <1>5 DEF Leave
  <2>2. v = [t EXCEPT !.last[s] = t.last[n]]
    BY <2>1 DEF Copy
  <2>3. v.child = t.child /\ v.last = [t.last EXCEPT ![s] = t.last[n]]
    BY Zenon, <1>1, <2>2 DEF Trees
  <2>4. \A k \in Node : v.last[k] = IF k = s THEN t.last[n] ELSE t.last[k]
    BY <1>1, <2>3 DEF Trees
  <2>5. ASSUME NEW m \in In(t), m # n, m # s PROVE LocalEnd(v, m)
    <3>1. \A e \in Side : v.child[e][m] = t.child[e][m] /\ t.child[e][m] # s
      BY <1>1, <1>3, <1>5, <2>3, <2>5
    <3> QED BY <1>4, <2>4, <2>5, <3>1
  <2>6. LeftEnds(t, v, n, s)
    BY <1>1, <2>4, <2>5 DEF LeftEnds
  <2> QED BY <1>2, <2>6
<1>6. CASE s # r
  <2>1. PICK z : Vacated(t, z, n, s, r, c, p)
    BY Zenon, <1>6, LeaveSteps
  <2>2. /\ z \in Trees /\ UpwardsIs(z, s) /\ v = Propagate(z, p, s)
        /\ \A k \in Node : z.last[k] = IF k = s THEN t.last[n] ELSE t.last[k]
    BY Zenon, <1>2, <2>1 DEF Vacated
  <2>3. PICK X, Y : X = {m \in In(t) : m # n /\ m # s} /\ Y = {m \in below[r] : m \notin below[s]}
    OBVIOUS
  <2>4. ChildrenOf(z, X, Y) /\ ClimbsIn(z, Y, s) /\ p \in Y /\ s \notin Y /\ n \notin Y
    BY <1>6, <2>1, <2>3, LeaveClimbs
  <2>5. ASSUME NEW m \in X, m # p PROVE LocalEnd(z, m)
    <3>1. m \in In(t) /\ m # n /\ m # s /\ m \in Node
      BY <1>3, <2>3
    <3>2. \A e \in Side : z.child[e][m] = t.child[e][m]
      BY <2>1, <2>5, <3>1 DEF Vacated
    <3>3. \A e \in Side : t.child[e][m] # s
      BY <1>1, <1>6, <2>5, <3>1
    <3> QED BY <1>4, <2>2, <3>1, <3>2, <3>3
  <2>6. s \notin X /\ p \in Node \cup {Nil} /\ p \in Y \cup {Nil, s}
    BY <1>1, <2>3, <2>4
  <2>7. OnlyEndsOf(z, v, Y) /\ \A m \in X : LocalEnd(v, m)
    BY <2>2, <2>4, <2>5, <2>6, PropagateMends
  <2>8. v.last[s] = z.last[s] /\ v.last[n] = z.last[n]
    BY <1>1, <2>4, <2>7 DEF OnlyEndsOf
  <2>9. LeftEnds(t, v, n, s)
    BY <1>1, <2>2, <2>3, <2>7, <2>8 DEF LeftEnds
  <2> QED BY <1>2, <2>9
<1> QED BY <1>5, <1>6

(* With two children.                                                      *)
LEMMA EraseInnerMends ==
  ASSUME NEW below, Shape(tree, below), Augmented, LocalEnds(tree),
         NEW n \in In(tree), \A d \in Side : tree.child[d][n] # Nil, NEW first \in Node \cup {Nil},
         NEW u, u = [Unlink(EraseInner(n).tree, n) EXCEPT !.leftmost = first],
         NEW B, Shape(u, B), \A m \in Node : m \in In(u) <=> m \in In(tree) /\ m # n
  PROVE  \A m \in In(u) : LocalEnd(u, m)
<1>1. PICK r, l, q : r = tree.child["right"][n] /\ l = tree.child["left"][n] /\ q = tree.parent[n]
  OBVIOUS
<1>2. PICK s : s = Outermost(tree, r, "left")
  OBVIOUS
<1>3. PICK c, p : c = tree.child["right"][s] /\ p = (IF s = r THEN s ELSE tree.parent[s])
  OBVIOUS
<1>4. l # Nil /\ r # Nil /\ n \in Node
  BY <1>1, LeftRight, InNode
<1>5. r \in In(tree)
  BY <1>1, <1>4, LeftRight, ChildFacts
<1>6. OuterIs(tree, below, r, "left", s)
  BY <1>2, <1>5, LeftRight, OutermostIs
<1>7. Successor(tree, n, s, r, l, c, p, q)
  BY <1>1, <1>3, <1>6 DEF Successor, OuterIs
<1>8. Apart(tree, n, s, r, l, c, p, q)
  BY <1>4, <1>6, <1>7, SuccessorApart
<1>9. s \in below[r]
  BY <1>6 DEF OuterIs
<1>10. PICK v : v = Leave(tree, n, s, p, c)
  OBVIOUS
<1>11. LeftEnds(tree, v, n, s) /\ Left(tree, v, n, s, r, l, c, p)
  BY <1>5, <1>7, <1>8, <1>9, <1>10, LeaveMends, LeaveFields
<1>12. PICK z : InnerLeft(n, s, r, l, c, p, q, z)
  BY <1>2, <1>7, <1>8, EraseInnerSteps
<1>13. PICK y : y = Propagate(z, s, Nil)
  OBVIOUS
<1>14. /\ z \in Trees /\ UpwardsIs(z, Nil) /\ z.last = v.last
       /\ EraseInner(n) = [tree |-> y, rebalance |-> IF c = Nil /\ tree.black[s] THEN p ELSE Nil]
  BY Zenon, <1>10, <1>12, <1>13 DEF InnerLeft
<1>15. s \in Node /\ s # n /\ s # Nil /\ n # Nil
  BY <1>4, <1>8, RbTreeConstants DEF Apart
<1>16. Unlinked(y, u, n, first)
  <2>1. OnlyLast(z, y)
    BY <1>13, <1>14, <1>15, PropagateFields
  <2>2. y \in Trees /\ EraseInner(n).tree = y
    BY <1>14, <2>1 DEF OnlyLast
  <2> QED BY <1>4, <2>2, UnlinkFields
<1>17. ASSUME NEW m \in In(u), m # s PROVE LocalEnd(z, m)
  <2>1. m \in Node /\ m \in In(tree) /\ m # n
    BY <1>17, InNode
  <2>2. LocalEnd(v, m) /\ v.last[s] = tree.last[n] /\ v.last[n] = tree.last[n]
    BY <1>11, <1>17, <2>1 DEF LeftEnds
  <2>3. ASSUME NEW e \in Side
        PROVE  z.child[e][m] = IF v.child[e][m] = n THEN s ELSE v.child[e][m]
    <3>1. z.child[e][m] = IF tree.child[e][m] = n THEN s
                          ELSE IF tree.child[e][m] = s /\ s # r THEN c ELSE tree.child[e][m]
      BY Zenon, <1>12, <1>17, <2>1 DEF InnerLeft
    <3>2. v.child[e][m] = IF s # r /\ m = p /\ e = "left" THEN c ELSE tree.child[e][m]
      BY <1>11, <1>17, <2>1 DEF Left
    <3>3. /\ tree.child[e][m] = s /\ s # r => m = p /\ e = "left"
          /\ s # r => tree.child["left"][p] = s
          /\ c # n
      BY <1>8, <2>1 DEF Apart
    <3> QED BY <1>15, <3>1, <3>2, <3>3
  <2>4. SameEnds(v, z, m)
    BY <1>14, <1>15, <2>2, <2>3 DEF SameEnds
  <2> QED BY <2>2, <2>4, SameEndsLocal
<1>18. n \notin In(u)
  BY <1>4
<1> QED BY <1>4, <1>13, <1>14, <1>15, <1>16, <1>17, <1>18, UnlinkedEnds

-----------------------------------------------------------------------------
(* The ends when a node is added                                           *)

(* The nodes that Raise comes to on its way up.                            *)
UpTo(t, above, n) ==
  LET enough == {k \in 1..Len(above) : t.last[above[k]] >= LAST[n]}
  IN  IF enough = {} THEN ToSet(above) ELSE ToSet(SubSeq(above, 1, Min(enough) - 1))

(* The ends do not get less on the way up.                                 *)
Rising(t, s) ==
  /\ s \in Seq(Node) /\ \A k \in ToSet(s) : k \in Node
  /\ \A i, j \in 1..Len(s) : i <= j => t.last[s[i]] <= t.last[s[j]]

(* So from every node: that of the child is one of those below the parent. *)
LEMMA UpwardsRise ==
  ASSUME NEW t, NEW below, Shape(t, below), \A m \in In(t) : EndOf(t, below, m)
  PROVE  \A n \in In(t) : Rising(t, Upwards(t, n, Nil))
<1>1. PICK B : B = {n \in In(t) : ~Rising(t, Upwards(t, n, Nil))}
  BY Zenon
<1> SUFFICES ASSUME B # {} PROVE FALSE
  BY <1>1
<1>2. PICK n \in B : n = t.root \/ (t.parent[n] \in In(t) /\ t.parent[n] \notin B)
  BY <1>1, HighestOf
<1>3. n \in In(t) /\ n \in Node /\ n \in below[n] /\ ~Rising(t, Upwards(t, n, Nil))
  BY <1>1, <1>2, InNode, BelowParts
<1>4. PICK s, r : s = Upwards(t, n, Nil) /\ r = Upwards(t, t.parent[n], Nil)
  OBVIOUS
<1>5. WayUpIs(t, n, s, r)
  BY <1>3, <1>4, WayUp
<1>6. /\ s \in Seq(Node) /\ Len(s) = Len(r) + 1 /\ Len(r) \in Nat /\ s[1] = n
      /\ \A k \in 1..Len(r) : s[k + 1] = r[k]
      /\ n = t.root => Len(r) = 0
  BY <1>5 DEF WayUpIs, OneMore
<1>7. ASSUME NEW k \in 1..Len(s) PROVE s[k] \in Node /\ t.last[s[k]] \in Int /\ t.last[n] <= t.last[s[k]]
  <2>1. PICK m : m = s[k]
    OBVIOUS
  <2>2. m \in ToSet(s)
    <3>1. DOMAIN s = 1..Len(s)
      BY <1>6
    <3> QED BY Zenon, <1>7, <2>1, <3>1 DEF ToSet
  <2>3. m \in Node /\ n \in below[m]
    BY <1>3, <1>4, <2>2, UpwardsAre
  <2>4. m \in In(t)
    BY <1>3, <2>3, BelowIn
  <2>5. EndOf(t, below, n) /\ EndOf(t, below, m)
    BY <1>3, <2>4
  <2>6. PICK x \in below[n] : LAST[x] = t.last[n]
    BY <2>5 DEF EndOf
  <2>7. x \in below[m]
    BY <2>3, <2>6, BelowBelow
  <2>8. t.last[m] \in Int
    BY <2>3 DEF Shape, Trees
  <2> QED BY <2>1, <2>3, <2>5, <2>6, <2>7, <2>8 DEF EndOf
<1>8. n # t.root => Rising(t, r)
  BY <1>1, <1>2, <1>4
<1>9. ASSUME NEW i \in 1..Len(s), NEW j \in 1..Len(s), i <= j PROVE t.last[s[i]] <= t.last[s[j]]
  <2>1. CASE i = 1
    BY <1>6, <1>7, <2>1
  <2>2. CASE i # 1
    <3>1. PICK a, b : a = i - 1 /\ b = j - 1
      OBVIOUS
    <3>2. a \in 1..Len(r) /\ b \in 1..Len(r) /\ a <= b /\ a + 1 = i /\ b + 1 = j /\ Len(r) # 0
      BY <1>6, <1>9, <2>2, <3>1
    <3>3. s[i] = r[a] /\ s[j] = r[b]
      BY <1>6, <3>2
    <3>4. t.last[r[a]] <= t.last[r[b]]
      BY <1>6, <1>8, <3>2 DEF Rising
    <3> QED BY <3>3, <3>4
  <2> QED BY <2>1, <2>2
<1>10. \A k \in ToSet(s) : k \in Node
  BY <1>3, <1>4, UpwardsAre
<1>11. Rising(t, s)
  BY <1>6, <1>9, <1>10 DEF Rising
<1> QED BY <1>3, <1>4, <1>11

(* So none of those it does not come to has too low an end.                *)
LEMMA FarEnough ==
  ASSUME NEW t \in Trees, NEW n \in Node, NEW above, Rising(t, above)
  PROVE  /\ UpTo(t, above, n) \subseteq ToSet(above)
         /\ \A m \in ToSet(above) : m \in UpTo(t, above, n) \/ t.last[m] >= LAST[n]
<1>1. PICK N : N = Len(above)
  OBVIOUS
<1>2. /\ above \in Seq(Node) /\ N \in Nat /\ DOMAIN above = 1..N
      /\ \A i, j \in 1..N : i <= j => t.last[above[i]] <= t.last[above[j]]
  BY <1>1 DEF Rising
<1>3. LAST[n] \in Int /\ \A k \in 1..N : above[k] \in Node /\ t.last[above[k]] \in Int
  BY <1>1, <1>2, RbTreeConstants DEF Trees
<1>4. PICK enough : enough = {k \in 1..N : t.last[above[k]] >= LAST[n]}
  OBVIOUS
<1>5. UpTo(t, above, n) = IF enough = {} THEN ToSet(above)
                          ELSE ToSet(SubSeq(above, 1, Min(enough) - 1))
  BY <1>1, <1>4 DEF UpTo
<1>6. CASE enough = {}
  BY <1>5, <1>6
<1>7. CASE enough # {}
  <2>1. PICK i : i = Min(enough)
    OBVIOUS
  <2>2. i \in enough
    BY <1>4, <1>7, <2>1, LeastElement
  <2>3. i \in 1..N /\ t.last[above[i]] >= LAST[n]
    BY <1>4, <2>2
  <2>4. PICK s : s = SubSeq(above, 1, i - 1)
    OBVIOUS
  <2>5. Len(s) = i - 1 /\ \A k \in 1..(i - 1) : s[k] = above[k]
    BY <1>2, <1>3, <2>3, <2>4
  <2>6. DOMAIN s = 1..(i - 1)
    BY <1>2, <1>3, <2>3, <2>4
  <2>7. \A m : m \in ToSet(s) <=> \E k \in 1..(i - 1) : m = above[k]
    BY <2>5, <2>6 DEF ToSet
  <2>8. \A m : m \in ToSet(above) <=> \E k \in 1..N : m = above[k]
    BY <1>2 DEF ToSet
  <2>9. UpTo(t, above, n) = ToSet(s)
    BY <1>5, <1>7, <2>1, <2>4
  <2>10. \A m \in ToSet(s) : m \in ToSet(above)
    BY <1>2, <2>3, <2>7, <2>8
  <2>11. ASSUME NEW m \in ToSet(above), m \notin ToSet(s) PROVE t.last[m] >= LAST[n]
    <3>1. PICK k \in 1..N : m = above[k]
      BY <2>8, <2>11
    <3>2. k \notin 1..(i - 1)
      BY <2>7, <2>11, <3>1
    <3>3. i <= k
      BY <1>2, <2>3, <3>1, <3>2
    <3>4. t.last[above[i]] <= t.last[above[k]]
      BY <1>2, <2>3, <3>3
    <3> QED BY <1>3, <2>3, <3>1, <3>4
  <2> QED BY <2>9, <2>10, <2>11
<1> QED BY <1>6, <1>7

(* The way down and that up from hole have all nodes above the place.      *)
LEMMA AbovePlace ==
  ASSUME NEW t, NEW below, Shape(t, below), NEW hole, NEW n, Behind(t, hole, n),
         NEW top, top = TopFor(t, hole), NEW p, NEW d, PlaceIs(t, below, hole, top, p, d),
         NEW path, PathIs(t, below, hole, top, p, path), NEW m \in In(t)
  PROVE  p \in below[m] <=> m \in ToSet(path) \/ m \in ToSet(Upwards(t, hole, Nil))
<1>1. m \in Node /\ Nil \notin Node /\ hole \in Node \cup {Nil}
  BY InNode, RbTreeConstants DEF Behind
<1>2. hole = Nil => m \notin ToSet(Upwards(t, hole, Nil))
  <2> SUFFICES ASSUME hole = Nil PROVE m \notin ToSet(Upwards(t, Nil, Nil))
    OBVIOUS
  <2>1. UpwardsIs(t, Nil)
    BY ShapeUpwards
  <2>2. Upwards(t, Nil, Nil) = <<>>
    BY Zenon, <2>1 DEF UpwardsIs
  <2> QED BY <2>2, NoItems
<1>3. hole # Nil => /\ hole \in Node /\ hole \in In(t)
                    /\ m \in ToSet(Upwards(t, hole, Nil)) <=> hole \in below[m]
  <2> SUFFICES ASSUME hole # Nil PROVE hole \in Node /\ hole \in In(t)
                                       /\ (m \in ToSet(Upwards(t, hole, Nil)) <=> hole \in below[m])
    OBVIOUS
  <2>1. hole \in Node /\ hole \in In(t)
    BY <1>1 DEF Behind
  <2> QED BY <1>1, <2>1, UpwardsAre
<1>4. below[Nil] = {} /\ below[t.root] = In(t)
  BY DEF Shape, Subtrees
<1>5. CASE top = Nil
  <2>1. path = <<>> /\ p = hole
    BY <1>5 DEF PathIs
  <2>2. m \notin ToSet(path)
    BY <2>1, NoItems
  <2>3. hole # Nil
    <3> SUFFICES ASSUME hole = Nil PROVE FALSE
      OBVIOUS
    <3>1. t.root = Nil
      BY <1>5 DEF TopFor
    <3> QED BY <1>4, <3>1
  <2> QED BY <1>3, <2>1, <2>2, <2>3
<1>6. CASE top # Nil
  <2>1. /\ top \in In(t) /\ p \in below[top]
        /\ m \in ToSet(path) <=> m \in below[top] /\ p \in below[m]
    BY <1>6 DEF PlaceIs, PathIs
  <2>2. top \in Node /\ top \in below[top] /\ p \in Node
    <3>1. top \in Node
      BY <2>1, InNode
    <3> QED BY <2>1, <3>1, BelowParts, BelowIn
  <2>3. CASE hole = Nil
    <3>1. m \in below[top]
      BY <1>4, <2>3 DEF TopFor
    <3> QED BY <1>2, <2>1, <2>3, <3>1
  <2>4. CASE hole # Nil
    <3>1. top = t.child["right"][hole]
      BY <2>4 DEF TopFor
    <3>2. t.parent[top] = hole /\ top \in below[hole] /\ hole \in Node
      <4>1. hole \in Node
        BY <1>3, <2>4
      <4>2. t.parent[top] = hole /\ top \in below[top] /\ \A k \in below[top] : k \in below[hole]
        BY <1>6, <3>1, <4>1, LeftRight, ChildIs
      <4> QED BY <4>1, <4>2
    <3>3. ASSUME hole \in below[m] PROVE p \in below[m]
      <4>1. p \in below[hole]
        BY <2>1, <3>2, BelowBelow
      <4> QED BY <1>1, <3>3, <4>1, BelowBelow
    <3>4. ASSUME p \in below[m], m \notin below[top] PROVE hole \in below[m]
      <4>1. top \in below[m]
        BY <1>1, <2>1, <2>2, <3>4, Nested
      <4>2. top # m
        BY <2>2, <3>4
      <4> QED BY <1>1, <3>2, <4>1, <4>2, BelowParent
    <3> QED BY <1>3, <2>1, <2>4, <3>3, <3>4
  <2> QED BY <2>3, <2>4
<1> QED BY <1>5, <1>6

(* Those that Raise leaves alone have an end that is far enough.           *)
LEMMA RaisedAbove ==
  ASSUME NEW t, NEW below, Shape(t, below), \A m \in In(t) : EndOf(t, below, m),
         NEW hole, NEW n, Behind(t, hole, n), NEW top, top = TopFor(t, hole),
         NEW p, NEW d, PlaceIs(t, below, hole, top, p, d),
         NEW path, PathIs(t, below, hole, top, p, path), NEW m \in In(t)
  PROVE  /\ m \in RaisedSet(t, path, hole, n) => p \in below[m]
         /\ p \in below[m] => m \in RaisedSet(t, path, hole, n) \/ t.last[m] >= LAST[n]
<1>1. PICK above : above = Upwards(t, hole, Nil)
  OBVIOUS
<1>2. RaisedSet(t, path, hole, n) = ToSet(path) \cup UpTo(t, above, n)
  BY <1>1 DEF RaisedSet, UpTo
<1>3. p \in below[m] <=> m \in ToSet(path) \/ m \in ToSet(above)
  BY <1>1, AbovePlace
<1>4. n \in Node /\ t \in Trees /\ hole \in Node \cup {Nil} /\ (hole # Nil => hole \in In(t))
  BY DEF Behind, Shape
<1>5. Rising(t, above)
  <2>1. CASE hole = Nil
    <3>1. UpwardsIs(t, Nil)
      BY ShapeUpwards
    <3>2. above = <<>>
      BY Zenon, <1>1, <1>4, <2>1, <3>1 DEF UpwardsIs
    <3>3. above \in Seq(Node) /\ Len(above) = 0 /\ \A k : k \notin ToSet(above)
      BY <3>2, NoItems
    <3> QED BY <3>3 DEF Rising
  <2>2. CASE hole # Nil
    BY <1>1, <1>4, <2>2, UpwardsRise
  <2> QED BY <2>1, <2>2
<1>6. /\ UpTo(t, above, n) \subseteq ToSet(above)
      /\ \A k \in ToSet(above) : k \in UpTo(t, above, n) \/ t.last[k] >= LAST[n]
  BY <1>4, <1>5, FarEnough
<1> QED BY <1>2, <1>3, <1>6

(* The ends are right after an insertion.                                  *)
LEMMA AddMends ==
  ASSUME NEW below, TreeOk(tree, below), Augmented, LocalEnds(tree),
         NEW hole \in Node \cup {Nil}, NEW n \in Node, Add(hole, n)
  PROVE  LocalEnds(tree')
<1>1. PICK u, top, path, p, d, leftmost : AddIs(u, hole, n, top, path, p, d, leftmost)
  BY AddParts DEF TreeOk
<1>2. /\ Grown(below, u, hole, n, top, path, p, d, leftmost)
      /\ PlaceIs(tree, below, hole, top, p, d)
  BY <1>1, AddGrows
<1>3. PICK t, v, B, X : /\ t = tree /\ v = tree' /\ B = AddedBelow(below, n, p)
                        /\ X = RaisedSet(t, path, hole, n)
  OBVIOUS
<1>4. /\ OnlyLast(t, u) /\ Room(u, n, p, d) /\ Added(u, v, n, p, d)
      /\ AddedRest(u, v, n, leftmost) /\ RaisedTo(t, u, X, n) /\ PathIs(t, below, hole, top, p, path)
  BY <1>2, <1>3 DEF Grown
<1>5. Behind(t, hole, n) /\ top = TopFor(t, hole) /\ PlaceIs(t, below, hole, top, p, d)
  BY <1>1, <1>2, <1>3 DEF AddIs
<1>6. Shape(t, below) /\ Ends(t, below) /\ n \notin In(t)
  <2>1. Shape(t, below) /\ LocalEnds(t)
    BY <1>3 DEF TreeOk
  <2> QED BY <1>5, <2>1, EndsAreLocal DEF Behind
<1>7. Shape(u, below) /\ \A m \in Node : m \in In(u) <=> m \in In(t)
  BY <1>4, <1>6, OnlyLastKeeps
<1>8. Shape(v, B)
  BY <1>3, <1>4, <1>7, AddKeepsShape
<1>9. \A m \in Node : m \in In(v) <=> m \in In(t) \/ m = n
  <2>1. AddFields(u, v, below, n, p, d)
    BY <1>3, <1>4, <1>7, AddFacts
  <2> QED BY <1>7, <2>1 DEF AddFields
<1>10. \A m \in Node : LAST[m] \in Int /\ t.last[m] \in Int
  BY <1>6, RbTreeConstants DEF Shape, Trees
<1>11. ASSUME NEW m \in In(t)
       PROVE  /\ m \in Node /\ EndOf(t, below, m) /\ m # n
              /\ B[m] = (IF p \in below[m] THEN below[m] \cup {n} ELSE below[m])
              /\ v.last[m] = IF p \in below[m] THEN Larger(t.last[m], LAST[n]) ELSE t.last[m]
  <2>1. m \in Node /\ m # n /\ EndOf(t, below, m)
    BY <1>6, <1>11, InNode DEF Ends
  <2>2. B[m] = IF p \in below[m] THEN below[m] \cup {n} ELSE below[m]
    BY <1>3, <2>1 DEF AddedBelow
  <2>3. v.last[m] = IF m \in X THEN Larger(t.last[m], LAST[n]) ELSE t.last[m]
    BY <1>4, <2>1 DEF AddedRest, RaisedTo
  <2>4. \A k \in In(t) : EndOf(t, below, k)
    BY <1>6 DEF Ends
  <2>5. /\ m \in X => p \in below[m]
        /\ p \in below[m] => m \in X \/ t.last[m] >= LAST[n]
    BY <1>3, <1>4, <1>5, <1>6, <1>11, <2>4, RaisedAbove
  <2>6. t.last[m] >= LAST[n] => Larger(t.last[m], LAST[n]) = t.last[m]
    BY <1>10, <2>1 DEF Larger
  <2> QED BY <2>1, <2>2, <2>3, <2>5, <2>6
<1>12. ASSUME NEW m \in In(t) PROVE EndOf(v, B, m)
  <2>1. PICK b, e : b = t.last[m] /\ e = LAST[n]
    OBVIOUS
  <2>2. /\ b \in Int /\ e \in Int /\ (\A k \in below[m] : k \in Node /\ LAST[k] \in Int /\ LAST[k] <= b)
        /\ \E k \in below[m] : LAST[k] = b
    <3>1. m \in Node /\ EndOf(t, below, m)
      BY <1>11
    <3>2. below[m] \in SUBSET Node
      BY <1>6, <3>1, BelowParts
    <3> QED BY <1>10, <2>1, <3>1, <3>2 DEF EndOf
  <2>3. CASE p \in below[m]
    <3>1. B[m] = below[m] \cup {n} /\ v.last[m] = Larger(b, e)
      BY <1>11, <2>1, <2>3
    <3>2. b <= Larger(b, e) /\ e <= Larger(b, e) /\ (Larger(b, e) = b \/ Larger(b, e) = e)
      BY <2>2 DEF Larger
    <3>3. PICK g : g = Larger(b, e)
      OBVIOUS
    <3>4. g \in Int /\ \A k \in below[m] : LAST[k] <= g
      BY <2>2, <3>2, <3>3
    <3>5. \A k \in B[m] : LAST[k] <= g
      BY <2>1, <3>1, <3>2, <3>3, <3>4
    <3>6. \E k \in B[m] : LAST[k] = g
      BY <2>1, <2>2, <3>1, <3>2, <3>3
    <3> QED BY <3>1, <3>3, <3>5, <3>6 DEF EndOf
  <2>4. CASE p \notin below[m]
    <3>1. B[m] = below[m] /\ v.last[m] = b
      BY <1>11, <2>1, <2>4
    <3> QED BY <2>2, <3>1 DEF EndOf
  <2> QED BY <2>3, <2>4
<1>13. EndOf(v, B, n)
  <2>1. v.last[n] = LAST[n]
    BY <1>4 DEF AddedRest
  <2>2. B[n] = {n}
    BY <1>3 DEF AddedBelow
  <2> QED BY <1>10, <2>1, <2>2 DEF EndOf
<1>14. Ends(v, B)
  <2>1. \A m \in In(v) : m \in Node
    BY InNode
  <2> QED BY <1>9, <1>12, <1>13, <2>1 DEF Ends
<1> QED BY <1>3, <1>8, <1>14, EndsAreLocal

(* After an erasure.                                                       *)
LEMMA EraseMends ==
  ASSUME NEW below, Shape(tree, below), Augmented, LocalEnds(tree),
         NEW hb, Loops(tree, pc, node, parent, hb), NEW n \in Node, Erase(n)
  PROVE  LocalEnds(tree')
<1>1. Erased(below, n)
  BY EraseKeeps
<1>2. PICK B : Lessened(tree, below, tree', B, n)
  BY <1>1 DEF Erased
<1>3. PICK u, first : u = tree' /\ first = LeftmostWithout(n)
  OBVIOUS
<1>4. Shape(u, B) /\ \A m \in Node : m \in In(u) <=> m \in In(tree) /\ m # n
  BY <1>2, <1>3 DEF Lessened
<1>5. n \in In(tree)
  BY RbTreeConstants DEF Erase, InTree, In, Shape, Trees
<1>6. first \in Node \cup {Nil}
  BY <1>3, <1>5, LeftmostType
<1>7. CASE \E d \in Side : tree.child[d][n] = Nil
  <2>1. u = [Unlink(EraseOuter(n).tree, n) EXCEPT !.leftmost = first]
    BY <1>3, <1>7 DEF Erase
  <2>2. PICK d \in Side : tree.child[d][n] = Nil
    BY <1>7
  <2>3. \A m \in In(u) : LocalEnd(u, m)
    BY <1>4, <1>5, <1>6, <2>1, <2>2, EraseOuterMends
  <2> QED BY <1>3, <2>3 DEF LocalEnds
<1>8. CASE \A d \in Side : tree.child[d][n] # Nil
  <2>1. u = [Unlink(EraseInner(n).tree, n) EXCEPT !.leftmost = first]
    BY <1>3, <1>8 DEF Erase
  <2>2. \A m \in In(u) : LocalEnd(u, m)
    BY <1>4, <1>5, <1>6, <1>8, <2>1, EraseInnerMends
  <2> QED BY <1>3, <2>2 DEF LocalEnds
<1> QED BY <1>7, <1>8

(* After a replacement: the new node has the end of the old one, and its   *)
(* own is the same.                                                        *)
LEMMA ReplaceMends ==
  ASSUME NEW below, Shape(tree, below), Augmented, LocalEnds(tree),
         NEW old \in Node, NEW new \in Node, Replace(old, new)
  PROVE  LocalEnds(tree')
<1>1. LAST[old] = LAST[new] /\ ReplaceNode(old, new)
  BY DEF Replace
<1>2. old \in In(tree) /\ new \notin In(tree) /\ old # new /\ old # Nil /\ new # Nil
  BY <1>1, RbTreeConstants DEF ReplaceNode, InTree, In, Shape, Trees
<1>3. PICK t, u : t = tree /\ u = tree'
  OBVIOUS
<1>4. TakenOver(t, u, old, new)
  BY <1>1, <1>2, <1>3, ReplaceFields
<1>5. /\ t.root # new /\ t.parent[new] = Nil
      /\ \A e \in Side, m \in Node : t.child[e][m] # new /\ t.child[e][new] = Nil
      /\ \A m \in Node : t.parent[m] # new
  BY <1>2, <1>3, Outside
<1>6. ASSUME NEW m \in In(u) PROVE LocalEnd(u, m)
  <2>1. m \in Node /\ m # old /\ (m # new => m \in In(t))
    <3>1. m \in Node /\ (m = u.root \/ u.parent[m] # Nil)
      BY DEF In
    <3>2. u.root = (IF old = t.root THEN new ELSE t.root)
      BY <1>4 DEF TakenOver
    <3>3. u.parent[m] = IF m = old THEN Nil ELSE IF m = new THEN t.parent[old]
                        ELSE IF t.parent[m] = old THEN new ELSE t.parent[m]
      BY <1>4, <3>1 DEF TakenOver
    <3> QED BY <1>2, <3>1, <3>2, <3>3 DEF In
  <2>2. PICK k : k = IF m = new THEN old ELSE m
    OBVIOUS
  <2>3. k \in Node /\ k \in In(t) /\ LocalEnd(t, k) /\ LAST[k] = LAST[m]
    BY <1>1, <1>2, <1>3, <2>1, <2>2 DEF LocalEnds
  <2>4. u.last[m] = t.last[k]
    BY <1>4, <2>1, <2>2 DEF TakenOver
  <2>5. ASSUME NEW e \in Side, NEW a, NEW c, a = t.child[e][k], c = u.child[e][m]
        PROVE  (c = Nil <=> a = Nil) /\ (c # Nil => u.last[c] = t.last[a])
    <3>1. c = IF a = old THEN new ELSE a
      <4>1. c = IF m = new THEN t.child[e][old]
                ELSE IF t.child[e][m] = old THEN new ELSE t.child[e][m]
        BY <1>4, <2>1, <2>5 DEF TakenOver
      <4>2. t.child[e][old] # old
        <5>1. t.child[e][old] # Nil => t.child[e][old] # old
          BY <1>3, ChildFacts
        <5> QED BY <1>2, <5>1
      <4> QED BY <2>2, <2>5, <4>1, <4>2
    <3>2. a \in Node \cup {Nil} /\ a # new
      BY <1>3, <1>5, <2>3, <2>5 DEF Shape, Trees
    <3>3. a # Nil => u.last[c] = t.last[a]
      BY <1>2, <1>4, <3>1, <3>2 DEF TakenOver
    <3> QED BY <1>2, <3>1, <3>3
  <2>6. \A e \in Side : /\ u.child[e][m] = Nil <=> t.child[e][k] = Nil
                        /\ u.child[e][m] # Nil => u.last[u.child[e][m]] = t.last[t.child[e][k]]
    BY <2>5
  <2> QED BY <2>3, <2>4, <2>6 DEF LocalEnd
<1> QED BY <1>3, <1>6 DEF LocalEnds

(* After every step.                                                       *)
LEMMA StepMends ==
  ASSUME TreeInv, LocalEnds(tree), Augmented, [Next]_rbVars
  PROVE  LocalEnds(tree')
<1>1. PICK below, hb : TreeOk(tree, below) /\ Loops(tree, pc, node, parent, hb)
  BY DEF TreeInv
<1>2. Shape(tree, below) /\ Augmented
  BY <1>1 DEF TreeOk
<1>3. ASSUME NEW hole \in Node \cup {Nil}, NEW n \in Node, Add(hole, n)
      PROVE  LocalEnds(tree')
  BY <1>1, <1>2, <1>3, AddMends
<1>4. ASSUME NEW n \in Node, Erase(n)
      PROVE  LocalEnds(tree')
  BY <1>1, <1>2, <1>4, EraseMends
<1>5. ASSUME NEW old \in Node, NEW new \in Node, Replace(old, new)
      PROVE  LocalEnds(tree')
  BY <1>2, <1>5, ReplaceMends
<1>6. CASE Rebalance
  <2>1. PICK B : Kept(tree, below, tree', B)
    <3>1. Rebalanced(below)
      BY <1>1, <1>2, <1>6, RebalanceKeeps
    <3> QED BY <3>1 DEF Rebalanced
  <2>2. Ends(tree, below)
    BY <1>2, EndsAreLocal
  <2>3. PICK u : u = tree'
    OBVIOUS
  <2>4. Shape(u, B) /\ Ends(u, B)
    BY <2>1, <2>2, <2>3 DEF Kept
  <2>5. LocalEnds(u)
    BY <2>4, EndsAreLocal
  <2> QED BY <2>3, <2>5
<1>7. CASE UNCHANGED rbVars
  BY <1>7 DEF rbVars
<1> QED BY <1>3, <1>4, <1>5, <1>6, <1>7 DEF Next

-----------------------------------------------------------------------------
(* The last end below each node                                            *)

(* below[n] as the property has it, by recursion, is the subtree of n.     *)
BelowIs(t, B) ==
  /\ B[Nil] = {}
  /\ \A n \in Node : B[n] = {n} \cup B[t.child["left"][n]] \cup B[t.child["right"][n]]

(* There is one such function for the nodes in the tree.                   *)
LEMMA OneBelow ==
  ASSUME NEW t, NEW below, Shape(t, below), NEW B, BelowIs(t, B)
  PROVE  \A n \in In(t) : B[n] = below[n]
<1>1. PICK S : S = {n \in In(t) : B[n] # below[n]}
  OBVIOUS
<1> SUFFICES ASSUME S # {} PROVE FALSE
  BY <1>1
<1>2. PICK n \in S : \A e \in Side : t.child[e][n] \notin S
  BY <1>1, LowestOf
<1>3. n \in In(t) /\ n \in Node /\ B[n] # below[n]
  BY <1>1, <1>2, InNode
<1>4. ASSUME NEW e \in Side, NEW c, c = t.child[e][n] PROVE B[c] = below[c]
  <2>1. CASE c = Nil
    BY <2>1 DEF BelowIs, Shape, Subtrees
  <2>2. CASE c # Nil
    <3>1. c \in In(t)
      BY <1>3, <1>4, <2>2, ChildIs
    <3> QED BY <1>1, <1>2, <1>4, <3>1
  <2> QED BY <2>1, <2>2
<1>5. PICK l, r : l = t.child["left"][n] /\ r = t.child["right"][n]
  OBVIOUS
<1>6. B[l] = below[l] /\ B[r] = below[r]
  BY <1>4, <1>5, LeftRight
<1>7. B[n] = {n} \cup B[l] \cup B[r]
  BY <1>3, <1>5 DEF BelowIs
<1>8. below[n] = {n} \cup below[l] \cup below[r]
  BY <1>3, <1>5 DEF Shape, Subtrees
<1> QED BY <1>3, <1>6, <1>7, <1>8

(* The largest number of a set is the only one that is as large as all.    *)
LEMMA OneMax ==
  ASSUME NEW S \in SUBSET Int, NEW x \in S, \A y \in S : x >= y
  PROVE  Max(S) = x
<1>1. \E z \in S : \A y \in S : z >= y
  OBVIOUS
<1>2. PICK m : m = Max(S)
  OBVIOUS
<1>3. m \in S /\ \A y \in S : m >= y
  BY <1>1, <1>2 DEF Max
<1>4. m \in Int /\ x \in Int /\ m >= x /\ x >= m
  BY <1>3
<1> QED BY <1>2, <1>4

(* So the ends are as the property has them.                               *)
LEMMA AugmentHolds ==
  ASSUME NEW below, Shape(tree, below), LocalEnds(tree), Augmented
  PROVE  AugmentExact
<1> DEFINE S == Node \cup {Nil}
           step(f, n) == IF n = Nil THEN {}
                         ELSE {n} \cup f[tree.child["left"][n]] \cup f[tree.child["right"][n]]
           iter == CHOOSE f : f = [n \in S |-> step(f, n)]
<1>1. below = [n \in S |-> step(below, n)]
  <2>1. below \in [S -> SUBSET Node]
    BY DEF Shape, Subtrees
  <2>2. ASSUME NEW n \in S PROVE below[n] = step(below, n)
    BY <2>2 DEF Shape, Subtrees
  <2> HIDE DEF step
  <2> QED BY <2>1, <2>2
<1>2. iter = [n \in S |-> step(iter, n)]
  <2> HIDE DEF step
  <2> QED BY <1>1, Zenon
<1>3. \A n \in S : iter[n] = step(iter, n)
  <2> HIDE DEF step, iter
  <2> QED BY <1>2, Zenon
<1>4. AugmentExact <=> \A n \in Linked : tree.last[n] = Max({LAST[m] : m \in iter[n]})
  BY Zenon DEF AugmentExact, iter, S
<1> HIDE DEF iter
<1>5. BelowIs(tree, iter)
  <2>1. Nil \in S /\ \A n \in Node : n \in S /\ n # Nil
    BY RbTreeConstants
  <2> QED BY <1>3, <2>1 DEF BelowIs
<1>6. ASSUME NEW n \in Linked PROVE tree.last[n] = Max({LAST[m] : m \in iter[n]})
  <2>1. n \in In(tree) /\ n \in Node
    BY <1>6 DEF Linked, InTree, In
  <2>2. iter[n] = below[n] /\ below[n] \in SUBSET Node
    BY <1>5, <2>1, OneBelow, BelowParts
  <2>3. EndOf(tree, below, n)
    BY <2>1, EndsAreLocal DEF Ends
  <2>4. PICK T, x : T = {LAST[m] : m \in below[n]} /\ x = tree.last[n]
    OBVIOUS
  <2>5. T \in SUBSET Int /\ x \in T /\ \A y \in T : x >= y
    <3>1. \A m \in below[n] : LAST[m] \in Int /\ LAST[m] <= x
      BY <2>2, <2>3, <2>4, RbTreeConstants DEF EndOf
    <3>2. \E m \in below[n] : LAST[m] = x
      BY <2>3, <2>4 DEF EndOf
    <3> QED BY <2>4, <3>1, <3>2
  <2>6. Max(T) = x
    BY <2>5, OneMax
  <2> QED BY <2>2, <2>4, <2>6
<1> QED BY <1>4, <1>6

-----------------------------------------------------------------------------
(* The search by interval                                                  *)

(* k meets the range.                                                      *)
Meets(k, start, last) == START[k] <= last /\ start <= LAST[k]

(* r is the first node of K that meets it, or Nil if none does.            *)
FirstIn(K, start, last, r) ==
  \/ r = Nil /\ \A k \in K : ~Meets(k, start, last)
  \/ /\ r \in K /\ Meets(r, start, last)
     /\ \A k \in K : Meets(k, start, last) => START[r] <= START[k]

(* A node is the head of a subtree, or it is on its left and ends before   *)
(* the head starts, or the other way round.                                *)
LEMMA InPlace ==
  ASSUME NEW t, NEW below, Shape(t, below), Ordered(t, below, IntervalOrder), NEW m \in Node,
         NEW k \in below[m]
  PROVE  /\ k \in Node
         /\ \/ k = m
            \/ k \in below[t.child["left"][m]] /\ LAST[k] < START[m]
            \/ k \in below[t.child["right"][m]] /\ LAST[m] < START[k]
<1>1. k \in Node /\ (k = m \/ \E e \in Side : k \in below[t.child[e][m]])
  BY BelowParts
<1>2. ASSUME k \in below[t.child["left"][m]] PROVE LAST[k] < START[m]
  <2>1. Precedes(IntervalOrder, "left", k, m)
    BY <1>2, LeftRight DEF Ordered
  <2> QED BY <1>1, <2>1, Intervals DEF Precedes
<1>3. ASSUME k \in below[t.child["right"][m]] PROVE LAST[m] < START[k]
  <2>1. Precedes(IntervalOrder, "right", k, m)
    BY <1>3, LeftRight DEF Ordered
  <2> QED BY <1>1, <2>1, Intervals DEF Precedes
<1>4. k = m \/ k \in below[t.child["left"][m]] \/ k \in below[t.child["right"][m]]
  BY <1>1 DEF Side
<1> QED BY <1>1, <1>2, <1>3, <1>4

(* No two nodes in the tree start at the same place.                       *)
LEMMA StartsDiffer ==
  ASSUME NEW t, NEW below, Shape(t, below), Ordered(t, below, IntervalOrder)
  PROVE  \A x, y \in In(t) : START[x] = START[y] => x = y
<1> DEFINE good(m) == \A x, y \in below[m] : START[x] = START[y] => x = y
<1>1. PICK B : B = {m \in In(t) : ~good(m)}
  BY Zenon
<1>2. ASSUME B # {} PROVE FALSE
  <2>1. PICK m \in B : \A e \in Side : t.child[e][m] \notin B
    BY <1>1, <1>2, LowestOf
  <2>2. m \in In(t) /\ m \in Node /\ ~good(m)
    BY <1>1, <2>1, InNode
  <2>3. PICK x \in below[m], y \in below[m] : START[x] = START[y] /\ x # y
    BY <2>2
  <2>4. \A e \in Side : good(t.child[e][m])
    <3>1. \A e \in Side : t.child[e][m] = Nil \/ t.child[e][m] \in In(t)
      BY <2>2, ChildFacts
    <3>2. below[Nil] = {}
      BY DEF Shape, Subtrees
    <3>3. good(Nil)
      BY <3>2
    <3> HIDE DEF good
    <3> QED BY <1>1, <2>1, <3>1, <3>3
  <2>5. PICK l, r : l = t.child["left"][m] /\ r = t.child["right"][m]
    OBVIOUS
  <2>6. good(l) /\ good(r)
    BY <2>4, <2>5, LeftRight
  <2>7. /\ x \in Node /\ (x = m \/ (x \in below[l] /\ LAST[x] < START[m])
                                \/ (x \in below[r] /\ LAST[m] < START[x]))
        /\ y \in Node /\ (y = m \/ (y \in below[l] /\ LAST[y] < START[m])
                                \/ (y \in below[r] /\ LAST[m] < START[y]))
    BY <2>2, <2>5, InPlace
  <2>8. \A k \in {m, x, y} : START[k] \in Int /\ LAST[k] \in Int /\ START[k] <= LAST[k]
    BY <2>2, <2>7, Intervals
  <2> QED BY <2>3, <2>6, <2>7, <2>8
<1>3. ASSUME NEW x \in In(t), NEW y \in In(t), START[x] = START[y] PROVE x = y
  <2>1. below[t.root] = In(t) /\ below[Nil] = {}
    BY DEF Shape, Subtrees
  <2>2. t.root # Nil
    BY <2>1
  <2>3. t.root \in In(t)
    BY <2>2 DEF Shape, Trees, In
  <2>4. good(t.root)
    BY <1>1, <1>2, <2>3
  <2> QED BY <1>3, <2>1, <2>4
<1> QED BY <1>3

(* All nodes come after the first.                                         *)
LEMMA FirstStarts ==
  ASSUME NEW t, NEW below, Shape(t, below), Ordered(t, below, IntervalOrder), t.root # Nil,
         NEW first, FirstIs(t, below, first)
  PROVE  \A k \in In(t) : START[first] <= START[k]
<1> DEFINE good(m) == first \in below[m] => \A k \in below[m] : START[first] <= START[k]
<1>1. PICK B : B = {m \in In(t) : ~good(m)}
  BY Zenon
<1>2. /\ first \in In(t) /\ first \in Node /\ t.child["left"][first] = Nil
      /\ \A n \in Node : first \notin below[t.child["right"][n]]
      /\ below[Nil] = {} /\ below[t.root] = In(t)
  BY InNode DEF FirstIs, Shape, Subtrees
<1>3. ASSUME B # {} PROVE FALSE
  <2>1. PICK m \in B : \A e \in Side : t.child[e][m] \notin B
    BY <1>1, <1>3, LowestOf
  <2>2. m \in In(t) /\ m \in Node /\ ~good(m)
    BY <1>1, <2>1, InNode
  <2>3. PICK k \in below[m] : first \in below[m] /\ ~(START[first] <= START[k])
    BY <2>2
  <2>4. PICK l, r : l = t.child["left"][m] /\ r = t.child["right"][m]
    OBVIOUS
  <2>5. /\ k \in Node /\ (k = m \/ (k \in below[l] /\ LAST[k] < START[m])
                                \/ (k \in below[r] /\ LAST[m] < START[k]))
        /\ first = m \/ (first \in below[l] /\ LAST[first] < START[m])
    BY <1>2, <2>2, <2>3, <2>4, InPlace
  <2>6. \A x \in {m, k, first} : START[x] \in Int /\ LAST[x] \in Int /\ START[x] <= LAST[x]
    BY <1>2, <2>2, <2>5, Intervals
  <2>7. CASE first = m
    <3>1. k \notin below[l]
      BY <1>2, <2>4, <2>7
    <3> QED BY <2>3, <2>5, <2>6, <2>7, <3>1
  <2>8. CASE first # m
    <3>1. first \in below[l] /\ l # Nil
      BY <1>2, <2>5, <2>8
    <3>2. l \in In(t)
      BY <2>2, <2>4, <3>1, LeftRight, ChildIs
    <3>3. good(l)
      BY <1>1, <2>1, <2>4, <3>2, LeftRight
    <3> QED BY <2>3, <2>5, <2>6, <2>8, <3>1, <3>3
  <2> QED BY <2>7, <2>8
<1>4. t.root \in In(t)
  BY DEF Shape, Trees, In
<1>5. good(t.root)
  BY <1>1, <1>3, <1>4
<1> QED BY <1>2, <1>5

(* What SubtreeSearch does at a node.                                      *)
SearchAt(t, start, last, f, n) ==
  LET l == t.child["left"][n]
      r == t.child["right"][n]
  IN  IF l # Nil /\ start <= t.last[l] THEN f[l]
      ELSE IF START[n] > last THEN Nil
      ELSE IF start <= LAST[n] THEN n
      ELSE IF r # Nil /\ start <= t.last[r] THEN f[r]
      ELSE Nil

(* So everywhere.                                                          *)
SearchIs(start, last, search) ==
  /\ \A n \in Node : search[n] = SearchAt(tree, start, last, search, n)
  /\ \A n : SubtreeSearch(n, start, last) = search[n]

(* In a tree the recursive function does what its equation says.           *)
LEMMA SearchSteps ==
  ASSUME NEW below, Shape(tree, below), NEW start, NEW last, Node # {}
  PROVE  \E search : SearchIs(start, last, search)
<1> DEFINE V == Node \cup {Nil}
           step(f, n) == SearchAt(tree, start, last, f, n)
           E == [n \in Node |-> [f \in [Node -> V] |-> step(f, n)]]
           iter == CHOOSE f : f = [n \in Node |-> step(f, n)]
<1>1. PICK full : full = Height(tree, below)
  OBVIOUS
<1>2. PICK N \in Nat : /\ full \in [Node \cup {Nil} -> 0..N]
                       /\ \A m \in Node, e \in Side : full[tree.child[e][m]] < full[m]
  BY Zenon, <1>1, HeightRanks
<1>3. PICK rank : rank = [m \in Node |-> full[m]]
  BY Zenon
<1>4. \A m \in Node, e \in Side : tree.child[e][m] \in Node \cup {Nil}
  BY DEF Shape, Trees
<1>5. /\ rank \in [Node -> 0..N]
      /\ \A m \in Node, e \in Side : tree.child[e][m] # Nil => rank[tree.child[e][m]] < rank[m]
  BY <1>2, <1>3, <1>4
<1>6. E \in [Node -> [[Node -> V] -> V]]
  <2> SUFFICES ASSUME NEW m \in Node, NEW f \in [Node -> V] PROVE step(f, m) \in V
    OBVIOUS
  <2>1. \A e \in Side : tree.child[e][m] # Nil => f[tree.child[e][m]] \in V
    BY <1>4
  <2> QED BY <2>1, LeftRight DEF SearchAt
<1>7. Founded(Node, V, E, rank)
  <2> SUFFICES ASSUME NEW m \in Node, NEW f \in [Node -> V], NEW g \in [Node -> V],
                      \A y \in Node : rank[y] < rank[m] => f[y] = g[y]
               PROVE  step(f, m) = step(g, m)
    BY DEF Founded
  <2>1. \A e \in Side : tree.child[e][m] # Nil => f[tree.child[e][m]] = g[tree.child[e][m]]
    BY <1>4, <1>5
  <2> QED BY <2>1, LeftRight DEF SearchAt
<1>8. PICK f : Solution(Node, V, E, f)
  <2>0. V # {}
    OBVIOUS
  <2> HIDE DEF E, V
  <2>1. Recursive(Node, V, E, N, rank)
    BY Zenon, <1>2, <1>5, <1>6, <1>7, <2>0 DEF Recursive
  <2> QED BY <2>1, Recursion
<1>9. f = [n \in Node |-> step(f, n)]
  <2>1. f \in [Node -> V] /\ \A m \in Node : f[m] = E[m][f]
    BY <1>8 DEF Solution
  <2>2. \A m \in Node : E[m][f] = step(f, m)
    BY <2>1
  <2> HIDE DEF step, E, V
  <2> QED BY <2>1, <2>2
<1>10. iter = [n \in Node |-> step(iter, n)]
  <2> HIDE DEF step
  <2> QED BY <1>9, Zenon
<1>11. \A n \in Node : iter[n] = step(iter, n)
  <2> HIDE DEF step, iter
  <2> QED BY <1>10, Zenon
<1>12. \A n : SubtreeSearch(n, start, last) = iter[n]
  BY Zenon DEF SubtreeSearch, SearchAt, iter
<1> HIDE DEF iter
<1> QED BY <1>11, <1>12 DEF SearchIs

(* No node on the left meets the range if their last end does not.         *)
LEMMA NoneFarEnough ==
  ASSUME NEW t, NEW below, Shape(t, below), Ends(t, below), Augmented, NEW m \in Node, NEW e \in Side,
         NEW c, c = t.child[e][m], NEW start \in Int, ~(c # Nil /\ start <= t.last[c])
  PROVE  \A k \in below[c] : k \in Node /\ ~(start <= LAST[k])
<1>1. CASE c = Nil
  BY <1>1 DEF Shape, Subtrees
<1>2. CASE c # Nil
  <2>1. c \in In(t) /\ c \in Node
    BY <1>2, ChildIs
  <2>2. EndOf(t, below, c) /\ t.last[c] \in Int
    BY <2>1 DEF Ends, Shape, Trees
  <2>3. ASSUME NEW k \in below[c] PROVE k \in Node /\ LAST[k] \in Int /\ LAST[k] <= t.last[c]
    <3>1. k \in Node
      BY <2>1, BelowParts
    <3> QED BY <2>2, <3>1, Intervals DEF EndOf
  <2> QED BY <1>2, <2>2, <2>3
<1> QED BY <1>1, <1>2

(* The search finds the first node of the subtree: if the last end on the  *)
(* left is far enough, and no node there meets the range, all that come    *)
(* after start too late.                                                   *)
LEMMA SearchFinds ==
  ASSUME NEW t, NEW below, Shape(t, below), Ordered(t, below, IntervalOrder), Ends(t, below),
         Augmented, NEW start \in Int, NEW last \in Int, NEW search,
         \A n \in Node : search[n] = SearchAt(t, start, last, search, n)
  PROVE  \A n \in In(t) : FirstIn(below[n], start, last, search[n])
<1>1. PICK B : B = {n \in In(t) : ~FirstIn(below[n], start, last, search[n])}
  BY Zenon
<1> SUFFICES ASSUME B # {} PROVE FALSE
  BY <1>1
<1>2. PICK m \in B : \A e \in Side : t.child[e][m] \notin B
  BY <1>1, LowestOf
<1>3. m \in In(t) /\ m \in Node /\ ~FirstIn(below[m], start, last, search[m]) /\ m # Nil
  BY <1>1, <1>2, InNode
<1>4. PICK l, r : l = t.child["left"][m] /\ r = t.child["right"][m]
  OBVIOUS
<1>5. ASSUME NEW e \in Side, NEW c, c = t.child[e][m], c # Nil
      PROVE  /\ FirstIn(below[c], start, last, search[c]) /\ EndOf(t, below, c)
             /\ \A k \in below[c] : k \in below[m]
  <2>1. c \in In(t) /\ \A k \in below[c] : k \in below[m]
    BY <1>3, <1>5, ChildIs
  <2> QED BY <1>1, <1>2, <1>5, <2>1 DEF Ends
<1>6. \A k \in below[m] : /\ k \in Node /\ START[k] \in Int /\ LAST[k] \in Int /\ START[k] <= LAST[k]
                          /\ \/ k = m
                             \/ k \in below[l] /\ LAST[k] < START[m]
                             \/ k \in below[r] /\ LAST[m] < START[k]
  BY <1>3, <1>4, InPlace, Intervals
<1>7. m \in below[m] /\ START[m] \in Int /\ LAST[m] \in Int /\ START[m] <= LAST[m]
  BY <1>3, BelowParts, Intervals
<1>8. search[m] = IF l # Nil /\ start <= t.last[l] THEN search[l]
                  ELSE IF START[m] > last THEN Nil
                  ELSE IF start <= LAST[m] THEN m
                  ELSE IF r # Nil /\ start <= t.last[r] THEN search[r]
                  ELSE Nil
  BY <1>3, <1>4 DEF SearchAt
<1>9. CASE l # Nil /\ start <= t.last[l]
  <2>1. PICK w : w = search[l] /\ w = search[m]
    BY <1>8, <1>9
  <2>2. /\ FirstIn(below[l], start, last, w) /\ EndOf(t, below, l)
        /\ \A k \in below[l] : k \in below[m]
    BY <1>4, <1>5, <1>9, <2>1, LeftRight
  <2>3. CASE w = Nil /\ \A k \in below[l] : ~Meets(k, start, last)
    <3>1. PICK k \in below[l] : LAST[k] = t.last[l]
      BY <2>2 DEF EndOf
    <3>2. START[k] > last
      <4>1. k \in below[m] /\ ~Meets(k, start, last)
        BY <2>2, <2>3, <3>1
      <4>2. START[k] \in Int /\ start <= LAST[k]
        BY <1>6, <1>9, <3>1, <4>1
      <4> QED BY <4>1, <4>2 DEF Meets
    <3>3. START[m] > last
      <4>1. k \in below[m] /\ k \in below[l]
        BY <2>2, <3>1
      <4>2. k \in Node /\ k # m /\ k \notin below[r]
        <5>1. k \in Node
          BY <1>6, <4>1
        <5>2. m \notin below[l] /\ \A x \in below[l] : x \notin below[r]
          BY <1>3, <1>4, LeftRight DEF Shape, Subtrees
        <5> QED BY <4>1, <5>1, <5>2
      <4>3. LAST[k] < START[m] /\ START[k] <= LAST[k] /\ LAST[k] \in Int /\ START[k] \in Int
        BY <1>6, <4>1, <4>2
      <4> QED BY <1>7, <3>2, <4>3
    <3>4. ASSUME NEW x \in below[m], Meets(x, start, last) PROVE FALSE
      <4>1. START[x] <= last /\ x \notin below[l]
        BY <2>3, <3>4 DEF Meets
      <4>2. x = m \/ LAST[m] < START[x]
        BY <1>6, <4>1
      <4>3. START[x] \in Int
        BY <1>6
      <4> QED BY <1>7, <3>3, <4>1, <4>2, <4>3
    <3>5. FirstIn(below[m], start, last, w)
      BY <2>3, <3>4 DEF FirstIn
    <3> QED BY <1>3, <2>1, <3>5
  <2>4. CASE /\ w \in below[l] /\ Meets(w, start, last)
             /\ \A k \in below[l] : Meets(k, start, last) => START[w] <= START[k]
    <3>1. w \in below[m] /\ START[w] < START[m] /\ START[w] \in Int
      <4>1. w \in below[m]
        BY <2>2, <2>4
      <4>2. w # m /\ w \notin below[r]
        <5>1. m \notin below[l] /\ \A x \in below[l] : x \notin below[r]
          BY <1>3, <1>4, LeftRight DEF Shape, Subtrees
        <5> QED BY <2>4, <5>1
      <4>3. LAST[w] < START[m] /\ START[w] <= LAST[w] /\ START[w] \in Int /\ LAST[w] \in Int
        BY <1>6, <4>1, <4>2
      <4> QED BY <1>7, <4>1, <4>3
    <3>2. ASSUME NEW x \in below[m], Meets(x, start, last) PROVE START[w] <= START[x]
      <4>1. CASE x \in below[l]
        BY <2>4, <3>2, <4>1
      <4>2. CASE x \notin below[l]
        <5>1. (x = m \/ LAST[m] < START[x]) /\ START[x] \in Int
          BY <1>6, <4>2
        <5> QED BY <1>7, <3>1, <5>1
      <4> QED BY <4>1, <4>2
    <3>3. FirstIn(below[m], start, last, w)
      BY <2>4, <3>1, <3>2 DEF FirstIn
    <3> QED BY <1>3, <2>1, <3>3
  <2> QED BY <2>2, <2>3, <2>4 DEF FirstIn
<1>10. CASE ~(l # Nil /\ start <= t.last[l])
  <2>1. \A k \in below[l] : ~Meets(k, start, last)
    <3>1. \A k \in below[l] : ~(start <= LAST[k])
      BY <1>3, <1>4, <1>10, LeftRight, NoneFarEnough
    <3> QED BY <3>1 DEF Meets
  <2>2. CASE START[m] > last
    <3>1. search[m] = Nil
      BY <1>8, <1>10, <2>2
    <3>2. ASSUME NEW x \in below[m], Meets(x, start, last) PROVE FALSE
      <4>1. START[x] <= last /\ x \notin below[l]
        BY <2>1, <3>2 DEF Meets
      <4>2. (x = m \/ LAST[m] < START[x]) /\ START[x] \in Int
        BY <1>6, <4>1
      <4> QED BY <1>7, <2>2, <4>1, <4>2
    <3>3. FirstIn(below[m], start, last, search[m])
      BY <3>1, <3>2 DEF FirstIn
    <3> QED BY <1>3, <3>3
  <2>3. CASE ~(START[m] > last) /\ start <= LAST[m]
    <3>1. search[m] = m
      BY <1>8, <1>10, <2>3
    <3>2. Meets(m, start, last)
      BY <1>7, <2>3 DEF Meets
    <3>3. ASSUME NEW x \in below[m], Meets(x, start, last) PROVE START[m] <= START[x]
      <4>1. x \notin below[l]
        BY <2>1, <3>3
      <4>2. (x = m \/ LAST[m] < START[x]) /\ START[x] \in Int
        BY <1>6, <4>1
      <4> QED BY <1>7, <4>2
    <3>4. FirstIn(below[m], start, last, m)
      BY <1>7, <3>2, <3>3 DEF FirstIn
    <3> QED BY <1>3, <3>1, <3>4
  <2>4. CASE ~(START[m] > last) /\ ~(start <= LAST[m])
    <3>1. ASSUME NEW x \in below[m], Meets(x, start, last) PROVE x \in below[r]
      <4>1. x \notin below[l] /\ x # m
        BY <2>1, <2>4, <3>1 DEF Meets
      <4> QED BY <1>6, <4>1
    <3>2. CASE r # Nil /\ start <= t.last[r]
      <4>1. PICK w : w = search[r] /\ w = search[m]
        BY <1>8, <1>10, <2>4, <3>2
      <4>2. FirstIn(below[r], start, last, w) /\ \A k \in below[r] : k \in below[m]
        BY <1>4, <1>5, <3>2, <4>1, LeftRight
      <4>3. FirstIn(below[m], start, last, w)
        BY <3>1, <4>2 DEF FirstIn
      <4> QED BY <1>3, <4>1, <4>3
    <3>3. CASE ~(r # Nil /\ start <= t.last[r])
      <4>1. search[m] = Nil
        BY <1>8, <1>10, <2>4, <3>3
      <4>2. \A k \in below[r] : ~(start <= LAST[k])
        BY <1>3, <1>4, <3>3, LeftRight, NoneFarEnough
      <4>3. \A x \in below[m] : ~Meets(x, start, last)
        BY <3>1, <4>2 DEF Meets
      <4>4. FirstIn(below[m], start, last, search[m])
        BY <4>1, <4>3 DEF FirstIn
      <4> QED BY <1>3, <4>4
    <3> QED BY <3>2, <3>3
  <2> QED BY <2>2, <2>3, <2>4
<1> QED BY <1>9, <1>10

(* So does the search from the root, and it misses none by its shortcuts.  *)
LEMMA IterFinds ==
  ASSUME NEW below, TreeOk(tree, below), Ends(tree, below), Augmented,
         NEW start \in Int, NEW last \in Int
  PROVE  FirstIn(In(tree), start, last, IterFirst(start, last))
<1>1. PICK t : t = tree
  OBVIOUS
<1>2. Shape(t, below) /\ FirstIs(t, below, t.leftmost) /\ Ordered(t, below, IntervalOrder)
  BY <1>1 DEF TreeOk
<1>3. below[t.root] = In(t) /\ below[Nil] = {}
  BY <1>2 DEF Shape, Subtrees
<1>4. IterFirst(start, last) =
        IF t.root = Nil \/ t.last[t.root] < start \/ START[t.leftmost] > last
        THEN Nil ELSE SubtreeSearch(t.root, start, last)
  BY <1>1 DEF IterFirst
<1>5. CASE t.root = Nil
  BY <1>1, <1>3, <1>4, <1>5 DEF FirstIn
<1>6. CASE t.root # Nil
  <2>1. t.root \in In(t) /\ t.root \in Node
    BY <1>2, <1>6 DEF Shape, Trees, In
  <2>2. EndOf(t, below, t.root) /\ t.last[t.root] \in Int
    BY <1>1, <1>2, <2>1 DEF Ends, Shape, Trees
  <2>3. \A k \in In(t) : k \in Node /\ START[k] \in Int /\ LAST[k] \in Int
    BY InNode, Intervals
  <2>4. CASE t.last[t.root] < start
    <3>1. \A k \in In(t) : LAST[k] <= t.last[t.root]
      BY <1>3, <2>2 DEF EndOf
    <3>2. \A k \in In(t) : ~Meets(k, start, last)
      BY <2>2, <2>3, <2>4, <3>1 DEF Meets
    <3> QED BY <1>1, <1>4, <2>4, <3>2 DEF FirstIn
  <2>5. CASE START[t.leftmost] > last
    <3>1. PICK f : f = t.leftmost
      OBVIOUS
    <3>2. f \in In(t) /\ \A k \in In(t) : START[f] <= START[k]
      BY <1>2, <1>6, <3>1, FirstStarts DEF FirstIs
    <3>3. \A k \in In(t) : ~Meets(k, start, last)
      BY <2>3, <2>5, <3>1, <3>2 DEF Meets
    <3> QED BY <1>1, <1>4, <2>5, <3>3 DEF FirstIn
  <2>6. CASE ~(t.last[t.root] < start \/ START[t.leftmost] > last)
    <3>1. PICK search : SearchIs(start, last, search)
      BY <1>1, <1>2, <2>1, SearchSteps
    <3>2. IterFirst(start, last) = search[t.root]
      BY <1>4, <1>6, <2>6, <3>1 DEF SearchIs
    <3>3. \A n \in Node : search[n] = SearchAt(t, start, last, search, n)
      BY <1>1, <3>1 DEF SearchIs
    <3>4. \A n \in In(t) : FirstIn(below[n], start, last, search[n])
      BY <1>1, <1>2, <3>3, SearchFinds
    <3>5. FirstIn(In(t), start, last, search[t.root])
      BY <1>3, <2>1, <3>4
    <3> QED BY <1>1, <3>2, <3>5
  <2> QED BY <2>4, <2>5, <2>6
<1> QED BY <1>5, <1>6

(* The property that the runs check.                                       *)
LEMMA IterFirstHolds ==
  ASSUME NEW below, TreeOk(tree, below), Ends(tree, below), Augmented
  PROVE  IterFirstIsRight
<1>1. Shape(tree, below) /\ Ordered(tree, below, IntervalOrder)
  BY DEF TreeOk
<1> SUFFICES ASSUME pc = "idle",
                    NEW start \in UNION {{LAST[n], LAST[n] + 1} : n \in Node},
                    NEW last \in UNION {{START[n] - 1, START[n]} : n \in Node},
                    start <= last
             PROVE  LET found == {n \in Linked : START[n] <= last /\ start <= LAST[n]}
                    IN  IterFirst(start, last) =
                          IF found = {} THEN Nil
                          ELSE CHOOSE n \in found : \A m \in found : START[n] <= START[m]
  BY Zenon DEF IterFirstIsRight
<1>0. PICK K : K = {n \in Linked : START[n] <= last /\ start <= LAST[n]}
  OBVIOUS
<1>2. start \in Int /\ last \in Int
  BY Intervals
<1>3. PICK r : r = IterFirst(start, last)
  OBVIOUS
<1>4. FirstIn(In(tree), start, last, r)
  BY <1>2, <1>3, IterFinds
<1>5. \A n : n \in K <=> n \in In(tree) /\ Meets(n, start, last)
  BY <1>0 DEF Meets, Linked, InTree, In
<1>6. Nil \notin In(tree) /\ \A n \in In(tree) : n \in Node /\ START[n] \in Int
  BY InNode, Intervals
<1>7. CASE K = {}
  <2>1. r = Nil
    BY <1>4, <1>5, <1>7 DEF FirstIn
  <2> QED BY <1>0, <1>3, <1>7, <2>1
<1>8. CASE K # {}
  <2>1. r \in K /\ \A n \in K : START[r] <= START[n]
    BY <1>4, <1>5, <1>8 DEF FirstIn
  <2>2. PICK w : w = CHOOSE n \in K : \A m \in K : START[n] <= START[m]
    OBVIOUS
  <2>3. w \in K /\ \A m \in K : START[w] <= START[m]
    BY <2>1, <2>2
  <2>4. START[w] = START[r]
    <3>1. START[w] <= START[r] /\ START[r] <= START[w] /\ START[w] \in Int /\ START[r] \in Int
      BY <1>5, <1>6, <2>1, <2>3
    <3> QED BY <3>1
  <2>5. w = r
    BY <1>1, <1>5, <2>1, <2>3, <2>4, StartsDiffer
  <2> QED BY <1>0, <1>3, <1>8, <2>2, <2>5
<1> QED BY <1>7, <1>8

-----------------------------------------------------------------------------
(* The ends and the search in every state                                  *)

(* With the callbacks of INTERVAL_TREE_DEFINE the ends in the tree are     *)
(* always right as to the children.                                        *)
THEOREM EndsInvariant ==
  ASSUME Augmented
  PROVE  Spec => [](TreeInv /\ LocalEnds(tree))
<1>1. RbInit => TreeInv /\ LocalEnds(tree)
  <2> SUFFICES ASSUME RbInit PROVE TreeInv /\ LocalEnds(tree)
    OBVIOUS
  <2>1. In(tree) = {}
    BY RbTreeConstants DEF RbInit, EmptyTree, In
  <2> QED BY <2>1, InitTree DEF LocalEnds
<1>2. TreeInv /\ LocalEnds(tree) /\ [Next]_rbVars => TreeInv' /\ LocalEnds(tree)'
  <2> SUFFICES ASSUME TreeInv, LocalEnds(tree), [Next]_rbVars PROVE TreeInv' /\ LocalEnds(tree)'
    OBVIOUS
  <2>1. LocalEnds(tree')
    BY StepMends
  <2>2. LocalEnds(tree)'
    BY <2>1
  <2> QED BY <2>2, StepKeepsTree
<1> QED BY <1>1, <1>2, PTL DEF Spec

(* The end kept with each node is that of the last interval at or below it *)
(* whatever propagate, copy and rotate have done, and although propagate   *)
(* stops at the first end that need not change.                            *)
THEOREM AugmentExactCorrect ==
  ASSUME Augmented
  PROVE  Spec => []AugmentExact
<1>1. TreeInv /\ LocalEnds(tree) => AugmentExact
  BY AugmentHolds DEF TreeInv, TreeOk
<1> QED BY <1>1, EndsInvariant, PTL

(* drm_mm_interval_tree_iter_first finds the first interval that meets the *)
(* range, or that there is none, by the ends and the cached first node.    *)
THEOREM IterFirstCorrect ==
  ASSUME Augmented
  PROVE  Spec => []IterFirstIsRight
<1>1. TreeInv /\ LocalEnds(tree) => IterFirstIsRight
  <2> SUFFICES ASSUME TreeInv, LocalEnds(tree) PROVE IterFirstIsRight
    OBVIOUS
  <2>1. PICK below : TreeOk(tree, below)
    BY DEF TreeInv
  <2>2. Ends(tree, below)
    BY <2>1, EndsAreLocal DEF TreeOk
  <2> QED BY <2>1, <2>2, IterFirstHolds
<1> QED BY <1>1, EndsInvariant, PTL

-----------------------------------------------------------------------------
(* The order of the walk through a tree                                    *)

(* The order of the items of a list.                                       *)
ListOrder(s) == {e \in Node \X Node : Before(s, e[1], e[2])}

(* Its pairs.                                                              *)
LEMMA ListOrderIs ==
  ASSUME NEW s, NEW x \in Node, NEW y \in Node
  PROVE  <<x, y>> \in ListOrder(s) <=> Before(s, x, y)
BY DEF ListOrder

(* s lists the nodes of S, each once.                                      *)
Listing(s, S) == s \in Seq(Node) /\ Distinct(s) /\ \A x : InList(s, x) <=> x \in S

(* No item is before itself.                                               *)
LEMMA NotBeforeItself ==
  ASSUME NEW s \in Seq(Node)
  PROVE  Distinct(s) <=> \A x : ~Before(s, x, x)
<1>1. PICK n \in Nat : n = Len(s)
  OBVIOUS
<1>2. ASSUME Distinct(s), NEW x, Before(s, x, x) PROVE FALSE
  <2>1. PICK j, k \in 1..Len(s) : j < k /\ s[j] = x /\ s[k] = x
    BY <1>2 DEF Before
  <2>2. j # k
    BY <1>1, <2>1
  <2> QED BY <1>2, <2>1, <2>2 DEF Distinct
<1>3. ASSUME \A x : ~Before(s, x, x), NEW j \in 1..Len(s), NEW k \in 1..Len(s), j # k, s[j] = s[k]
      PROVE  FALSE
  <2>1. j < k \/ k < j
    BY <1>1, <1>3
  <2>2. Before(s, s[j], s[j])
    BY <1>3, <2>1 DEF Before
  <2> QED BY <1>3, <2>2
<1> QED BY <1>2, <1>3 DEF Distinct

(* In a list without repetition what is before an item is before all that  *)
(* it is before.                                                           *)
LEMMA ListOrderTransitive ==
  ASSUME NEW s \in Seq(Node), Distinct(s)
  PROVE  /\ \A x, y, z : Before(s, x, y) /\ Before(s, y, z) => Before(s, x, z)
         /\ Transitive(ListOrder(s))
<1>1. PICK n \in Nat : n = Len(s)
  OBVIOUS
<1>2. ASSUME NEW x, NEW y, NEW z, Before(s, x, y), Before(s, y, z) PROVE Before(s, x, z)
  <2>1. PICK i, j \in 1..Len(s) : i < j /\ s[i] = x /\ s[j] = y
    BY <1>2 DEF Before
  <2>2. PICK k, l \in 1..Len(s) : k < l /\ s[k] = y /\ s[l] = z
    BY <1>2 DEF Before
  <2>3. j = k
    BY <2>1, <2>2 DEF Distinct
  <2>4. i < l
    BY <1>1, <2>1, <2>2, <2>3
  <2> QED BY <2>1, <2>2, <2>4 DEF Before
<1> QED BY <1>2, ListOrderIs DEF Transitive

(* What is in a spliced list, and in which order.                          *)
LEMMA SplicedOrder ==
  ASSUME NEW w, NEW a, NEW m, NEW b, Spliced(Node, w, a, m, b)
  PROVE  /\ \A x : InList(w, x) <=> InList(a, x) \/ x = m \/ InList(b, x)
         /\ \A x, y : Before(w, x, y) <=>
              \/ Before(a, x, y) \/ Before(b, x, y)
              \/ InList(a, x) /\ y = m
              \/ x = m /\ InList(b, y)
              \/ InList(a, x) /\ InList(b, y)
<1>1. PICK i \in Nat, j \in Nat : i = Len(a) /\ j = Len(b)
  BY DEF Spliced
<1>2. /\ Len(w) = i + 1 + j /\ w[i + 1] = m
      /\ \A k \in 1..i : w[k] = a[k]
      /\ \A k \in 1..j : w[i + 1 + k] = b[k]
  BY <1>1 DEF Spliced
<1>3. \A k \in 1..Len(w) : \/ k \in 1..i /\ w[k] = a[k]
                           \/ k = i + 1 /\ w[k] = m
                           \/ \E q \in 1..j : k = i + 1 + q /\ w[k] = b[q]
  <2> SUFFICES ASSUME NEW k \in 1..(i + 1 + j)
               PROVE  \/ k \in 1..i /\ w[k] = a[k]
                      \/ k = i + 1 /\ w[k] = m
                      \/ \E q \in 1..j : k = i + 1 + q /\ w[k] = b[q]
    BY <1>2
  <2>1. CASE k <= i + 1
    BY <1>2, <2>1
  <2>2. CASE k > i + 1
    <3>1. PICK q \in 1..j : k = i + 1 + q
      <4>1. k - i - 1 \in 1..j /\ k = i + 1 + (k - i - 1)
        BY <2>2
      <4> QED BY <4>1
    <3> QED BY <1>2, <3>1
  <2> QED BY <2>1, <2>2
<1>4. /\ \A k \in 1..i : k \in 1..Len(w) /\ k < i + 1
      /\ i + 1 \in 1..Len(w)
      /\ \A q \in 1..j : i + 1 + q \in 1..Len(w) /\ i + 1 < i + 1 + q
  BY <1>2
<1>5. ASSUME NEW x PROVE InList(w, x) <=> InList(a, x) \/ x = m \/ InList(b, x)
  <2>1. InList(w, x) => InList(a, x) \/ x = m \/ InList(b, x)
    BY <1>1, <1>3 DEF InList
  <2>2. InList(a, x) => InList(w, x)
    BY <1>1, <1>2, <1>4 DEF InList
  <2>3. x = m => InList(w, x)
    BY <1>2, <1>4 DEF InList
  <2>4. InList(b, x) => InList(w, x)
    <3> SUFFICES ASSUME NEW q \in 1..j, b[q] = x PROVE InList(w, x)
      BY <1>1 DEF InList
    <3>1. w[i + 1 + q] = x /\ i + 1 + q \in 1..Len(w)
      BY <1>2, <1>4
    <3> QED BY <3>1 DEF InList
  <2> QED BY <2>1, <2>2, <2>3, <2>4
<1>6. ASSUME NEW x, NEW y, Before(w, x, y)
      PROVE  \/ Before(a, x, y) \/ Before(b, x, y)
             \/ InList(a, x) /\ y = m
             \/ x = m /\ InList(b, y)
             \/ InList(a, x) /\ InList(b, y)
  <2>1. PICK k, l \in 1..Len(w) : k < l /\ w[k] = x /\ w[l] = y
    BY <1>6 DEF Before
  <2>2. CASE k \in 1..i /\ w[k] = a[k]
    <3>1. InList(a, x)
      BY <1>1, <2>1, <2>2 DEF InList
    <3>2. CASE l \in 1..i /\ w[l] = a[l]
      BY <1>1, <2>1, <2>2, <3>2 DEF Before
    <3>3. CASE l = i + 1 /\ w[l] = m
      BY <2>1, <3>1, <3>3
    <3>4. CASE \E q \in 1..j : l = i + 1 + q /\ w[l] = b[q]
      <4>1. InList(b, y)
        BY <1>1, <2>1, <3>4 DEF InList
      <4> QED BY <3>1, <4>1
    <3> QED BY <1>3, <3>2, <3>3, <3>4
  <2>3. CASE k = i + 1 /\ w[k] = m
    <3>1. PICK q \in 1..j : l = i + 1 + q /\ w[l] = b[q]
      <4>1. ~(l \in 1..i) /\ l # i + 1
        BY <2>1, <2>3
      <4> QED BY <1>3, <4>1
    <3>2. InList(b, y)
      BY <1>1, <2>1, <3>1 DEF InList
    <3> QED BY <2>1, <2>3, <3>2
  <2>4. CASE \E q \in 1..j : k = i + 1 + q /\ w[k] = b[q]
    <3>1. PICK q \in 1..j : k = i + 1 + q /\ w[k] = b[q]
      BY <2>4
    <3>2. PICK r \in 1..j : l = i + 1 + r /\ w[l] = b[r]
      <4>1. ~(l \in 1..i) /\ l # i + 1
        BY <2>1, <3>1
      <4> QED BY <1>3, <4>1
    <3>3. q < r
      BY <2>1, <3>1, <3>2
    <3> QED BY <1>1, <2>1, <3>1, <3>2, <3>3 DEF Before
  <2> QED BY <1>3, <2>2, <2>3, <2>4
<1>7. ASSUME NEW x, NEW y, Before(a, x, y) PROVE Before(w, x, y)
  BY <1>1, <1>2, <1>4, <1>7 DEF Before
<1>8. ASSUME NEW x, NEW y, Before(b, x, y) PROVE Before(w, x, y)
  <2>1. PICK q, r \in 1..j : q < r /\ b[q] = x /\ b[r] = y
    BY <1>1, <1>8 DEF Before
  <2>2. i + 1 + q < i + 1 + r /\ w[i + 1 + q] = x /\ w[i + 1 + r] = y
    BY <1>2, <2>1
  <2> QED BY <1>4, <2>2 DEF Before
<1>9. ASSUME NEW x, NEW y, InList(a, x), y = m PROVE Before(w, x, y)
  BY <1>1, <1>2, <1>4, <1>9 DEF Before, InList
<1>10. ASSUME NEW x, NEW y, InList(b, y) PROVE Before(w, m, y) /\ (InList(a, x) => Before(w, x, y))
  <2>1. PICK q \in 1..j : b[q] = y
    BY <1>1, <1>10 DEF InList
  <2>2. i + 1 + q \in 1..Len(w) /\ w[i + 1 + q] = y /\ i + 1 < i + 1 + q
    BY <1>2, <1>4, <2>1
  <2>3. \A k \in 1..i : k < i + 1 + q
    BY <2>2
  <2>4. Before(w, m, y)
    BY <1>2, <1>4, <2>2 DEF Before
  <2>5. InList(a, x) => Before(w, x, y)
    BY <1>1, <1>2, <1>4, <2>2, <2>3 DEF Before, InList
  <2> QED BY <2>4, <2>5
<1> QED BY <1>5, <1>6, <1>7, <1>8, <1>9, <1>10

(* w lists the subtree of n: on either side of a node comes what is below  *)
(* its child on that side.                                                 *)
WalkLists(t, below, w, n) ==
  /\ Listing(w, below[n])
  /\ \A m \in below[n], d \in Side : \A k \in below[t.child[d][m]] : Precedes(ListOrder(w), d, k, m)

(* The items of w are in the order R.                                      *)
InOrderOf(w, R) == \A x, y : Before(w, x, y) => <<x, y>> \in R

(* From the children up to their parent.                                   *)
LEMMA WalkListsAbove ==
  ASSUME NEW t, NEW below, Shape(t, below), NEW n \in In(t), NEW l, NEW r,
         l = t.child["left"][n], r = t.child["right"][n], NEW a, NEW b, NEW w,
         Spliced(Node, w, a, n, b), WalkLists(t, below, a, l), WalkLists(t, below, b, r)
  PROVE  WalkLists(t, below, w, n)
<1>1. /\ n \in Node /\ below[n] = {n} \cup below[l] \cup below[r]
      /\ n \notin below[l] /\ n \notin below[r] /\ \A x \in below[l] : x \notin below[r]
  BY InNode, LeftRight DEF Shape, Subtrees
<1>2. /\ \A x : InList(a, x) <=> x \in below[l]
      /\ \A x : InList(b, x) <=> x \in below[r]
      /\ Distinct(a) /\ Distinct(b) /\ a \in Seq(Node) /\ b \in Seq(Node) /\ w \in Seq(Node)
  BY DEF WalkLists, Listing, Spliced
<1>3. /\ \A x : InList(w, x) <=> InList(a, x) \/ x = n \/ InList(b, x)
      /\ \A x, y : Before(w, x, y) <=>
           \/ Before(a, x, y) \/ Before(b, x, y)
           \/ InList(a, x) /\ y = n
           \/ x = n /\ InList(b, y)
           \/ InList(a, x) /\ InList(b, y)
  BY SplicedOrder
<1>4. Distinct(w)
  <2>1. ASSUME NEW x PROVE ~Before(w, x, x)
    <3>1. ~Before(a, x, x) /\ ~Before(b, x, x)
      BY <1>2, NotBeforeItself
    <3> QED BY <1>1, <1>2, <1>3, <3>1
  <2> QED BY <1>2, <2>1, NotBeforeItself
<1>5. ASSUME NEW m \in below[n], NEW d \in Side, NEW k \in below[t.child[d][m]]
      PROVE  Precedes(ListOrder(w), d, k, m)
  <2>1. m \in Node /\ k \in Node
    <3>1. m \in Node
      BY <1>1, BelowParts
    <3> QED BY <1>5, <3>1, BelowParts
  <2>2. IF d = "left" THEN Before(w, k, m) ELSE Before(w, m, k)
    <3>1. CASE m = n
      BY <1>2, <1>3, <3>1, <1>5 DEF Side
    <3>2. CASE m \in below[l]
      <4>1. Precedes(ListOrder(a), d, k, m)
        BY <1>5, <3>2 DEF WalkLists
      <4>2. IF d = "left" THEN Before(a, k, m) ELSE Before(a, m, k)
        BY <2>1, <4>1, ListOrderIs DEF Precedes
      <4> QED BY <1>3, <4>2
    <3>3. CASE m \in below[r]
      <4>1. Precedes(ListOrder(b), d, k, m)
        BY <1>5, <3>3 DEF WalkLists
      <4>2. IF d = "left" THEN Before(b, k, m) ELSE Before(b, m, k)
        BY <2>1, <4>1, ListOrderIs DEF Precedes
      <4> QED BY <1>3, <4>2
    <3> QED BY <1>1, <3>1, <3>2, <3>3
  <2> QED BY <2>1, <2>2, ListOrderIs DEF Precedes
<1>6. Listing(w, below[n])
  BY <1>1, <1>2, <1>3, <1>4 DEF Listing
<1> QED BY <1>5, <1>6 DEF WalkLists

(* And in any order that the tree has.                                     *)
LEMMA WalkOrderAbove ==
  ASSUME NEW t, NEW below, Shape(t, below), NEW n \in In(t), NEW l, NEW r,
         l = t.child["left"][n], r = t.child["right"][n], NEW a, NEW b, NEW w,
         Spliced(Node, w, a, n, b), Listing(a, below[l]), Listing(b, below[r]),
         NEW R, Transitive(R), Ordered(t, below, R), InOrderOf(a, R), InOrderOf(b, R)
  PROVE  InOrderOf(w, R)
<1>1. n \in Node /\ l \in Node \cup {Nil} /\ r \in Node \cup {Nil}
  BY InNode, LeftRight, BelowParts
<1>2. /\ \A x : InList(a, x) <=> x \in below[l]
      /\ \A x : InList(b, x) <=> x \in below[r]
  BY DEF Listing
<1>3. \A x, y : Before(w, x, y) =>
        \/ Before(a, x, y) \/ Before(b, x, y)
        \/ InList(a, x) /\ y = n
        \/ x = n /\ InList(b, y)
        \/ InList(a, x) /\ InList(b, y)
  BY SplicedOrder
<1>4. \A x \in below[l] : x \in Node /\ <<x, n>> \in R
  <2>1. ASSUME NEW x \in below[l] PROVE x \in Node /\ Precedes(R, "left", x, n)
    BY <1>1, LeftRight, BelowParts DEF Ordered
  <2> QED BY <2>1 DEF Precedes
<1>5. \A x \in below[r] : x \in Node /\ <<n, x>> \in R
  <2>1. ASSUME NEW x \in below[r] PROVE x \in Node /\ Precedes(R, "right", x, n)
    BY <1>1, LeftRight, BelowParts DEF Ordered
  <2> QED BY <2>1 DEF Precedes
<1>6. \A x \in below[l], y \in below[r] : <<x, y>> \in R
  BY <1>1, <1>4, <1>5 DEF Transitive
<1> QED BY <1>2, <1>3, <1>4, <1>5, <1>6 DEF InOrderOf

(* The empty subtree.                                                      *)
LEMMA NoWalk ==
  ASSUME NEW t, NEW below, Shape(t, below)
  PROVE  WalkLists(t, below, <<>>, Nil) /\ \A R : InOrderOf(<<>>, R)
<1>1. below[Nil] = {}
  BY DEF Shape, Subtrees
<1>2. Len(<<>>) = 0 /\ 1..Len(<<>>) = {} /\ <<>> \in Seq(Node)
  OBVIOUS
<1>3. \A x, y : ~InList(<<>>, x) /\ ~Before(<<>>, x, y)
  BY Zenon, <1>2 DEF InList, Before
<1>4. Distinct(<<>>)
  BY Zenon, <1>2 DEF Distinct
<1>5. Listing(<<>>, below[Nil])
  BY <1>1, <1>2, <1>3, <1>4 DEF Listing
<1>6. WalkLists(t, below, <<>>, Nil)
  BY Zenon, <1>1, <1>5 DEF WalkLists
<1>7. \A R : InOrderOf(<<>>, R)
  BY <1>3 DEF InOrderOf
<1> QED BY <1>6, <1>7

(* The walk at a node is put together from those at its children.          *)
LEMMA WalkParts ==
  ASSUME NEW t, NEW below, Shape(t, below), NEW walk, WalkIs(t, walk), NEW n \in In(t),
         NEW l, NEW r, l = t.child["left"][n], r = t.child["right"][n],
         NEW a, NEW b, NEW w, a = walk[l], b = walk[r], w = walk[n]
  PROVE  /\ Spliced(Node, w, a, n, b)
         /\ l = Nil => a = <<>>
         /\ r = Nil => b = <<>>
         /\ l # Nil => l \in In(t)
         /\ r # Nil => r \in In(t)
<1>1. n \in Node
  BY InNode
<1>2. l \in Node \cup {Nil} /\ r \in Node \cup {Nil}
  BY <1>1, LeftRight DEF Shape, Trees
<1>3. Spliced(Node, w, a, n, b)
  <2>1. a \in Seq(Node) /\ b \in Seq(Node) /\ w = a \o <<n>> \o b
    BY Zenon, <1>1, <1>2 DEF WalkIs
  <2> QED BY Zenon, <1>1, <2>1, Splice
<1>4. (l = Nil => a = <<>>) /\ (r = Nil => b = <<>>)
  BY DEF WalkIs
<1>5. (l # Nil => l \in In(t)) /\ (r # Nil => r \in In(t))
  BY <1>1, LeftRight, ChildFacts
<1> QED BY <1>3, <1>4, <1>5

(* Hence for all subtrees.                                                 *)
LEMMA WalksList ==
  ASSUME NEW t, NEW below, Shape(t, below), NEW walk, WalkIs(t, walk)
  PROVE  \A n \in In(t) : WalkLists(t, below, walk[n], n)
<1>1. PICK B : B = {n \in In(t) : ~WalkLists(t, below, walk[n], n)}
  BY Zenon
<1> SUFFICES ASSUME B # {} PROVE FALSE
  BY <1>1
<1>2. PICK n \in B : \A e \in Side : t.child[e][n] \notin B
  BY <1>1, LowestOf
<1>3. n \in In(t) /\ ~WalkLists(t, below, walk[n], n)
  BY <1>1, <1>2
<1>4. PICK l, r : l = t.child["left"][n] /\ r = t.child["right"][n]
  BY Zenon
<1>5. PICK a, b, w : a = walk[l] /\ b = walk[r] /\ w = walk[n]
  OBVIOUS
<1>6. /\ Spliced(Node, w, a, n, b)
      /\ (l = Nil => a = <<>>) /\ (r = Nil => b = <<>>)
      /\ (l # Nil => l \in In(t)) /\ (r # Nil => r \in In(t))
  BY <1>3, <1>4, <1>5, WalkParts
<1>7. WalkLists(t, below, a, l)
  <2>1. CASE l = Nil
    BY <1>6, <2>1, NoWalk
  <2>2. CASE l # Nil
    BY <1>1, <1>2, <1>4, <1>5, <1>6, <2>2, LeftRight
  <2> QED BY <2>1, <2>2
<1>8. WalkLists(t, below, b, r)
  <2>1. CASE r = Nil
    BY <1>6, <2>1, NoWalk
  <2>2. CASE r # Nil
    BY <1>1, <1>2, <1>4, <1>5, <1>6, <2>2, LeftRight
  <2> QED BY <2>1, <2>2
<1>9. WalkLists(t, below, w, n)
  BY <1>3, <1>4, <1>6, <1>7, <1>8, WalkListsAbove
<1> QED BY <1>3, <1>5, <1>9

(* And in every order of the tree.                                         *)
LEMMA WalksInOrder ==
  ASSUME NEW t, NEW below, Shape(t, below), NEW walk, WalkIs(t, walk),
         NEW R, Transitive(R), Ordered(t, below, R)
  PROVE  \A n \in In(t) : InOrderOf(walk[n], R)
<1>1. PICK B : B = {n \in In(t) : ~InOrderOf(walk[n], R)}
  BY Zenon
<1> SUFFICES ASSUME B # {} PROVE FALSE
  BY <1>1
<1>2. PICK n \in B : \A e \in Side : t.child[e][n] \notin B
  BY <1>1, LowestOf
<1>3. n \in In(t) /\ ~InOrderOf(walk[n], R)
  BY <1>1, <1>2
<1>4. PICK l, r : l = t.child["left"][n] /\ r = t.child["right"][n]
  BY Zenon
<1>5. PICK a, b, w : a = walk[l] /\ b = walk[r] /\ w = walk[n]
  OBVIOUS
<1>6. /\ Spliced(Node, w, a, n, b)
      /\ (l = Nil => a = <<>>) /\ (r = Nil => b = <<>>)
      /\ (l # Nil => l \in In(t)) /\ (r # Nil => r \in In(t))
  BY <1>3, <1>4, <1>5, WalkParts
<1>7. Listing(a, below[l]) /\ InOrderOf(a, R)
  <2>1. CASE l = Nil
    BY <1>6, <2>1, NoWalk DEF WalkLists
  <2>2. CASE l # Nil
    <3>1. l \in In(t) /\ l \notin B
      BY <1>2, <1>4, <1>6, <2>2, LeftRight
    <3>2. WalkLists(t, below, walk[l], l)
      BY <3>1, WalksList
    <3> QED BY <1>1, <1>5, <3>1, <3>2 DEF WalkLists
  <2> QED BY <2>1, <2>2
<1>8. Listing(b, below[r]) /\ InOrderOf(b, R)
  <2>1. CASE r = Nil
    BY <1>6, <2>1, NoWalk DEF WalkLists
  <2>2. CASE r # Nil
    <3>1. r \in In(t) /\ r \notin B
      BY <1>2, <1>4, <1>6, <2>2, LeftRight
    <3>2. WalkLists(t, below, walk[r], r)
      BY <3>1, WalksList
    <3> QED BY <1>1, <1>5, <3>1, <3>2 DEF WalkLists
  <2> QED BY <2>1, <2>2
<1>9. InOrderOf(w, R)
  BY <1>3, <1>4, <1>6, <1>7, <1>8, WalkOrderAbove
<1> QED BY <1>3, <1>5, <1>9

(* The walk lists the nodes of the tree, the tree is in its order, and it  *)
(* is in every order of the tree.                                          *)
LEMMA InOrderIs ==
  ASSUME NEW t, NEW below, Shape(t, below), NEW s, s = InOrder(t)
  PROVE  /\ Listing(s, In(t)) /\ Ordered(t, below, ListOrder(s))
         /\ \A R : Transitive(R) /\ Ordered(t, below, R) => InOrderOf(s, R)
<1>1. PICK walk : WalkIs(t, walk)
  BY InOrderSteps
<1>2. s = walk[t.root] /\ below[t.root] = In(t)
  BY <1>1 DEF WalkIs, Shape, Subtrees
<1>3. WalkLists(t, below, s, t.root) /\ \A R : Transitive(R) /\ Ordered(t, below, R) => InOrderOf(s, R)
  <2>1. CASE t.root = Nil
    <3>1. s = <<>>
      BY <1>1, <1>2, <2>1 DEF WalkIs
    <3> QED BY <2>1, <3>1, NoWalk
  <2>2. CASE t.root # Nil
    <3>1. t.root \in In(t)
      BY <2>2 DEF Shape, Trees, In
    <3>2. WalkLists(t, below, walk[t.root], t.root)
      BY <1>1, <3>1, WalksList
    <3>3. \A R : Transitive(R) /\ Ordered(t, below, R) => InOrderOf(walk[t.root], R)
      BY <1>1, <3>1, WalksInOrder
    <3> QED BY <1>2, <3>2, <3>3
  <2> QED BY <2>1, <2>2
<1>4. Listing(s, In(t))
  BY <1>2, <1>3 DEF WalkLists
<1>5. Ordered(t, below, ListOrder(s))
  <2> SUFFICES ASSUME NEW n \in Node, NEW d \in Side, NEW m \in below[t.child[d][n]]
               PROVE  Precedes(ListOrder(s), d, m, n)
    BY DEF Ordered
  <2>1. t.child[d][n] # Nil
    BY DEF Shape, Subtrees
  <2>2. n \in In(t)
    BY <2>1, ChildFacts
  <2> QED BY <1>2, <1>3, <2>2 DEF WalkLists
<1> QED BY <1>3, <1>4, <1>5

(* Two lists of the same items in the same order are one.                  *)
LEMMA OneList ==
  ASSUME NEW S, NEW s, NEW w, Listing(s, S), Listing(w, S),
         \A x, y : Before(w, x, y) => Before(s, x, y)
  PROVE  w = s
<1>1. /\ s \in Seq(Node) /\ w \in Seq(Node) /\ Distinct(s) /\ Distinct(w)
      /\ \A x : InList(w, x) <=> InList(s, x)
  BY DEF Listing
<1>2. PICK n \in Nat, m \in Nat : n = Len(s) /\ m = Len(w)
  BY <1>1
<1>3. PICK Off : Off = {k \in 1..n : ~(k \in 1..m /\ w[k] = s[k])}
  BY Zenon
<1>4. CASE Off = {}
  <2>1. \A k \in 1..n : k \in 1..m /\ w[k] = s[k]
    BY <1>3, <1>4
  <2>2. ASSUME NEW k \in 1..m PROVE k \in 1..n
    <3>1. InList(s, w[k])
      BY <1>1, <1>2 DEF InList
    <3>2. PICK j \in 1..n : s[j] = w[k]
      BY <1>2, <3>1 DEF InList
    <3>3. w[j] = w[k] /\ j \in 1..m
      BY <2>1, <3>2
    <3> QED BY <1>1, <1>2, <3>3 DEF Distinct
  <2>3. m = n
    <3>1. m > 0 => m \in 1..m
      OBVIOUS
    <3>2. n > 0 => n \in 1..n
      OBVIOUS
    <3> QED BY <2>1, <2>2, <3>1, <3>2
  <2>4. Len(w) = Len(s) /\ \A i \in 1..Len(w) : w[i] = s[i]
    BY <1>2, <2>1, <2>3
  <2> QED BY Zenon, <1>1, <2>4, SeqEqual
<1>5. CASE Off # {}
  <2>1. Off \in SUBSET Nat
    BY <1>3
  <2>2. PICK k : k \in Off /\ \A j \in Off : k <= j
    BY <1>5, <2>1, LeastElement
  <2>3. k \in 1..n /\ ~(k \in 1..m /\ w[k] = s[k])
    BY <1>3, <2>2
  <2>4. ASSUME NEW j \in 1..n, j < k PROVE j \in 1..m /\ w[j] = s[j]
    BY <1>3, <2>2, <2>3, <2>4
  <2>5. PICK i \in 1..m : w[i] = s[k]
    <3>1. InList(w, s[k])
      BY <1>1, <1>2, <2>3 DEF InList
    <3> QED BY <1>2, <3>1 DEF InList
  <2>6. k < i
    <3>1. ASSUME i < k PROVE FALSE
      <4>1. i \in 1..n /\ w[i] = s[i]
        BY <2>3, <2>4, <3>1
      <4>2. s[i] = s[k] /\ i # k
        BY <2>5, <3>1, <4>1
      <4> QED BY <1>1, <1>2, <2>3, <4>1, <4>2 DEF Distinct
    <3>2. i # k
      BY <2>3, <2>5
    <3> QED BY <2>3, <3>1, <3>2
  <2>7. k \in 1..m
    BY <2>3, <2>6
  <2>8. Before(w, w[k], s[k])
    BY <1>2, <2>5, <2>6, <2>7 DEF Before
  <2>9. PICK a \in 1..n, b \in 1..n : a < b /\ s[a] = w[k] /\ s[b] = s[k]
    BY <1>2, <2>8 DEF Before
  <2>10. b = k
    BY <1>1, <1>2, <2>3, <2>9 DEF Distinct
  <2>11. a \in 1..m /\ w[a] = w[k] /\ a # k
    BY <2>3, <2>4, <2>9, <2>10
  <2> QED BY <1>1, <1>2, <2>7, <2>11 DEF Distinct
<1> QED BY <1>4, <1>5

(* So the order of the nodes says what the walk is.                        *)
LEMMA OneOrder ==
  ASSUME NEW t, NEW below, Shape(t, below), NEW s, Listing(s, In(t)),
         Ordered(t, below, ListOrder(s))
  PROVE  InOrder(t) = s
<1>1. PICK w : w = InOrder(t)
  OBVIOUS
<1>2. Transitive(ListOrder(s))
  BY ListOrderTransitive DEF Listing
<1>3. Listing(w, In(t)) /\ InOrderOf(w, ListOrder(s))
  BY <1>1, <1>2, InOrderIs
<1>4. \A x, y : Before(w, x, y) => Before(s, x, y)
  BY <1>3 DEF InOrderOf, ListOrder
<1> QED BY <1>1, <1>3, <1>4, OneList

-----------------------------------------------------------------------------
(* The order of the holes                                                  *)

(* The largest first, or from one end of the memory to the other.          *)
KeyOrder(size) ==
  {e \in Node \X Node : IF size THEN HoleSize[e[1]] >= HoleSize[e[2]]
                                ELSE HoleStart[e[1]] + HoleSize[e[1]] <= HoleStart[e[2]]}

(* These orders are transitive.                                            *)
LEMMA KeyOrders ==
  /\ \A m \in Node : HoleSize[m] \in Nat /\ HoleSize[m] > 0 /\ HoleStart[m] \in Nat
  /\ \A m, n \in Node : /\ <<m, n>> \in KeyOrder(TRUE) <=> HoleSize[m] >= HoleSize[n]
                        /\ <<m, n>> \in KeyOrder(FALSE) <=> HoleStart[m] + HoleSize[m] <= HoleStart[n]
  /\ \A size \in BOOLEAN : Transitive(KeyOrder(size))
<1>1. \A m \in Node : HoleSize[m] \in Nat /\ HoleSize[m] > 0 /\ HoleStart[m] \in Nat
  BY HoleTreeConstants
<1>2. \A m, n \in Node : /\ <<m, n>> \in KeyOrder(TRUE) <=> HoleSize[m] >= HoleSize[n]
                         /\ <<m, n>> \in KeyOrder(FALSE) <=> HoleStart[m] + HoleSize[m] <= HoleStart[n]
  BY DEF KeyOrder
<1>3. Transitive(KeyOrder(TRUE))
  <2> SUFFICES ASSUME NEW x \in Node, NEW y \in Node, NEW z \in Node,
                      <<x, y>> \in KeyOrder(TRUE), <<y, z>> \in KeyOrder(TRUE)
               PROVE  <<x, z>> \in KeyOrder(TRUE)
    BY Zenon DEF Transitive
  <2>1. HoleSize[x] >= HoleSize[y] /\ HoleSize[y] >= HoleSize[z]
    BY Zenon, <1>2
  <2>2. HoleSize[x] >= HoleSize[z]
    BY <1>1, <2>1
  <2> QED BY Zenon, <1>2, <2>2
<1>4. Transitive(KeyOrder(FALSE))
  <2> SUFFICES ASSUME NEW x \in Node, NEW y \in Node, NEW z \in Node,
                      <<x, y>> \in KeyOrder(FALSE), <<y, z>> \in KeyOrder(FALSE)
               PROVE  <<x, z>> \in KeyOrder(FALSE)
    BY Zenon DEF Transitive
  <2>1. HoleStart[x] + HoleSize[x] <= HoleStart[y] /\ HoleStart[y] + HoleSize[y] <= HoleStart[z]
    BY Zenon, <1>2
  <2>2. HoleStart[x] + HoleSize[x] <= HoleStart[z]
    BY <1>1, <2>1
  <2> QED BY Zenon, <1>2, <2>2
<1> QED BY <1>1, <1>2, <1>3, <1>4

(* A new hole goes to the side of another on which it belongs: by its      *)
(* address because the two do not overlap.                                 *)
LEMMA HoleSideFits ==
  ASSUME NEW n \in Node, NEW m \in Node, Clear(n, m), by_size \in BOOLEAN
  PROVE  HoleSide(n, m) \in Side /\ Precedes(KeyOrder(by_size), HoleSide(n, m), n, m)
<1>1. /\ HoleSize[n] \in Nat /\ HoleSize[n] > 0 /\ HoleStart[n] \in Nat
      /\ HoleSize[m] \in Nat /\ HoleSize[m] > 0 /\ HoleStart[m] \in Nat
  BY KeyOrders
<1>2. HoleSide(n, m) = IF GoesLeft(n, m) THEN "left" ELSE "right"
  BY DEF HoleSide
<1>3. IF GoesLeft(n, m) THEN <<n, m>> \in KeyOrder(by_size) ELSE <<m, n>> \in KeyOrder(by_size)
  <2>1. CASE by_size = TRUE
    <3>1. GoesLeft(n, m) <=> HoleSize[n] > HoleSize[m]
      BY <2>1 DEF GoesLeft
    <3>2. /\ <<n, m>> \in KeyOrder(by_size) <=> HoleSize[n] >= HoleSize[m]
          /\ <<m, n>> \in KeyOrder(by_size) <=> HoleSize[m] >= HoleSize[n]
      BY Zenon, <2>1, KeyOrders
    <3> QED BY <1>1, <3>1, <3>2
  <2>2. CASE by_size = FALSE
    <3>1. GoesLeft(n, m) <=> HoleStart[n] < HoleStart[m]
      BY <2>2 DEF GoesLeft
    <3>2. /\ <<n, m>> \in KeyOrder(by_size) <=> HoleStart[n] + HoleSize[n] <= HoleStart[m]
          /\ <<m, n>> \in KeyOrder(by_size) <=> HoleStart[m] + HoleSize[m] <= HoleStart[n]
      BY Zenon, <2>2, KeyOrders
    <3> QED BY <1>1, <3>1, <3>2 DEF Clear
  <2> QED BY <2>1, <2>2
<1> QED BY <1>2, <1>3, LeftRight DEF Precedes

(* The nodes are a search tree by size or address, and a red-black tree    *)
(* but for what the loop in progress has to make good.                     *)
HoleOk(t, below, size) ==
  Shape(t, below) /\ FirstIs(t, below, t.leftmost) /\ Ordered(t, below, KeyOrder(size))

HoleInv ==
  /\ by_size \in BOOLEAN
  /\ \E below, hb : HoleOk(tree, below, by_size) /\ Loops(tree, pc, node, parent, hb)

(* The nodes in the tree.                                                  *)
LEMMA LinkedIn == Linked = In(tree) /\ \A n \in Node : InTree(n) <=> n \in In(tree)
BY DEF Linked, InTree, In

(* What an insertion does, step by step.                                   *)
InsertIs(n, path, p, d, leftmost) ==
  /\ pc = "idle" /\ n \in Node /\ n \notin In(tree) /\ \A m \in In(tree) : Clear(n, m)
  /\ path = HoleDescent(tree, n) /\ p = (IF path = <<>> THEN Nil ELSE path[Len(path)])
  /\ d = (IF p = Nil THEN "left" ELSE HoleSide(n, p))
  /\ leftmost \in BOOLEAN /\ leftmost = (\A k \in 1..Len(path) : GoesLeft(n, path[k]))
  /\ tree' = Link(tree, n, p, d, leftmost)
  /\ pc' = "insert" /\ node' = n /\ parent' = p

(* There are such steps.                                                   *)
LEMMA InsertParts ==
  ASSUME NEW n \in Node, InsertHole(n)
  PROVE  by_size' = by_size /\ \E path, p, d, leftmost : InsertIs(n, path, p, d, leftmost)
<1>1. PICK path : path = HoleDescent(tree, n)
  OBVIOUS
<1>2. PICK p : p = IF path = <<>> THEN Nil ELSE path[Len(path)]
  OBVIOUS
<1>3. PICK d : d = IF p = Nil THEN "left" ELSE HoleSide(n, p)
  OBVIOUS
<1>4. PICK leftmost \in BOOLEAN : leftmost = \A k \in 1..Len(path) : GoesLeft(n, path[k])
  BY Zenon
<1>5. /\ pc = "idle" /\ ~InTree(n) /\ (\A m \in Linked : Clear(n, m)) /\ by_size' = by_size
      /\ tree' = Link(tree, n, p, d, leftmost) /\ Fixup("insert", n, p)
  BY Zenon, <1>1, <1>2, <1>3, <1>4 DEF InsertHole
<1>6. pc' = "insert" /\ node' = n /\ parent' = p
  BY <1>5 DEF Fixup
<1>7. n \notin In(tree) /\ \A m \in In(tree) : Clear(n, m)
  BY Zenon, <1>5, LinkedIn
<1>8. InsertIs(n, path, p, d, leftmost)
  BY Zenon, <1>1, <1>2, <1>3, <1>4, <1>5, <1>6, <1>7 DEF InsertIs
<1> QED BY <1>5, <1>8

(* p and d are a place for n on its side of every node on the way to it.   *)
HolePlaced(below, n, path, p, d) ==
  /\ Room(tree, n, p, d) /\ p \in Node \cup {Nil} /\ p # n
  /\ IF p = Nil THEN path = <<>>
     ELSE /\ path \in Seq(Node)
          /\ \A k : k \in ToSet(path) <=> k \in In(tree) /\ p \in below[k]
  /\ \A m \in Node, e \in Side :
       p \in below[tree.child[e][m]] \/ (m = p /\ e = d) => m \in In(tree) /\ e = HoleSide(n, m)

(* The way down from the root ends at one.                                 *)
LEMMA InsertPlace ==
  ASSUME NEW below, Shape(tree, below), NEW n, NEW path, NEW p, NEW d, NEW leftmost,
         InsertIs(n, path, p, d, leftmost)
  PROVE  HolePlaced(below, n, path, p, d)
<1>1. n \in Node /\ n \notin In(tree)
  BY DEF InsertIs
<1>2. PICK side : side = [m \in Node |-> HoleSide(n, m)]
  BY Zenon
<1>3. side \in [Node -> Side] /\ \A m \in Node : side[m] = HoleSide(n, m)
  BY <1>2, LeftRight DEF HoleSide
<1>4. PICK down : DescentIs(tree, side, down)
  BY <1>3, DescentSteps
<1>5. path = down[tree.root]
  BY Zenon, <1>2, <1>4 DEF InsertIs, HoleDescent, DescentIs
<1>6. CASE tree.root = Nil
  <2>1. path = <<>>
    BY <1>4, <1>5, <1>6 DEF DescentIs
  <2>2. p = Nil /\ d = "left"
    BY <2>1 DEF InsertIs
  <2>3. ASSUME NEW m \in Node, NEW e \in Side PROVE p \notin below[tree.child[e][m]]
    BY <2>2, RbTreeConstants, BelowParts
  <2>4. \A m \in Node : m # p
    BY <2>2, RbTreeConstants
  <2>5. p # n
    BY <1>1, <2>4
  <2> QED BY <1>1, <1>6, <2>1, <2>2, <2>3, <2>4, <2>5, LeftRight DEF HolePlaced, Room
<1>7. CASE tree.root # Nil
  <2>1. tree.root \in In(tree) /\ below[tree.root] = In(tree)
    BY <1>7 DEF Shape, Trees, In, Subtrees
  <2>2. PICK w : WayDownIs(tree, below, side, tree.root, path, w)
    BY <1>3, <1>4, <1>5, <2>1, WaysDown
  <2>3. /\ path \in Seq(Node) /\ Len(path) > 0 /\ w = path[Len(path)]
        /\ w \in In(tree) /\ tree.child[side[w]][w] = Nil
        /\ \A k \in In(tree), e \in Side : w \in below[tree.child[e][k]] => e = side[k]
        /\ \A k : k \in ToSet(path) <=> k \in In(tree) /\ w \in below[k]
    BY <2>1, <2>2 DEF WayDownIs
  <2>4. path # <<>>
    BY <2>3
  <2>5. w \in Node /\ w # Nil
    BY <2>3, InNode
  <2>6. p = w /\ d = side[w] /\ d \in Side
    BY <1>3, <2>3, <2>4, <2>5 DEF InsertIs
  <2>7. ASSUME NEW m \in Node, NEW e \in Side, p \in below[tree.child[e][m]]
        PROVE  m \in In(tree) /\ e = side[m]
    <3>1. tree.child[e][m] # Nil
      BY <2>7 DEF Shape, Subtrees
    <3>2. m \in In(tree)
      BY <3>1, ChildFacts
    <3> QED BY <2>3, <2>6, <2>7, <3>2
  <2>8. p # n
    BY <1>1, <2>3, <2>6
  <2> QED BY <1>1, <1>3, <2>3, <2>5, <2>6, <2>7, <2>8 DEF HolePlaced, Room
<1> QED BY <1>6, <1>7

(* leftmost, as the code computes it, tells whether n is the first one.    *)
LEMMA InsertFirst ==
  ASSUME NEW below, Shape(tree, below), NEW n, NEW path, NEW p, NEW d, NEW leftmost,
         InsertIs(n, path, p, d, leftmost), HolePlaced(below, n, path, p, d),
         NEW first, FirstIs(tree, below, first)
  PROVE  leftmost = (p = Nil \/ (p = first /\ d = "left"))
<1>1. p \in Node \cup {Nil} /\ d \in Side /\ IF p = Nil THEN tree.root = Nil ELSE p \in In(tree) /\ tree.child[d][p] = Nil
  BY DEF HolePlaced, Room
<1>2. \A m \in Node, e \in Side :
        p \in below[tree.child[e][m]] \/ (m = p /\ e = d) => m \in In(tree) /\ e = HoleSide(n, m)
  BY Zenon DEF HolePlaced
<1>3. \A m : GoesLeft(n, m) <=> HoleSide(n, m) = "left"
  BY DEF HoleSide
<1>4. leftmost \in BOOLEAN /\ (leftmost <=> \A k \in 1..Len(path) : HoleSide(n, path[k]) = "left")
  BY <1>3 DEF InsertIs
<1>5. CASE p = Nil
  <2>1. path = <<>>
    BY <1>5 DEF HolePlaced
  <2>2. leftmost
    BY <1>4, <2>1
  <2> QED BY <1>4, <1>5, <2>2
<1>6. CASE p # Nil
  <2>1. /\ path \in Seq(Node)
        /\ \A k : k \in ToSet(path) <=> k \in In(tree) /\ p \in below[k]
    BY <1>6 DEF HolePlaced
  <2>2. leftmost <=> \A k \in In(tree) : p \in below[k] => HoleSide(n, k) = "left"
    <3>1. ToSet(path) = {path[k] : k \in 1..Len(path)}
      BY <2>1 DEF ToSet
    <3> QED BY <1>4, <2>1, <3>1
  <2>3. p \in In(tree) /\ p \in Node /\ p \in below[p] /\ tree.child[d][p] = Nil
    BY <1>1, <1>6, BelowParts
  <2>4. HoleSide(n, p) = d
    BY <1>1, <1>2, <2>3
  <2>5. tree.root # Nil /\ tree.root \in In(tree) /\ below[tree.root] = In(tree)
    <3>1. below[tree.root] = In(tree) /\ below[Nil] = {}
      BY DEF Shape, Subtrees
    <3>2. tree.root # Nil
      BY <2>3, <3>1
    <3> QED BY <3>1, <3>2 DEF Shape, Trees, In
  <2>6. ASSUME leftmost PROVE p = first /\ d = "left"
    <3>1. d = "left"
      BY <2>2, <2>3, <2>4, <2>6
    <3>2. ASSUME NEW m \in In(tree), p \in below[tree.child["right"][m]] PROVE FALSE
      <4>1. m \in Node
        BY <3>2, InNode
      <4>2. HoleSide(n, m) = "right"
        BY <1>2, <3>2, <4>1, LeftRight
      <4>3. p \in below[m]
        BY <3>2, <4>1, LeftRight, BelowParts
      <4> QED BY <2>2, <2>6, <4>2, <4>3
    <3>3. OuterIs(tree, below, tree.root, "left", p)
      BY <2>3, <2>5, <3>1, <3>2, LeftRight DEF OuterIs
    <3>4. OuterIs(tree, below, tree.root, "left", first)
      BY <2>5, FirstIsOuter
    <3> QED BY <2>5, <3>1, <3>3, <3>4, LeftRight, OneOuter
  <2>7. ASSUME p = first, d = "left", NEW k \in In(tree), p \in below[k]
        PROVE  HoleSide(n, k) = "left"
    <3>1. CASE k = p
      BY <2>4, <2>7, <3>1
    <3>2. CASE k # p
      <4>1. k \in Node
        BY InNode
      <4>2. PICK e \in Side : p \in below[tree.child[e][k]]
        BY <2>7, <3>2, <4>1, BelowParts
      <4>3. e # "right"
        BY <2>5, <2>7, <4>1, <4>2 DEF FirstIs
      <4> QED BY <1>2, <4>1, <4>2, <4>3 DEF Side
    <3> QED BY <3>1, <3>2
  <2>8. leftmost <=> p = first /\ d = "left"
    BY <2>2, <2>6, <2>7
  <2> QED BY <1>4, <1>6, <2>8
<1> QED BY <1>5, <1>6

(* After the step n is in the tree too, and the tree is in the order R.    *)
HoleAdded(below, n, R) ==
  \E B, h : /\ Shape(tree', B) /\ Ordered(tree', B, R) /\ Loops(tree', pc', node', parent', h)
            /\ FirstIs(tree, below, tree.leftmost) => FirstIs(tree', B, tree'.leftmost)
            /\ \A m \in Node : m \in In(tree') <=> m \in In(tree) \/ m = n

(* An insertion keeps what there is, and every order in which the new hole *)
(* has its place.                                                          *)
LEMMA InsertAdds ==
  ASSUME NEW below, Shape(tree, below), NEW hb, Loops(tree, pc, node, parent, hb),
         NEW n \in Node, InsertHole(n), NEW R, Ordered(tree, below, R),
         \A m \in In(tree) : Precedes(R, HoleSide(n, m), n, m)
  PROVE  HoleAdded(below, n, R)
<1>1. PICK path, p, d, leftmost : InsertIs(n, path, p, d, leftmost)
  BY InsertParts
<1>2. HolePlaced(below, n, path, p, d)
  BY <1>1, InsertPlace
<1>3. Room(tree, n, p, d) /\ p \in Node \cup {Nil} /\ p # n /\ d \in Side
  BY <1>2 DEF HolePlaced, Room
<1>4. PICK u : u = tree'
  OBVIOUS
<1>5. Added(tree, u, n, p, d) /\ AddedRest(tree, u, n, leftmost)
  <2>1. tree \in Trees /\ leftmost \in BOOLEAN /\ u = Link(tree, n, p, d, leftmost)
    BY <1>1, <1>4 DEF InsertIs, Shape
  <2> QED BY <1>3, <2>1, LinkFields
<1>6. PICK B : B = AddedBelow(below, n, p)
  OBVIOUS
<1>7. Shape(u, B)
  BY <1>3, <1>5, <1>6, AddKeepsShape
<1>8. Ordered(u, B, R)
  <2>1. ASSUME NEW m \in Node, NEW e \in Side, p \in below[tree.child[e][m]] \/ (m = p /\ e = d)
        PROVE  Precedes(R, e, n, m)
    <3>1. m \in In(tree) /\ e = HoleSide(n, m)
      BY Zenon, <1>2, <2>1 DEF HolePlaced
    <3> QED BY <3>1
  <2> QED BY <1>3, <1>5, <1>6, <2>1, AddKeepsOrder
<1>9. RedsOk(tree, Nil) /\ Paths(tree, hb, Nil, "left")
  <2>1. pc = "idle"
    BY <1>1 DEF InsertIs
  <2> QED BY <2>1 DEF Loops
<1>10. PICK h : Loops(u, "insert", n, p, h)
  BY <1>3, <1>5, <1>9, AddKeepsLoops
<1>11. Loops(tree', pc', node', parent', h)
  BY <1>1, <1>4, <1>10 DEF InsertIs
<1>12. \A m \in Node : m \in In(u) <=> m \in In(tree) \/ m = n
  BY <1>3, <1>5, <1>6, AddFacts DEF AddFields
<1>13. ASSUME FirstIs(tree, below, tree.leftmost) PROVE FirstIs(u, B, u.leftmost)
  <2>1. PICK f : f = IF p = Nil \/ (p = tree.leftmost /\ d = "left") THEN n ELSE tree.leftmost
    OBVIOUS
  <2>2. FirstIs(u, B, f)
    BY <1>3, <1>5, <1>6, <1>13, <2>1, AddKeepsFirst
  <2>3. leftmost = (p = Nil \/ (p = tree.leftmost /\ d = "left"))
    BY <1>1, <1>2, <1>13, InsertFirst
  <2>4. u.leftmost = f
    BY <1>5, <2>1, <2>3 DEF AddedRest
  <2> QED BY <2>2, <2>4
<1> QED BY <1>4, <1>7, <1>8, <1>11, <1>12, <1>13 DEF HoleAdded

(* Nodes of one hole are in the same order to all others.                  *)
LEMMA SameHole ==
  ASSUME NEW old \in Node, NEW new \in Node, HoleSize[old] = HoleSize[new],
         HoleStart[old] = HoleStart[new], by_size \in BOOLEAN
  PROVE  Respects(KeyOrder(by_size), Swap(old, new))
<1>1. PICK r : r = Swap(old, new)
  OBVIOUS
<1>2. ASSUME NEW x \in Node
      PROVE  r[x] \in Node /\ HoleStart[r[x]] = HoleStart[x] /\ HoleSize[r[x]] = HoleSize[x]
  BY <1>1 DEF Swap
<1>3. ASSUME NEW x \in Node, NEW y \in Node
      PROVE  <<x, y>> \in KeyOrder(by_size) <=> <<r[x], r[y]>> \in KeyOrder(by_size)
  <2>1. /\ r[x] \in Node /\ HoleStart[r[x]] = HoleStart[x] /\ HoleSize[r[x]] = HoleSize[x]
        /\ r[y] \in Node /\ HoleStart[r[y]] = HoleStart[y] /\ HoleSize[r[y]] = HoleSize[y]
    BY <1>2
  <2>2. CASE by_size = TRUE
    BY <2>1, <2>2, KeyOrders
  <2>3. CASE by_size = FALSE
    BY <2>1, <2>3, KeyOrders
  <2> QED BY <2>2, <2>3
<1> QED BY <1>1, <1>3 DEF Respects

(* The empty tree.                                                         *)
LEMMA InitHoles ==
  ASSUME HoleInit
  PROVE  HoleInv
<1>1. RbInit /\ by_size \in BOOLEAN
  BY DEF HoleInit
<1>2. PICK below, hb : /\ Shape(tree, below) /\ FirstIs(tree, below, tree.leftmost)
                       /\ Loops(tree, pc, node, parent, hb)
  BY <1>1, InitTree DEF TreeInv, TreeOk
<1>3. \A m \in Node, d \in Side : below[tree.child[d][m]] = {}
  BY <1>1, <1>2 DEF RbInit, EmptyTree, Shape, Subtrees
<1>4. Ordered(tree, below, KeyOrder(by_size))
  BY <1>3 DEF Ordered
<1> QED BY <1>1, <1>2, <1>4 DEF HoleInv, HoleOk

(* One case per operation, and one for the steps of rebalancing.           *)
LEMMA StepKeepsHoles ==
  ASSUME HoleInv, [HoleNext]_holeVars
  PROVE  HoleInv'
<1>1. PICK below, hb : HoleOk(tree, below, by_size) /\ Loops(tree, pc, node, parent, hb)
  BY DEF HoleInv
<1>2. /\ Shape(tree, below) /\ FirstIs(tree, below, tree.leftmost)
      /\ Ordered(tree, below, KeyOrder(by_size))
      /\ by_size \in BOOLEAN /\ Transitive(KeyOrder(by_size))
  BY <1>1, KeyOrders DEF HoleOk, HoleInv
<1>3. SUFFICES by_size' = by_size /\ \E B, h : /\ HoleOk(tree', B, by_size)
                                               /\ Loops(tree', pc', node', parent', h)
  BY <1>2 DEF HoleInv
<1>4. ASSUME NEW n \in Node, InsertHole(n)
      PROVE  HoleAdded(below, n, KeyOrder(by_size))
  <2>1. \A m \in In(tree) : Clear(n, m)
    BY Zenon, <1>4, LinkedIn DEF InsertHole
  <2>2. ASSUME NEW m \in In(tree) PROVE Precedes(KeyOrder(by_size), HoleSide(n, m), n, m)
    BY <1>2, <2>1, InNode, HoleSideFits
  <2> QED BY <1>1, <1>2, <1>4, <2>2, InsertAdds
<1>5. ASSUME NEW n \in Node, RmHole(n)
      PROVE  \E B, h : HoleOk(tree', B, by_size) /\ Loops(tree', pc', node', parent', h)
  <2>1. Erased(below, n)
    BY <1>1, <1>2, <1>5, EraseKeeps DEF RmHole
  <2> QED BY <1>2, <2>1 DEF Erased, Lessened, HoleOk
<1>6. ASSUME NEW old \in Node, NEW new \in Node, ReplaceHole(old, new)
      PROVE  \E B, h : HoleOk(tree', B, by_size) /\ Loops(tree', pc', node', parent', h)
  <2>1. HoleSize[old] = HoleSize[new] /\ HoleStart[old] = HoleStart[new] /\ ReplaceNode(old, new)
    BY <1>6 DEF ReplaceHole
  <2>2. Substituted(below, old, new)
    BY <1>1, <1>2, <2>1, ReplaceKeeps
  <2>3. Respects(KeyOrder(by_size), Swap(old, new))
    BY <1>2, <2>1, SameHole
  <2> QED BY <1>2, <2>2, <2>3 DEF Substituted, HoleOk
<1>7. CASE Recolour
  <2>1. Rebalanced(below)
    BY <1>1, <1>2, <1>7, RebalanceKeeps DEF Recolour
  <2>2. by_size' = by_size
    BY <1>7 DEF Recolour
  <2> QED BY <1>2, <2>1, <2>2 DEF Rebalanced, Kept, HoleOk
<1>8. CASE UNCHANGED holeVars
  <2>1. tree' = tree /\ pc' = pc /\ node' = node /\ parent' = parent /\ by_size' = by_size
    BY <1>8 DEF rbVars, holeVars
  <2> QED BY <1>1, <1>2, <2>1
<1>9. ASSUME NEW n \in Node, InsertHole(n)
      PROVE  /\ by_size' = by_size
             /\ \E B, h : HoleOk(tree', B, by_size) /\ Loops(tree', pc', node', parent', h)
  BY <1>2, <1>4, <1>9, InsertParts DEF HoleAdded, HoleOk
<1>10. /\ \A n \in Node : RmHole(n) => by_size' = by_size
       /\ \A old, new \in Node : ReplaceHole(old, new) => by_size' = by_size
  BY Zenon DEF RmHole, ReplaceHole
<1> QED BY <1>5, <1>6, <1>7, <1>8, <1>9, <1>10 DEF HoleNext

(* A tree of holes is a search tree in the order of its holes, and a       *)
(* red-black tree but for what the loop in progress has to make good.      *)
THEOREM HoleInvariant == HoleSpec => []HoleInv
<1>1. HoleInit => HoleInv
  BY InitHoles
<1>2. HoleInv /\ [HoleNext]_holeVars => HoleInv'
  BY StepKeepsHoles
<1> QED BY <1>1, <1>2, PTL DEF HoleSpec

(* The rules of rbtree.c hold for the trees of holes too, and the loops    *)
(* keep their invariants.                                                  *)
THEOREM HoleRedBlackCorrect == HoleSpec => []RedBlack
<1>1. HoleInv => RedBlack
  BY RedBlackHolds DEF HoleInv, HoleOk
<1> QED BY <1>1, HoleInvariant, PTL

(* Their children and parents agree, and the cached leftmost node, which   *)
(* is the largest hole of holes_size, is the first one in every state.     *)
THEOREM HoleLinksAgreeCorrect == HoleSpec => []LinksAgree
<1>1. HoleInv => LinksAgree
  BY LinksAgreeHolds DEF HoleInv, HoleOk
<1> QED BY <1>1, HoleInvariant, PTL

-----------------------------------------------------------------------------
(* The sequence of the holes                                               *)

(* A set of places with all before them is counted by its last.            *)
LEMMA PrefixCount ==
  ASSUME NEW N \in Nat, NEW G \in SUBSET (1..N), \A i, j \in 1..N : j \in G /\ i < j => i \in G
  PROVE  Cardinality(G) \in 0..N /\ \A k \in 1..N : k \in G <=> k <= Cardinality(G)
<1>1. CASE G = {}
  <2>1. Cardinality(G) = 0
    BY <1>1, FS_EmptySet
  <2> QED BY <1>1, <2>1
<1>2. CASE G # {}
  <2>1. PICK M : M \in G /\ \A y \in G : y <= M
    BY <1>2, GreatestPlace
  <2>2. M \in 1..N
    BY <2>1
  <2>3. G = 1..M
    <3>1. \A y \in G : y \in 1..N /\ y <= M
      BY <2>1
    <3>2. \A y \in 1..M : y \in 1..N /\ (y = M \/ y < M)
      BY <2>2
    <3>3. \A y \in 1..M : y \in G
      BY <2>1, <2>2, <3>2
    <3>4. \A y \in G : y \in 1..M
      BY <2>2, <3>1
    <3> QED BY Zenon, <3>3, <3>4
  <2>4. Cardinality(1..M) = M
    BY <2>2, FS_Interval
  <2>5. Cardinality(G) = M
    BY <2>3, <2>4
  <2> QED BY <2>2, <2>3, <2>5
<1> QED BY <1>1, <1>2

(* The order of a list with one more item.                                 *)
LEMMA InsertedOrder ==
  ASSUME NEW T, NEW s \in Seq(T), NEW k \in 1..Len(s) + 1, NEW x \in T, NEW w, w = InsertAt(s, k, x)
  PROVE  /\ \A c, d : Before(s, c, d) => Before(w, c, d)
         /\ \A j \in 1..Len(s) : IF j < k THEN Before(w, s[j], x) ELSE Before(w, x, s[j])
<1>1. PICK N \in Nat : N = Len(s)
  OBVIOUS
<1>2. Len(w) = N + 1 /\ \A j \in 1..N + 1 : w[j] = IF j < k THEN s[j] ELSE IF j = k THEN x ELSE s[j - 1]
  <2>1. /\ Len(InsertAt(s, k, x)) = Len(s) + 1
        /\ \A j \in 1..Len(s) + 1 :
             InsertAt(s, k, x)[j] = IF j < k THEN s[j] ELSE IF j = k THEN x ELSE s[j - 1]
    BY InsertAtItems
  <2> QED BY <1>1, <2>1
<1>3. k \in 1..N + 1 /\ w[k] = x
  BY <1>1, <1>2
<1>4. ASSUME NEW j \in 1..N PROVE j < k => j \in 1..N + 1 /\ w[j] = s[j]
  BY <1>2, <1>3
<1>5. ASSUME NEW j \in 1..N PROVE ~(j < k) => j + 1 \in 1..N + 1 /\ k < j + 1 /\ w[j + 1] = s[j]
  <2>1. ~(j < k) => j + 1 \in 1..N + 1 /\ ~(j + 1 < k) /\ j + 1 # k /\ (j + 1) - 1 = j /\ k < j + 1
    BY <1>3
  <2> QED BY <1>2, <2>1
<1>6. PICK at : at = [j \in 1..N |-> IF j < k THEN j ELSE j + 1]
  BY Zenon
<1>7. /\ \A j \in 1..N : at[j] \in 1..N + 1 /\ w[at[j]] = s[j]
      /\ \A i, j \in 1..N : i < j => at[i] < at[j]
  BY <1>3, <1>4, <1>5, <1>6
<1>8. ASSUME NEW c, NEW d, Before(s, c, d) PROVE Before(w, c, d)
  <2>1. PICK i \in 1..N, j \in 1..N : i < j /\ s[i] = c /\ s[j] = d
    BY <1>1, <1>8 DEF Before
  <2>2. at[i] < at[j] /\ at[i] \in 1..Len(w) /\ at[j] \in 1..Len(w) /\ w[at[i]] = c /\ w[at[j]] = d
    BY <1>2, <1>7, <2>1
  <2> QED BY Zenon, <2>2 DEF Before
<1>9. ASSUME NEW j \in 1..N PROVE IF j < k THEN Before(w, s[j], x) ELSE Before(w, x, s[j])
  BY <1>2, <1>3, <1>4, <1>5 DEF Before
<1> QED BY <1>1, <1>8, <1>9

(* A tree that is in one order is in every other that has it.              *)
LEMMA OrderedMore ==
  ASSUME NEW t, NEW below, Shape(t, below), NEW R, Ordered(t, below, R), NEW Q,
         \A x, y \in In(t) : <<x, y>> \in R => <<x, y>> \in Q
  PROVE  Ordered(t, below, Q)
<1> SUFFICES ASSUME NEW n \in Node, NEW d \in Side, NEW m \in below[t.child[d][n]]
             PROVE  Precedes(Q, d, m, n)
  BY DEF Ordered
<1>1. t.child[d][n] # Nil
  BY DEF Shape, Subtrees
<1>2. n \in In(t) /\ t.child[d][n] \in Node /\ t.child[d][n] \in In(t)
  BY <1>1, ChildFacts
<1>3. m \in In(t)
  BY <1>2, BelowIn
<1>4. Precedes(R, d, m, n)
  BY DEF Ordered
<1> QED BY <1>2, <1>3, <1>4 DEF Precedes

(* A new hole comes behind all that it is not to the left of.              *)
Behinds(s, n) == Cardinality({j \in 1..Len(s) : ~GoesLeft(n, s[j])})

(* They are those at the front.                                            *)
LEMMA BehindsAre ==
  ASSUME NEW s \in Seq(Node), InOrderOf(s, KeyOrder(by_size)), by_size \in BOOLEAN, NEW n \in Node
  PROVE  /\ Behinds(s, n) \in 0..Len(s)
         /\ \A j \in 1..Len(s) : ~GoesLeft(n, s[j]) <=> j <= Behinds(s, n)
<1>1. PICK N \in Nat : N = Len(s)
  OBVIOUS
<1>2. PICK G : G = {j \in 1..N : ~GoesLeft(n, s[j])}
  BY Zenon
<1>3. \A j \in 1..N : s[j] \in Node
  BY <1>1
<1>4. ASSUME NEW i \in 1..N, NEW j \in 1..N, j \in G, i < j PROVE i \in G
  <2>1. Before(s, s[i], s[j])
    BY <1>1, <1>4 DEF Before
  <2>2. <<s[i], s[j]>> \in KeyOrder(by_size)
    BY <2>1 DEF InOrderOf
  <2>3. PICK x \in Node, y \in Node : x = s[i] /\ y = s[j]
    BY <1>3
  <2>4. /\ HoleSize[n] \in Nat /\ HoleStart[n] \in Nat
        /\ HoleSize[x] \in Nat /\ HoleSize[x] > 0 /\ HoleStart[x] \in Nat
        /\ HoleSize[y] \in Nat /\ HoleStart[y] \in Nat
    BY KeyOrders
  <2>5. <<x, y>> \in KeyOrder(by_size) /\ ~GoesLeft(n, y)
    BY <1>2, <1>4, <2>2, <2>3
  <2>6. ~GoesLeft(n, x)
    <3>1. CASE by_size = TRUE
      <4>1. HoleSize[x] >= HoleSize[y]
        BY Zenon, <2>5, <3>1, KeyOrders
      <4> QED BY <2>4, <2>5, <3>1, <4>1 DEF GoesLeft
    <3>2. CASE by_size = FALSE
      <4>1. HoleStart[x] + HoleSize[x] <= HoleStart[y]
        BY Zenon, <2>5, <3>2, KeyOrders
      <4> QED BY <2>4, <2>5, <3>2, <4>1 DEF GoesLeft
    <3> QED BY <3>1, <3>2
  <2> QED BY <1>2, <2>3, <2>6
<1>5. Cardinality(G) \in 0..N /\ \A k \in 1..N : k \in G <=> k <= Cardinality(G)
  <2>1. G \in SUBSET (1..N)
    BY <1>2
  <2> QED BY <1>4, <2>1, PrefixCount
<1>6. Behinds(s, n) = Cardinality(G)
  BY Zenon, <1>1, <1>2 DEF Behinds
<1> QED BY <1>1, <1>2, <1>5, <1>6

(* The walk after an insertion.                                            *)
LEMMA InsertWalk ==
  ASSUME NEW below, HoleOk(tree, below, by_size), by_size \in BOOLEAN,
         NEW hb, Loops(tree, pc, node, parent, hb),
         NEW n \in Node, InsertHole(n), NEW s, s = InOrder(tree)
  PROVE  /\ s \in Seq(Node) /\ ~InList(s, n)
         /\ InOrder(tree') = InsertAt(s, 1 + Behinds(s, n), n)
<1>1. Shape(tree, below) /\ Ordered(tree, below, KeyOrder(by_size)) /\ Transitive(KeyOrder(by_size))
  BY KeyOrders DEF HoleOk
<1>2. Listing(s, In(tree)) /\ Ordered(tree, below, ListOrder(s)) /\ InOrderOf(s, KeyOrder(by_size))
  BY <1>1, InOrderIs
<1>3. s \in Seq(Node) /\ Distinct(s) /\ \A x : InList(s, x) <=> x \in In(tree)
  BY <1>2 DEF Listing
<1>4. ~InList(s, n)
  <2>1. n \notin In(tree)
    BY Zenon, LinkedIn DEF InsertHole
  <2> QED BY <1>3, <2>1
<1>5. PICK c : c = Behinds(s, n)
  OBVIOUS
<1>6. c \in 0..Len(s) /\ \A j \in 1..Len(s) : ~GoesLeft(n, s[j]) <=> j <= c
  BY <1>2, <1>3, <1>5, BehindsAre
<1>7. PICK k : k = 1 + c
  OBVIOUS
<1>8. k \in 1..Len(s) + 1 /\ \A j \in 1..Len(s) : ~GoesLeft(n, s[j]) <=> j < k
  <2>1. PICK N \in Nat : N = Len(s)
    BY <1>3
  <2> QED BY <1>6, <1>7, <2>1
<1>9. PICK z : z = InsertAt(s, k, n)
  OBVIOUS
<1>10. /\ z \in Seq(Node) /\ Distinct(z) /\ \A x : InList(z, x) <=> InList(s, x) \/ x = n
  BY <1>3, <1>4, <1>8, <1>9, InsertAtOrder
<1>11. /\ \A x, y : Before(s, x, y) => Before(z, x, y)
       /\ \A j \in 1..Len(s) : IF j < k THEN Before(z, s[j], n) ELSE Before(z, n, s[j])
  BY <1>3, <1>8, <1>9, InsertedOrder
<1>12. Ordered(tree, below, ListOrder(z))
  <2>1. \A x, y \in In(tree) : <<x, y>> \in ListOrder(s) => <<x, y>> \in ListOrder(z)
    BY <1>11, InNode, ListOrderIs
  <2> QED BY <1>1, <1>2, <2>1, OrderedMore
<1>13. ASSUME NEW m \in In(tree) PROVE Precedes(ListOrder(z), HoleSide(n, m), n, m)
  <2>1. PICK j \in 1..Len(s) : s[j] = m
    BY <1>3 DEF InList
  <2>2. m \in Node
    BY InNode
  <2>3. CASE GoesLeft(n, m)
    <3>1. Before(z, n, m)
      BY <1>8, <1>11, <2>1, <2>3
    <3>2. <<n, m>> \in ListOrder(z)
      BY <2>2, <3>1, ListOrderIs
    <3> QED BY <2>3, <3>2 DEF HoleSide, Precedes
  <2>4. CASE ~GoesLeft(n, m)
    <3>1. Before(z, m, n)
      BY <1>8, <1>11, <2>1, <2>4
    <3>2. <<m, n>> \in ListOrder(z)
      BY <2>2, <3>1, ListOrderIs
    <3> QED BY <2>4, <3>2 DEF HoleSide, Precedes
  <2> QED BY <2>3, <2>4
<1>14. HoleAdded(below, n, ListOrder(z))
  BY <1>1, <1>12, <1>13, InsertAdds
<1>15. PICK B : /\ Shape(tree', B) /\ Ordered(tree', B, ListOrder(z))
                /\ \A m \in Node : m \in In(tree') <=> m \in In(tree) \/ m = n
  BY <1>14 DEF HoleAdded
<1>16. Listing(z, In(tree'))
  <2>1. \A m : m \in In(tree') \/ m \in In(tree) => m \in Node
    BY InNode
  <2> QED BY <1>3, <1>10, <1>15, <2>1 DEF Listing
<1>17. InOrder(tree') = z
  BY <1>15, <1>16, OneOrder
<1> QED BY <1>3, <1>4, <1>5, <1>7, <1>9, <1>17

(* The walk after an erasure.                                              *)
LEMMA EraseWalk ==
  ASSUME NEW below, Shape(tree, below), NEW hb, Loops(tree, pc, node, parent, hb),
         NEW n \in Node, Erase(n), NEW s, s = InOrder(tree)
  PROVE  s \in Seq(Node) /\ InList(s, n) /\ InOrder(tree') = ListRemove(s, n)
<1>1. Listing(s, In(tree)) /\ Ordered(tree, below, ListOrder(s))
  BY InOrderIs
<1>2. s \in Seq(Node) /\ Distinct(s) /\ \A x : InList(s, x) <=> x \in In(tree)
  BY <1>1 DEF Listing
<1>3. InList(s, n)
  <2>1. n \in In(tree)
    BY Zenon, LinkedIn DEF Erase
  <2> QED BY <1>2, <2>1
<1>4. PICK B : Lessened(tree, below, tree', B, n)
  BY EraseKeeps DEF Erased
<1>5. Shape(tree', B) /\ Ordered(tree', B, ListOrder(s)) /\ Transitive(ListOrder(s))
  <2>1. Transitive(ListOrder(s))
    BY <1>2, ListOrderTransitive
  <2> QED BY <1>1, <1>4, <2>1 DEF Lessened
<1>6. PICK w, z : w = InOrder(tree') /\ z = ListRemove(s, n)
  OBVIOUS
<1>7. Listing(w, In(tree')) /\ InOrderOf(w, ListOrder(s))
  BY <1>5, <1>6, InOrderIs
<1>8. /\ z \in Seq(Node) /\ Distinct(z) /\ \A c : InList(z, c) <=> InList(s, c) /\ c # n
      /\ \A c, d : Before(z, c, d) <=> Before(s, c, d) /\ c # n /\ d # n
  BY <1>2, <1>3, <1>6, ListRemoveOrder
<1>9. \A x : x \in In(tree') <=> x \in In(tree) /\ x # n
  BY <1>4, InNode DEF Lessened
<1>10. Listing(z, In(tree'))
  BY <1>2, <1>8, <1>9 DEF Listing
<1>11. ASSUME NEW x, NEW y, Before(w, x, y) PROVE Before(z, x, y)
  <2>1. Before(s, x, y)
    BY <1>7, <1>11 DEF InOrderOf, ListOrder
  <2>2. InList(w, x) /\ InList(w, y)
    BY <1>11 DEF Before, InList
  <2>3. x # n /\ y # n
    BY <1>7, <1>9, <2>2 DEF Listing
  <2> QED BY <1>8, <2>1, <2>3
<1>12. w = z
  BY <1>7, <1>10, <1>11, OneList
<1> QED BY <1>2, <1>3, <1>6, <1>12

(* The items of a list in which one has taken the place of another.        *)
LEMMA ReplacedItems ==
  ASSUME NEW s \in Seq(Node), Distinct(s), NEW old \in Node, NEW new \in Node, InList(s, old),
         ~InList(s, new), NEW z, z = ListReplace(s, old, new)
  PROVE  /\ z \in Seq(Node) /\ Distinct(z) /\ Len(z) = Len(s)
         /\ \A x : InList(z, x) <=> (InList(s, x) /\ x # old) \/ x = new
         /\ \A k \in 1..Len(s) : z[k] = IF s[k] = old THEN new ELSE s[k]
<1>1. PICK N \in Nat : N = Len(s)
  OBVIOUS
<1>2. z = [k \in 1..N |-> IF s[k] = old THEN new ELSE s[k]]
  BY Zenon, <1>1 DEF ListReplace
<1>3. \A k \in 1..N : s[k] \in Node
  BY <1>1
<1>4. z \in [1..N -> Node] /\ \A k \in 1..N : z[k] = IF s[k] = old THEN new ELSE s[k]
  BY <1>2, <1>3
<1>5. z \in Seq(Node) /\ Len(z) = N
  BY <1>1, <1>4, SeqDef
<1>6. \A k \in 1..N : s[k] # new
  BY <1>1 DEF InList
<1>7. Distinct(z)
  <2>1. \A j, k \in 1..N : j # k => s[j] # s[k]
    BY <1>1 DEF Distinct
  <2> QED BY <1>4, <1>5, <1>6, <2>1 DEF Distinct
<1>8. PICK i \in 1..N : s[i] = old
  BY <1>1 DEF InList
<1>9. \A x : InList(z, x) <=> (InList(s, x) /\ x # old) \/ x = new
  <2>1. old # new
    BY <1>6, <1>8
  <2>2. ASSUME NEW x PROVE InList(z, x) <=> \E k \in 1..N : z[k] = x
    BY <1>5 DEF InList
  <2>3. ASSUME NEW x PROVE InList(s, x) <=> \E k \in 1..N : s[k] = x
    BY <1>1 DEF InList
  <2>4. z[i] = new
    BY <1>4, <1>8
  <2> QED BY <1>4, <1>8, <2>1, <2>2, <2>3, <2>4
<1> QED BY <1>1, <1>4, <1>5, <1>7, <1>9

(* The walk after one node has taken the place of another.                 *)
LEMMA ReplaceWalk ==
  ASSUME NEW below, Shape(tree, below), NEW hb, Loops(tree, pc, node, parent, hb),
         NEW old \in Node, NEW new \in Node, ReplaceNode(old, new), NEW s, s = InOrder(tree)
  PROVE  /\ s \in Seq(Node) /\ InList(s, old) /\ ~InList(s, new)
         /\ InOrder(tree') = ListReplace(s, old, new)
<1>1. Listing(s, In(tree)) /\ Ordered(tree, below, ListOrder(s))
  BY InOrderIs
<1>2. s \in Seq(Node) /\ Distinct(s) /\ \A x : InList(s, x) <=> x \in In(tree)
  BY <1>1 DEF Listing
<1>3. old \in In(tree) /\ new \notin In(tree)
  BY Zenon, LinkedIn DEF ReplaceNode
<1>4. InList(s, old) /\ ~InList(s, new)
  BY <1>2, <1>3
<1>5. PICK q : q = [x \in Node |-> IF x = new THEN old ELSE x]
  BY Zenon
<1>6. PICK R : R = {e \in Node \X Node : Before(s, q[e[1]], q[e[2]])}
  BY Zenon
<1>7. \A x, y \in Node : <<x, y>> \in R <=> Before(s, q[x], q[y])
  BY <1>6
<1>8. Respects(R, Swap(old, new))
  <2>1. PICK r : r = Swap(old, new)
    OBVIOUS
  <2>2. \A x \in Node : r[x] \in Node /\ q[r[x]] = q[x]
    BY <1>5, <2>1 DEF Swap
  <2>3. ASSUME NEW x \in Node, NEW y \in Node PROVE <<x, y>> \in R <=> <<r[x], r[y]>> \in R
    BY <1>7, <2>2
  <2> QED BY <2>1, <2>3 DEF Respects
<1>9. Ordered(tree, below, R)
  <2>1. ASSUME NEW x \in In(tree) PROVE x \in Node /\ q[x] = x
    BY <1>3, <1>5, InNode
  <2>2. \A x, y \in In(tree) : <<x, y>> \in ListOrder(s) => <<x, y>> \in R
    BY <1>7, <2>1, ListOrderIs
  <2> QED BY <1>1, <2>2, OrderedMore
<1>10. PICK B : /\ Shape(tree', B) /\ Ordered(tree', B, R)
                /\ \A m \in Node : m \in In(tree') <=> (m \in In(tree) /\ m # old) \/ m = new
  BY <1>8, <1>9, ReplaceKeeps DEF Substituted
<1>11. PICK z : z = ListReplace(s, old, new)
  OBVIOUS
<1>12. /\ z \in Seq(Node) /\ Distinct(z) /\ Len(z) = Len(s)
       /\ \A x : InList(z, x) <=> (InList(s, x) /\ x # old) \/ x = new
       /\ \A k \in 1..Len(s) : z[k] = IF s[k] = old THEN new ELSE s[k]
  BY <1>2, <1>4, <1>11, ReplacedItems
<1>13. \A x : x \in In(tree') <=> (x \in In(tree) /\ x # old) \/ x = new
  BY <1>10, InNode
<1>14. Listing(z, In(tree'))
  BY <1>2, <1>12, <1>13 DEF Listing
<1>15. Ordered(tree', B, ListOrder(z))
  <2>1. ASSUME NEW x \in In(tree'), NEW y \in In(tree'), <<x, y>> \in R
        PROVE  <<x, y>> \in ListOrder(z)
    <3>1. x \in Node /\ y \in Node /\ x # old /\ y # old
      BY <1>3, <1>13, InNode
    <3>2. PICK i \in 1..Len(s), j \in 1..Len(s) : i < j /\ s[i] = q[x] /\ s[j] = q[y]
      BY <1>7, <2>1, <3>1 DEF Before
    <3>3. z[i] = x /\ z[j] = y
      <4>1. \A v \in Node : q[v] = IF v = new THEN old ELSE v
        BY <1>5
      <4>2. z[i] = (IF s[i] = old THEN new ELSE s[i]) /\ z[j] = (IF s[j] = old THEN new ELSE s[j])
        BY <1>12
      <4> QED BY <3>1, <3>2, <4>1, <4>2
    <3>4. Before(z, x, y)
      BY Zenon, <1>12, <3>2, <3>3 DEF Before
    <3> QED BY <3>1, <3>4, ListOrderIs
  <2> QED BY <1>10, <2>1, OrderedMore
<1>16. InOrder(tree') = z
  BY <1>10, <1>14, <1>15, OneOrder
<1> QED BY <1>2, <1>4, <1>11, <1>16

(* No step of a rebalancing changes the walk.                              *)
LEMMA RebalanceWalk ==
  ASSUME NEW below, Shape(tree, below), NEW hb, Loops(tree, pc, node, parent, hb), Rebalance
  PROVE  InOrder(tree') = InOrder(tree)
<1>1. PICK s : s = InOrder(tree)
  OBVIOUS
<1>2. Listing(s, In(tree)) /\ Ordered(tree, below, ListOrder(s))
  BY <1>1, InOrderIs
<1>3. Transitive(ListOrder(s))
  BY <1>2, ListOrderTransitive DEF Listing
<1>4. PICK B : Kept(tree, below, tree', B)
  BY RebalanceKeeps DEF Rebalanced
<1>5. Shape(tree', B) /\ Ordered(tree', B, ListOrder(s)) /\ \A x : x \in In(tree') <=> x \in In(tree)
  BY <1>2, <1>3, <1>4, InNode DEF Kept
<1>6. Listing(s, In(tree'))
  BY <1>2, <1>5 DEF Listing
<1> QED BY <1>1, <1>5, <1>6, OneOrder

(* The empty tree has no walk.                                             *)
LEMMA EmptyWalk ==
  ASSUME RbInit
  PROVE  InOrder(tree) = <<>>
<1>1. PICK below : Shape(tree, below)
  BY InitTree DEF TreeInv, TreeOk
<1>2. PICK walk : WalkIs(tree, walk)
  BY <1>1, InOrderSteps
<1>3. tree.root = Nil
  BY DEF RbInit, EmptyTree
<1> QED BY <1>2, <1>3 DEF WalkIs

(* Each operation does to the walk what it does to the sequence.           *)
LEMMA SequenceOps ==
  ASSUME NEW s \in Seq(Node)
  PROVE  /\ \A n : Sorted!InList(s, n) <=> InList(s, n)
         /\ \A n \in Node : Sorted!ListRemove(s, n) = ListRemove(s, n)
         /\ \A old, new \in Node : Sorted!ListReplace(s, old, new) = ListReplace(s, old, new)
         /\ \A n \in Node : /\ Sorted!InsertBySize(s, n, HoleSize) =
                                 InsertAt(s, 1 + Cardinality({k \in 1..Len(s) : HoleSize[s[k]] >= HoleSize[n]}), n)
                            /\ Sorted!InsertByAddr(s, n, HoleStart) =
                                 InsertAt(s, 1 + Cardinality({k \in 1..Len(s) : HoleStart[s[k]] <= HoleStart[n]}), n)
<1>1. \A n : Sorted!InList(s, n) <=> InList(s, n)
  BY Zenon DEF Sorted!InList, InList
<1>2. \A n \in Node : Sorted!ListRemove(s, n) = ListRemove(s, n)
  BY Zenon DEF Sorted!ListRemove, Sorted!ListIndex, Sorted!RemoveAt, Sorted!Min, ListRemove, ListIndex, RemoveAt, Min
<1>3. \A old, new \in Node : Sorted!ListReplace(s, old, new) = ListReplace(s, old, new)
  BY Zenon DEF Sorted!ListReplace, ListReplace
<1>4. \A k : \A n \in Node : Sorted!InsertAt(s, k, n) = InsertAt(s, k, n)
  BY Zenon DEF Sorted!InsertAt, InsertAt
<1>5. \A n \in Node : /\ Sorted!InsertBySize(s, n, HoleSize) =
                           InsertAt(s, 1 + Cardinality({k \in 1..Len(s) : HoleSize[s[k]] >= HoleSize[n]}), n)
                      /\ Sorted!InsertByAddr(s, n, HoleStart) =
                           InsertAt(s, 1 + Cardinality({k \in 1..Len(s) : HoleStart[s[k]] <= HoleStart[n]}), n)
  <2>1. \A S : Sorted!Cardinality(S) = Cardinality(S)
    BY Zenon DEF Sorted!Cardinality, Cardinality
  <2> QED BY Zenon, <1>4, <2>1 DEF Sorted!InsertBySize, Sorted!InsertByAddr
<1> QED BY <1>1, <1>2, <1>3, <1>5

(* The new hole comes where the sequence has it.                           *)
LEMMA BehindsBy ==
  ASSUME NEW s \in Seq(Node), NEW n \in Node, by_size \in BOOLEAN
  PROVE  Behinds(s, n) = IF by_size THEN Cardinality({k \in 1..Len(s) : HoleSize[s[k]] >= HoleSize[n]})
                         ELSE Cardinality({k \in 1..Len(s) : HoleStart[s[k]] <= HoleStart[n]})
<1>1. \A k \in 1..Len(s) : s[k] \in Node
  OBVIOUS
<1>2. \A m \in Node : HoleSize[m] \in Nat /\ HoleStart[m] \in Nat
  BY KeyOrders
<1>3. CASE by_size = TRUE
  <2>1. \A m \in Node : ~GoesLeft(n, m) <=> HoleSize[m] >= HoleSize[n]
    BY <1>2, <1>3 DEF GoesLeft
  <2>2. {k \in 1..Len(s) : ~GoesLeft(n, s[k])} = {k \in 1..Len(s) : HoleSize[s[k]] >= HoleSize[n]}
    BY <1>1, <2>1
  <2> QED BY Zenon, <1>3, <2>2 DEF Behinds
<1>4. CASE by_size = FALSE
  <2>1. \A m \in Node : ~GoesLeft(n, m) <=> HoleStart[m] <= HoleStart[n]
    BY <1>2, <1>4 DEF GoesLeft
  <2>2. {k \in 1..Len(s) : ~GoesLeft(n, s[k])} = {k \in 1..Len(s) : HoleStart[s[k]] <= HoleStart[n]}
    BY <1>1, <2>1
  <2> QED BY Zenon, <1>4, <2>2 DEF Behinds
<1> QED BY <1>3, <1>4

(* Each step is a step of the sequence, or none.                           *)
LEMMA StepInSequence ==
  ASSUME HoleInv, [HoleNext]_holeVars
  PROVE  [Sorted!Next]_<<InOrder(tree), by_size>>
<1>1. PICK below, hb : HoleOk(tree, below, by_size) /\ Loops(tree, pc, node, parent, hb)
  BY DEF HoleInv
<1>2. Shape(tree, below) /\ by_size \in BOOLEAN
  BY <1>1 DEF HoleOk, HoleInv
<1>3. PICK s : s = InOrder(tree)
  OBVIOUS
<1>4. s \in Seq(Node)
  BY <1>2, <1>3, InOrderIs DEF Listing
<1>5. ASSUME NEW n \in Node, InsertHole(n) PROVE Sorted!Next
  <2>1. ~InList(s, n) /\ InOrder(tree') = InsertAt(s, 1 + Behinds(s, n), n)
    BY <1>1, <1>2, <1>3, <1>5, InsertWalk
  <2>2. InOrder(tree') = IF by_size THEN Sorted!InsertBySize(s, n, HoleSize)
                                    ELSE Sorted!InsertByAddr(s, n, HoleStart)
    BY <1>2, <1>4, <2>1, BehindsBy, SequenceOps
  <2>3. Sorted!Insert(n)
    BY Zenon, <1>3, <1>4, <2>1, <2>2, SequenceOps DEF Sorted!Insert
  <2>4. by_size' = by_size
    BY <1>5, InsertParts
  <2> QED BY Zenon, <2>3, <2>4 DEF Sorted!Next
<1>6. ASSUME NEW n \in Node, RmHole(n) PROVE Sorted!Next
  <2>1. InList(s, n) /\ InOrder(tree') = ListRemove(s, n)
    BY <1>1, <1>2, <1>3, <1>6, EraseWalk DEF RmHole
  <2>2. Sorted!Erase(n)
    BY Zenon, <1>3, <1>4, <2>1, SequenceOps DEF Sorted!Erase
  <2>3. by_size' = by_size
    BY <1>6 DEF RmHole
  <2> QED BY Zenon, <2>2, <2>3 DEF Sorted!Next
<1>7. ASSUME NEW old \in Node, NEW new \in Node, ReplaceHole(old, new) PROVE Sorted!Next
  <2>1. InList(s, old) /\ ~InList(s, new) /\ InOrder(tree') = ListReplace(s, old, new)
    BY <1>1, <1>2, <1>3, <1>7, ReplaceWalk DEF ReplaceHole
  <2>2. Sorted!Replace(old, new)
    BY Zenon, <1>3, <1>4, <2>1, SequenceOps DEF Sorted!Replace
  <2>3. by_size' = by_size
    BY <1>7 DEF ReplaceHole
  <2> QED BY Zenon, <2>2, <2>3 DEF Sorted!Next
<1>8. CASE Recolour
  <2>1. InOrder(tree') = InOrder(tree)
    BY <1>1, <1>2, <1>8, RebalanceWalk DEF Recolour
  <2>2. by_size' = by_size
    BY <1>8 DEF Recolour
  <2> QED BY Zenon, <2>1, <2>2
<1>9. CASE UNCHANGED holeVars
  <2>1. tree' = tree /\ by_size' = by_size
    BY <1>9 DEF rbVars, holeVars
  <2> QED BY <2>1
<1> QED BY <1>5, <1>6, <1>7, <1>8, <1>9 DEF HoleNext

(* What drm_mm does to a tree of holes is what DrmMm takes it for: linking *)
(* in, taking out and replacing in a sequence by size or by address.       *)
THEOREM HoleTreeRefines == HoleSpec => ImplementsSortedHoles
<1>1. HoleInit => Sorted!Init
  BY EmptyWalk DEF HoleInit, Sorted!Init
<1>2. HoleInv /\ [HoleNext]_holeVars => [Sorted!Next]_<<InOrder(tree), by_size>>
  BY StepInSequence
<1> QED BY <1>1, <1>2, HoleInvariant, PTL DEF HoleSpec, ImplementsSortedHoles, Sorted!Spec

-----------------------------------------------------------------------------
(* The searches                                                            *)

(* What best_hole does at a node, with the best hole so far.               *)
BestAt(x, f, m) ==
  [best \in Node \cup {Nil} |->
     IF m = Nil THEN best
     ELSE IF x <= HoleSize[m] THEN f[tree.child["right"][m]][m]
          ELSE f[tree.child["left"][m]][best]]

(* So everywhere.                                                          *)
BestIs(x, down) ==
  /\ \A m \in Node \cup {Nil} : down[m] = BestAt(x, down, m)
  /\ BestHole(x) = down[tree.root][Nil]

(* In a tree the recursive function does what its equation says.           *)
LEMMA BestSteps ==
  ASSUME NEW below, Shape(tree, below), NEW x
  PROVE  \E down : BestIs(x, down)
<1> DEFINE S == Node \cup {Nil}
           V == [S -> S]
           step(f, m) == BestAt(x, f, m)
           E == [m \in S |-> [f \in [S -> V] |-> step(f, m)]]
           iter == CHOOSE f : f = [m \in S |-> step(f, m)]
<1>1. PICK rank : rank = Height(tree, below)
  OBVIOUS
<1>2. PICK N \in Nat : /\ rank \in [S -> 0..N]
                       /\ \A m \in Node, e \in Side : rank[tree.child[e][m]] < rank[m]
  BY Zenon, <1>1, HeightRanks
<1>3. \A m \in Node, e \in Side : tree.child[e][m] \in S /\ rank[tree.child[e][m]] < rank[m]
  BY <1>2 DEF Shape, Trees
<1>4. E \in [S -> [[S -> V] -> V]]
  <2> SUFFICES ASSUME NEW m \in S, NEW f \in [S -> V] PROVE step(f, m) \in V
    BY Zenon
  <2> SUFFICES ASSUME NEW best \in S
               PROVE  (IF m = Nil THEN best
                       ELSE IF x <= HoleSize[m] THEN f[tree.child["right"][m]][m]
                            ELSE f[tree.child["left"][m]][best]) \in S
    BY Zenon DEF BestAt
  <2>1. CASE m = Nil
    BY <2>1
  <2>2. CASE m # Nil
    <3>1. m \in Node
      BY <2>2
    <3>2. f[tree.child["right"][m]] \in V /\ f[tree.child["left"][m]] \in V
      BY Zenon, <1>3, <3>1, LeftRight
    <3>3. f[tree.child["right"][m]][m] \in S /\ f[tree.child["left"][m]][best] \in S
      BY Zenon, <3>2
    <3> QED BY Zenon, <2>2, <3>3
  <2> QED BY <2>1, <2>2
<1>5. Founded(S, V, E, rank)
  <2> SUFFICES ASSUME NEW m \in S, NEW f \in [S -> V], NEW g \in [S -> V],
                      \A y \in S : rank[y] < rank[m] => f[y] = g[y]
               PROVE  step(f, m) = step(g, m)
    BY Zenon DEF Founded
  <2>1. m # Nil => \A e \in Side : f[tree.child[e][m]] = g[tree.child[e][m]]
    BY <1>3
  <2>2. m # Nil => /\ f[tree.child["right"][m]] = g[tree.child["right"][m]]
                   /\ f[tree.child["left"][m]] = g[tree.child["left"][m]]
    BY Zenon, <2>1, LeftRight
  <2> QED BY Zenon, <2>2 DEF BestAt
<1>6. PICK f : Solution(S, V, E, f)
  <2>0. V # {}
    <3>1. [m \in S |-> m] \in V
      OBVIOUS
    <3> QED BY Zenon, <3>1
  <2> HIDE DEF E, V
  <2>1. Recursive(S, V, E, N, rank)
    BY Zenon, <1>2, <1>4, <1>5, <2>0 DEF Recursive
  <2> QED BY <2>1, Recursion
<1>7. f = [m \in S |-> step(f, m)]
  <2>1. f \in [S -> V] /\ \A m \in S : f[m] = E[m][f]
    BY Zenon, <1>6 DEF Solution
  <2>2. \A m \in S : E[m][f] = step(f, m)
    BY Zenon, <2>1
  <2> HIDE DEF step, E, V
  <2> QED BY <2>1, <2>2
<1>8. iter = [m \in S |-> step(iter, m)]
  <2> HIDE DEF step
  <2> QED BY <1>7, Zenon
<1>9. \A m \in S : iter[m] = step(iter, m)
  <2> HIDE DEF step, iter
  <2> QED BY <1>8, Zenon
<1>10. BestHole(x) = iter[tree.root][Nil]
  BY Zenon DEF BestHole, BestAt, iter
<1> HIDE DEF iter
<1> QED BY Zenon, <1>9, <1>10 DEF BestIs

(* r is best, if no hole in K is large enough, and otherwise the last that *)
(* is, in the order L.                                                     *)
LastFit(K, L, x, best, r) ==
  \/ r = best /\ \A k \in K : ~(x <= HoleSize[k])
  \/ /\ r \in K /\ x <= HoleSize[r]
     /\ \A k \in K : x <= HoleSize[k] => k = r \/ <<k, r>> \in L

(* One node of the search.                                                 *)
LEMMA BestBelow ==
  ASSUME NEW t, NEW below, Shape(t, below), Ordered(t, below, KeyOrder(TRUE)),
         NEW L, Transitive(L), Ordered(t, below, L), NEW m \in In(t), NEW l, NEW r,
         l = t.child["left"][m], r = t.child["right"][m], NEW x \in Int, NEW best, NEW w,
         IF x <= HoleSize[m] THEN LastFit(below[r], L, x, m, w) ELSE LastFit(below[l], L, x, best, w)
  PROVE  LastFit(below[m], L, x, best, w)
<1>1. m \in Node
  BY InNode
<1>2. below[m] = {m} \cup below[l] \cup below[r]
  BY <1>1 DEF Shape, Subtrees
<1>3. \A k \in below[l] : k \in Node /\ <<k, m>> \in L
  <2>1. ASSUME NEW k \in below[l] PROVE k \in Node /\ Precedes(L, "left", k, m)
    BY <1>1, LeftRight, BelowParts DEF Ordered
  <2> QED BY <2>1 DEF Precedes
<1>4. \A k \in below[r] : k \in Node /\ <<m, k>> \in L /\ HoleSize[m] >= HoleSize[k]
  <2>1. ASSUME NEW k \in below[r]
        PROVE  k \in Node /\ Precedes(L, "right", k, m) /\ Precedes(KeyOrder(TRUE), "right", k, m)
    BY <1>1, LeftRight, BelowParts DEF Ordered
  <2> QED BY <1>1, <2>1, KeyOrders DEF Precedes
<1>5. HoleSize[m] \in Nat /\ \A k \in below[r] : HoleSize[k] \in Nat
  BY <1>1, <1>4, KeyOrders
<1>6. CASE x <= HoleSize[m]
  <2>1. LastFit(below[r], L, x, m, w)
    BY <1>6
  <2>2. CASE w = m /\ \A k \in below[r] : ~(x <= HoleSize[k])
    <3>1. \A k \in below[m] : x <= HoleSize[k] => k = w \/ <<k, w>> \in L
      BY <1>2, <1>3, <2>2
    <3>2. w \in below[m] /\ x <= HoleSize[w]
      BY <1>2, <1>6, <2>2
    <3> QED BY <3>1, <3>2 DEF LastFit
  <2>3. CASE /\ w \in below[r] /\ x <= HoleSize[w]
             /\ \A k \in below[r] : x <= HoleSize[k] => k = w \/ <<k, w>> \in L
    <3>1. w \in Node /\ <<m, w>> \in L
      BY <1>4, <2>3
    <3>2. \A k \in below[l] : <<k, w>> \in L
      BY <1>1, <1>3, <3>1 DEF Transitive
    <3>3. \A k \in below[m] : x <= HoleSize[k] => k = w \/ <<k, w>> \in L
      BY <1>2, <2>3, <3>1, <3>2
    <3>4. w \in below[m]
      BY <1>2, <2>3
    <3> QED BY <2>3, <3>3, <3>4 DEF LastFit
  <2> QED BY <2>1, <2>2, <2>3 DEF LastFit
<1>7. CASE ~(x <= HoleSize[m])
  <2>1. LastFit(below[l], L, x, best, w)
    BY <1>7
  <2>2. ASSUME NEW k \in below[r] PROVE ~(x <= HoleSize[k])
    <3>1. HoleSize[k] \in Nat /\ HoleSize[m] \in Nat /\ HoleSize[m] >= HoleSize[k]
      BY Zenon, <1>4, <1>5
    <3> QED BY <1>7, <3>1
  <2>3. \A k \in below[m] : k \in below[l] \/ ~(x <= HoleSize[k])
    BY <1>2, <1>7, <2>2
  <2>4. w \in below[l] => w \in below[m]
    BY <1>2
  <2> QED BY <2>1, <2>3, <2>4 DEF LastFit
<1> QED BY <1>6, <1>7

(* By induction from the leaves up.                                        *)
LEMMA BestFinds ==
  ASSUME NEW below, HoleOk(tree, below, TRUE), NEW L, Transitive(L), Ordered(tree, below, L),
         NEW x \in Int, NEW down, BestIs(x, down)
  PROVE  \A m \in In(tree), best \in Node \cup {Nil} : LastFit(below[m], L, x, best, down[m][best])
<1>1. PICK good : good = {m \in In(tree) : \A best \in Node \cup {Nil} :
                                             LastFit(below[m], L, x, best, down[m][best])}
  BY Zenon
<1>2. PICK B : B = {m \in In(tree) : m \notin good}
  BY Zenon
<1> SUFFICES ASSUME B # {} PROVE FALSE
  BY <1>1, <1>2
<1>3. Shape(tree, below) /\ Ordered(tree, below, KeyOrder(TRUE))
  BY DEF HoleOk
<1>4. PICK m \in B : \A e \in Side : tree.child[e][m] \notin B
  BY <1>2, <1>3, LowestOf
<1>5. m \in In(tree) /\ m \in Node /\ m # Nil /\ m \notin good
  BY <1>2, <1>4, InNode
<1>6. PICK l, r : l = tree.child["left"][m] /\ r = tree.child["right"][m]
  BY Zenon
<1>7. \A c \in {l, r} : \A best \in Node \cup {Nil} : LastFit(below[c], L, x, best, down[c][best])
  <2> SUFFICES ASSUME NEW c \in {l, r}, NEW best \in Node \cup {Nil}
               PROVE  LastFit(below[c], L, x, best, down[c][best])
    OBVIOUS
  <2>1. CASE c = Nil
    <3>1. below[c] = {}
      BY <1>3, <2>1 DEF Shape, Subtrees
    <3>2. down[c] = BestAt(x, down, c)
      BY Zenon, <2>1 DEF BestIs
    <3>3. down[c][best] = best
      BY Zenon, <2>1, <3>2 DEF BestAt
    <3> QED BY <3>1, <3>3 DEF LastFit
  <2>2. CASE c # Nil
    <3>1. PICK e \in Side : c = tree.child[e][m]
      BY <1>6, LeftRight
    <3>2. c \in In(tree)
      BY <1>3, <1>5, <2>2, <3>1, ChildFacts
    <3>3. c \in good
      BY <1>2, <1>4, <3>1, <3>2
    <3> QED BY <1>1, <3>3
  <2> QED BY <2>1, <2>2
<1>8. ASSUME NEW best \in Node \cup {Nil} PROVE LastFit(below[m], L, x, best, down[m][best])
  <2>1. PICK w : w = down[m][best]
    OBVIOUS
  <2>2. w = IF x <= HoleSize[m] THEN down[r][m] ELSE down[l][best]
    <3>1. down[m] = BestAt(x, down, m)
      BY <1>5 DEF BestIs
    <3> QED BY Zenon, <1>5, <1>6, <2>1, <3>1 DEF BestAt
  <2>3. IF x <= HoleSize[m] THEN LastFit(below[r], L, x, m, w) ELSE LastFit(below[l], L, x, best, w)
    BY Zenon, <1>5, <1>7, <2>2
  <2>4. LastFit(below[m], L, x, best, w)
    BY <1>3, <1>5, <1>6, <2>3, BestBelow
  <2> QED BY <2>1, <2>4
<1> QED BY <1>1, <1>5, <1>8

(* The search by size ends at the last hole that is large enough.          *)
LEMMA BestHoleHolds ==
  ASSUME NEW below, HoleOk(tree, below, TRUE)
  PROVE  BestHoleIsLast
<1>1. PICK s : s = InOrder(tree)
  OBVIOUS
<1> SUFFICES ASSUME NEW h \in Linked
             PROVE  BestHole(HoleSize[h]) =
                      s[Max({k \in 1..Len(s) : HoleSize[s[k]] >= HoleSize[h]})]
  BY Zenon, <1>1 DEF BestHoleIsLast
<1>2. PICK x : x = HoleSize[h]
  OBVIOUS
<1>3. Shape(tree, below) /\ h \in In(tree) /\ h \in Node
  BY LinkedIn, InNode DEF HoleOk
<1>4. x \in Int
  BY <1>2, <1>3, KeyOrders
<1>5. /\ s \in Seq(Node) /\ Distinct(s) /\ \A k : InList(s, k) <=> k \in In(tree)
      /\ Ordered(tree, below, ListOrder(s)) /\ Transitive(ListOrder(s))
  BY <1>1, <1>3, InOrderIs, ListOrderTransitive DEF Listing
<1>6. PICK r : r = BestHole(x)
  OBVIOUS
<1>7. LastFit(In(tree), ListOrder(s), x, Nil, r)
  <2>1. PICK down : BestIs(x, down)
    BY <1>3, BestSteps
  <2>2. below[tree.root] = In(tree) /\ tree.root \in In(tree)
    BY <1>3 DEF Shape, Subtrees, Trees, In
  <2>3. LastFit(below[tree.root], ListOrder(s), x, Nil, down[tree.root][Nil])
    BY <1>4, <1>5, <2>1, <2>2, BestFinds
  <2> QED BY <1>6, <2>1, <2>2, <2>3 DEF BestIs
<1>8. /\ r \in In(tree) /\ x <= HoleSize[r]
      /\ \A k \in In(tree) : x <= HoleSize[k] => k = r \/ Before(s, k, r)
  <2>1. x <= HoleSize[h]
    BY <1>2, <1>4
  <2> QED BY <1>3, <1>7, <2>1 DEF LastFit, ListOrder
<1>9. PICK N \in Nat : N = Len(s)
  BY <1>5
<1>10. PICK F : F = {k \in 1..N : HoleSize[s[k]] >= x}
  BY Zenon
<1>11. PICK i \in 1..N : s[i] = r
  BY <1>5, <1>8, <1>9 DEF InList
<1>12. \A k \in 1..N : HoleSize[s[k]] \in Nat /\ s[k] \in In(tree)
  <2>1. \A k \in 1..N : s[k] \in Node /\ InList(s, s[k])
    BY <1>5, <1>9 DEF InList
  <2> QED BY <1>5, <2>1, KeyOrders
<1>13. F \in SUBSET (1..N) /\ i \in F
  BY <1>4, <1>8, <1>10, <1>11, <1>12
<1>14. PICK M : M = Max(F)
  OBVIOUS
<1>15. M \in F /\ \A y \in F : y <= M
  BY <1>13, <1>14, GreatestPlace
<1>16. s[M] = r
  <2>1. M \in 1..N /\ i <= M /\ x <= HoleSize[s[M]]
    BY <1>4, <1>10, <1>12, <1>13, <1>15
  <2>2. ASSUME Before(s, s[M], r) PROVE FALSE
    <3>1. PICK a \in 1..N, b \in 1..N : a < b /\ s[a] = s[M] /\ s[b] = r
      BY <1>9, <2>2 DEF Before
    <3>2. a = M /\ b = i
      BY <1>5, <1>9, <1>11, <2>1, <3>1 DEF Distinct
    <3> QED BY <2>1, <3>1, <3>2
  <2> QED BY <1>8, <1>12, <2>1, <2>2
<1> QED BY Zenon, <1>2, <1>6, <1>9, <1>10, <1>14, <1>16

(* What find_hole does at a node.                                          *)
FindAt(addr, f, m) ==
  LET below == IF addr < HoleStart[m] THEN tree.child["left"][m]
               ELSE IF addr > HoleStart[m] + HoleSize[m] THEN tree.child["right"][m]
               ELSE Nil
  IN  IF below = Nil THEN m ELSE f[below]

(* So everywhere.                                                          *)
FindIs(addr, down) ==
  /\ \A m \in Node : down[m] = FindAt(addr, down, m)
  /\ tree.root # Nil => FindHole(addr) = down[tree.root]

(* In a tree the recursive function does what its equation says.           *)
LEMMA FindSteps ==
  ASSUME NEW below, Shape(tree, below), NEW addr
  PROVE  \E down : FindIs(addr, down)
<1> DEFINE V == Node \cup {Nil}
           step(f, n) == FindAt(addr, f, n)
           E == [n \in Node |-> [f \in [Node -> V] |-> step(f, n)]]
           iter == CHOOSE f : f = [n \in Node |-> step(f, n)]
<1>1. PICK full : full = Height(tree, below)
  OBVIOUS
<1>2. PICK N \in Nat : /\ full \in [Node \cup {Nil} -> 0..N]
                       /\ \A m \in Node, e \in Side : full[tree.child[e][m]] < full[m]
  BY Zenon, <1>1, HeightRanks
<1>3. PICK rank : rank = [m \in Node |-> full[m]]
  BY Zenon
<1>4. \A m \in Node, e \in Side : tree.child[e][m] \in Node \cup {Nil}
  BY DEF Shape, Trees
<1>5. /\ rank \in [Node -> 0..N]
      /\ \A m \in Node, e \in Side : tree.child[e][m] # Nil => rank[tree.child[e][m]] < rank[m]
  BY <1>2, <1>3, <1>4
<1>6. E \in [Node -> [[Node -> V] -> V]]
  <2> SUFFICES ASSUME NEW m \in Node, NEW f \in [Node -> V] PROVE step(f, m) \in V
    OBVIOUS
  <2>1. \A e \in Side : tree.child[e][m] # Nil => f[tree.child[e][m]] \in V
    BY <1>4
  <2> QED BY <2>1, LeftRight DEF FindAt
<1>7. Founded(Node, V, E, rank)
  <2> SUFFICES ASSUME NEW m \in Node, NEW f \in [Node -> V], NEW g \in [Node -> V],
                      \A y \in Node : rank[y] < rank[m] => f[y] = g[y]
               PROVE  step(f, m) = step(g, m)
    BY DEF Founded
  <2>1. \A e \in Side : tree.child[e][m] # Nil => f[tree.child[e][m]] = g[tree.child[e][m]]
    BY <1>4, <1>5
  <2> QED BY <2>1, LeftRight DEF FindAt
<1>8. PICK f : Solution(Node, V, E, f)
  <2>0. V # {}
    OBVIOUS
  <2> HIDE DEF E, V
  <2>1. Recursive(Node, V, E, N, rank)
    BY Zenon, <1>2, <1>5, <1>6, <1>7, <2>0 DEF Recursive
  <2> QED BY <2>1, Recursion
<1>9. f = [n \in Node |-> step(f, n)]
  <2>1. f \in [Node -> V] /\ \A m \in Node : f[m] = E[m][f]
    BY <1>8 DEF Solution
  <2>2. \A m \in Node : E[m][f] = step(f, m)
    BY <2>1
  <2> HIDE DEF step, E, V
  <2> QED BY <2>1, <2>2
<1>10. iter = [n \in Node |-> step(iter, n)]
  <2> HIDE DEF step
  <2> QED BY <1>9, Zenon
<1>11. \A n \in Node : iter[n] = step(iter, n)
  <2> HIDE DEF step, iter
  <2> QED BY <1>10, Zenon
<1>12. tree.root # Nil => FindHole(addr) = iter[tree.root]
  BY Zenon DEF FindHole, FindAt, iter
<1> HIDE DEF iter
<1> QED BY <1>11, <1>12 DEF FindIs

(* addr is inside the hole, or at an end of it.                            *)
Has(k, addr) == HoleStart[k] <= addr /\ addr <= HoleStart[k] + HoleSize[k]

(* r has addr, or it is next to it, and no hole in K has it.               *)
Nearest(K, addr, r) ==
  /\ r \in K
  /\ \/ Has(r, addr)
     \/ \A k \in K :
          /\ ~Has(k, addr)
          /\ addr < HoleStart[r] /\ HoleStart[k] < HoleStart[r] => HoleStart[k] < addr
          /\ HoleStart[r] < addr /\ HoleStart[r] < HoleStart[k] => addr <= HoleStart[k]

(* l and r are below m, before and behind it.                              *)
EitherSide(m, all, l, r) ==
  /\ \A k \in l : k \in Node /\ HoleStart[k] + HoleSize[k] <= HoleStart[m]
  /\ \A k \in r : k \in Node /\ HoleStart[m] + HoleSize[m] <= HoleStart[k]
  /\ all = {m} \cup l \cup r

(* What is on either side of a node.                                       *)
LEMMA HolesAround ==
  ASSUME NEW t, NEW below, HoleOk(t, below, FALSE), NEW m \in Node
  PROVE  EitherSide(m, below[m], below[t.child["left"][m]], below[t.child["right"][m]])
<1>1. Shape(t, below) /\ Ordered(t, below, KeyOrder(FALSE))
  BY DEF HoleOk
<1>2. ASSUME NEW k \in below[t.child["left"][m]]
      PROVE  k \in Node /\ HoleStart[k] + HoleSize[k] <= HoleStart[m]
  <2>1. k \in Node /\ Precedes(KeyOrder(FALSE), "left", k, m)
    BY <1>1, LeftRight, BelowParts DEF Ordered
  <2> QED BY <2>1, KeyOrders DEF Precedes
<1>3. ASSUME NEW k \in below[t.child["right"][m]]
      PROVE  k \in Node /\ HoleStart[m] + HoleSize[m] <= HoleStart[k]
  <2>1. k \in Node /\ Precedes(KeyOrder(FALSE), "right", k, m)
    BY <1>1, LeftRight, BelowParts DEF Ordered
  <2> QED BY <2>1, KeyOrders DEF Precedes
<1>4. below[m] = {m} \cup below[t.child["left"][m]] \cup below[t.child["right"][m]]
  BY <1>1 DEF Shape, Subtrees
<1> QED BY <1>2, <1>3, <1>4 DEF EitherSide

(* One node of the search.                                                 *)
LEMMA NearestBelow ==
  ASSUME NEW t, NEW below, HoleOk(t, below, FALSE), NEW m \in In(t), NEW addr \in Nat, NEW c,
         c = (IF addr < HoleStart[m] THEN t.child["left"][m]
              ELSE IF addr > HoleStart[m] + HoleSize[m] THEN t.child["right"][m] ELSE Nil),
         NEW w, IF c = Nil THEN w = m ELSE Nearest(below[c], addr, w)
  PROVE  Nearest(below[m], addr, w)
<1>1. m \in Node
  BY InNode
<1>2. PICK l, r : l = t.child["left"][m] /\ r = t.child["right"][m]
  BY Zenon
<1>3. /\ \A k \in below[l] : k \in Node /\ HoleStart[k] + HoleSize[k] <= HoleStart[m]
      /\ \A k \in below[r] : k \in Node /\ HoleStart[m] + HoleSize[m] <= HoleStart[k]
      /\ below[m] = {m} \cup below[l] \cup below[r]
  <2>1. EitherSide(m, below[m], below[t.child["left"][m]], below[t.child["right"][m]])
    BY Zenon, <1>1, HolesAround
  <2> QED BY <1>2, <2>1 DEF EitherSide
<1>4. \A k \in Node : HoleSize[k] \in Nat /\ HoleSize[k] > 0 /\ HoleStart[k] \in Nat
  BY KeyOrders
<1>5. below[Nil] = {}
  BY DEF HoleOk, Shape, Subtrees
<1>6. CASE Has(m, addr)
  <2>1. c = Nil
    BY <1>1, <1>4, <1>6 DEF Has
  <2> QED BY <1>3, <1>6, <2>1 DEF Nearest
<1>7. CASE addr < HoleStart[m]
  <2>1. c = l
    BY <1>2, <1>7
  <2>2. \A k \in {m} \cup below[r] : k \in Node /\ ~Has(k, addr) /\ HoleStart[m] <= HoleStart[k]
    BY <1>1, <1>3, <1>4, <1>7 DEF Has
  <2>3. CASE c = Nil
    <3>1. below[m] = {m} \cup below[r] /\ w = m
      BY <1>3, <1>5, <2>1, <2>3
    <3> QED BY <1>1, <1>4, <1>7, <2>2, <3>1 DEF Nearest
  <2>4. CASE c # Nil
    <3>1. Nearest(below[l], addr, w)
      BY <2>1, <2>4
    <3>2. w \in below[l] /\ w \in below[m] /\ w \in Node /\ HoleStart[w] < HoleStart[m]
      BY <1>1, <1>3, <1>4, <3>1 DEF Nearest
    <3>3. ASSUME NEW k \in {m} \cup below[r]
          PROVE  /\ ~Has(k, addr)
                 /\ addr < HoleStart[w] /\ HoleStart[k] < HoleStart[w] => HoleStart[k] < addr
                 /\ HoleStart[w] < addr /\ HoleStart[w] < HoleStart[k] => addr <= HoleStart[k]
      BY <1>1, <1>4, <1>7, <2>2, <3>2
    <3> QED BY <1>3, <3>1, <3>2, <3>3 DEF Nearest
  <2> QED BY <2>3, <2>4
<1>8. CASE addr > HoleStart[m] + HoleSize[m]
  <2>1. c = r
    BY <1>1, <1>2, <1>4, <1>8
  <2>2. \A k \in {m} \cup below[l] : /\ k \in Node /\ ~Has(k, addr) /\ HoleStart[k] <= HoleStart[m]
                                     /\ HoleStart[k] < addr
    BY <1>1, <1>3, <1>4, <1>8 DEF Has
  <2>3. CASE c = Nil
    <3>1. below[m] = {m} \cup below[l] /\ w = m
      BY <1>3, <1>5, <2>1, <2>3
    <3> QED BY <1>1, <1>4, <1>8, <2>2, <3>1 DEF Nearest
  <2>4. CASE c # Nil
    <3>1. Nearest(below[r], addr, w)
      BY <2>1, <2>4
    <3>2. w \in below[r] /\ w \in below[m] /\ w \in Node /\ HoleStart[m] < HoleStart[w]
      BY <1>1, <1>3, <1>4, <3>1 DEF Nearest
    <3>3. ASSUME NEW k \in {m} \cup below[l]
          PROVE  /\ ~Has(k, addr)
                 /\ addr < HoleStart[w] /\ HoleStart[k] < HoleStart[w] => HoleStart[k] < addr
                 /\ HoleStart[w] < addr /\ HoleStart[w] < HoleStart[k] => addr <= HoleStart[k]
      BY <1>1, <1>4, <2>2, <3>2
    <3> QED BY <1>3, <3>1, <3>2, <3>3 DEF Nearest
  <2> QED BY <2>3, <2>4
<1> QED BY <1>1, <1>4, <1>6, <1>7, <1>8 DEF Has

(* By induction from the leaves up.                                        *)
LEMMA FindFinds ==
  ASSUME NEW below, HoleOk(tree, below, FALSE), NEW addr \in Nat, NEW down, FindIs(addr, down)
  PROVE  \A m \in In(tree) : Nearest(below[m], addr, down[m])
<1>1. PICK B : B = {m \in In(tree) : ~Nearest(below[m], addr, down[m])}
  BY Zenon
<1> SUFFICES ASSUME B # {} PROVE FALSE
  BY <1>1
<1>2. Shape(tree, below)
  BY DEF HoleOk
<1>3. PICK m \in B : \A e \in Side : tree.child[e][m] \notin B
  BY <1>1, <1>2, LowestOf
<1>4. m \in In(tree) /\ m \in Node /\ ~Nearest(below[m], addr, down[m])
  BY <1>1, <1>3, InNode
<1>5. PICK c : c = IF addr < HoleStart[m] THEN tree.child["left"][m]
                   ELSE IF addr > HoleStart[m] + HoleSize[m] THEN tree.child["right"][m] ELSE Nil
  BY Zenon
<1>6. PICK w : w = down[m]
  OBVIOUS
<1>7. w = IF c = Nil THEN m ELSE down[c]
  BY Zenon, <1>4, <1>5, <1>6 DEF FindIs, FindAt
<1>8. c # Nil => Nearest(below[c], addr, down[c])
  <2>1. c # Nil => \E e \in Side : c = tree.child[e][m]
    BY <1>5, LeftRight
  <2>2. c # Nil => c \in In(tree) /\ c \notin B
    BY <1>2, <1>3, <1>4, <2>1, ChildFacts
  <2> QED BY <1>1, <2>2
<1>9. Nearest(below[m], addr, w)
  <2>1. IF c = Nil THEN w = m ELSE Nearest(below[c], addr, w)
    BY Zenon, <1>7, <1>8
  <2> QED BY Zenon, <1>4, <1>5, <2>1, NearestBelow
<1> QED BY <1>4, <1>6, <1>9

(* The search by address.                                                  *)
LEMMA FindHoleHolds ==
  ASSUME NEW below, HoleOk(tree, below, FALSE)
  PROVE  FindHoleIsNear
<1>1. Shape(tree, below) /\ Ordered(tree, below, KeyOrder(FALSE)) /\ Transitive(KeyOrder(FALSE))
  BY KeyOrders DEF HoleOk
<1>2. \A k \in Node : HoleSize[k] \in Nat /\ HoleSize[k] > 0 /\ HoleStart[k] \in Nat
  BY KeyOrders
<1>3. PICK s : s = InOrder(tree)
  OBVIOUS
<1>4. /\ s \in Seq(Node) /\ \A k : InList(s, k) <=> k \in In(tree)
      /\ InOrderOf(s, KeyOrder(FALSE))
  BY <1>1, <1>3, InOrderIs DEF Listing
<1>5. ASSUME NEW addr \in Nat, NEW n, n = FindHole(addr), Linked # {}
      PROVE  Nearest(In(tree), addr, n)
  <2>1. In(tree) # {} /\ below[tree.root] = In(tree) /\ below[Nil] = {}
    BY <1>1, <1>5, LinkedIn DEF Shape, Subtrees
  <2>2. tree.root # Nil
    BY <2>1
  <2>3. tree.root \in In(tree)
    BY <1>1, <2>2 DEF Shape, Trees, In
  <2>4. PICK down : FindIs(addr, down)
    BY <1>1, FindSteps
  <2>5. Nearest(below[tree.root], addr, down[tree.root])
    BY <2>3, <2>4, FindFinds
  <2> QED BY <1>5, <2>1, <2>2, <2>4, <2>5 DEF FindIs
<1>6. ASSUME NEW addr \in Nat, NEW n, Nearest(In(tree), addr, n), ~Has(n, addr), NEW d, NEW m,
             d = (IF HoleStart[n] < addr THEN "right" ELSE "left"), m = Neighbour(tree, n, d), m # Nil
      PROVE  HoleStart[m] < addr <=> d = "left"
  <2>1. n \in In(tree) /\ n \in Node
    BY <1>6, InNode DEF Nearest
  <2>2. PICK N \in Nat : N = Len(s)
    BY <1>4
  <2>3. PICK j \in 1..N : s[j] = n
    BY <1>4, <2>1, <2>2 DEF InList
  <2>4. /\ Neighbour(tree, s[j], "right") = IF j = N THEN Nil ELSE s[j + 1]
        /\ Neighbour(tree, s[j], "left") = IF j = 1 THEN Nil ELSE s[j - 1]
    BY <1>1, <1>3, <2>2, WalksAgreeHolds DEF WalksAgree
  <2>5. CASE HoleStart[n] < addr
    <3>1. d = "right" /\ m = s[j + 1] /\ j # N
      BY <1>6, <2>3, <2>4, <2>5
    <3>2. j + 1 \in 1..N /\ j < j + 1
      BY <3>1
    <3>3. Before(s, n, m) /\ InList(s, m)
      BY <2>2, <2>3, <3>1, <3>2 DEF Before, InList
    <3>4. m \in In(tree) /\ m \in Node /\ <<n, m>> \in KeyOrder(FALSE)
      BY <1>4, <3>3, InNode DEF InOrderOf
    <3>5. HoleStart[n] < HoleStart[m]
      <4>1. HoleStart[n] + HoleSize[n] <= HoleStart[m]
        BY Zenon, <2>1, <3>4, KeyOrders
      <4> QED BY <1>2, <2>1, <3>4, <4>1
    <3>6. addr <= HoleStart[m]
      BY <1>6, <2>5, <3>4, <3>5 DEF Nearest
    <3> QED BY <1>2, <3>1, <3>4, <3>6
  <2>6. CASE ~(HoleStart[n] < addr)
    <3>1. d = "left" /\ m = s[j - 1] /\ j # 1
      BY <1>6, <2>3, <2>4, <2>6
    <3>2. j - 1 \in 1..N /\ j - 1 < j
      BY <3>1
    <3>3. Before(s, m, n) /\ InList(s, m)
      BY <2>2, <2>3, <3>1, <3>2 DEF Before, InList
    <3>4. m \in In(tree) /\ m \in Node /\ <<m, n>> \in KeyOrder(FALSE)
      BY <1>4, <3>3, InNode DEF InOrderOf
    <3>5. HoleStart[m] < HoleStart[n]
      <4>1. HoleStart[m] + HoleSize[m] <= HoleStart[n]
        BY Zenon, <2>1, <3>4, KeyOrders
      <4> QED BY <1>2, <2>1, <3>4, <4>1
    <3>6. addr < HoleStart[n]
      BY <1>2, <1>6, <2>1, <2>6 DEF Has
    <3>7. HoleStart[m] < addr
      BY <1>6, <3>4, <3>5, <3>6 DEF Nearest
    <3> QED BY <3>1, <3>7
  <2> QED BY <2>5, <2>6
<1> SUFFICES ASSUME NEW addr \in UNION {0..HoleStart[k] + HoleSize[k] + 1 : k \in Node},
                    NEW n, n = FindHole(addr), NEW d, d = (IF HoleStart[n] < addr THEN "right" ELSE "left"),
                    NEW m, m = Neighbour(tree, n, d)
             PROVE  IF \E k \in Linked : Has(k, addr) THEN Has(n, addr)
                    ELSE Linked # {} => (m # Nil => (HoleStart[m] < addr <=> d = "left"))
  BY DEF FindHoleIsNear, Has
<1>7. addr \in Nat
  BY <1>2
<1>8. CASE \E k \in Linked : Has(k, addr)
  <2>1. Nearest(In(tree), addr, n) /\ \E k \in In(tree) : Has(k, addr)
    BY <1>5, <1>7, <1>8, LinkedIn
  <2> QED BY <1>8, <2>1 DEF Nearest
<1>9. CASE ~\E k \in Linked : Has(k, addr)
  <2>1. SUFFICES ASSUME Linked # {}, m # Nil PROVE HoleStart[m] < addr <=> d = "left"
    BY <1>9
  <2>2. Nearest(In(tree), addr, n)
    BY <1>5, <1>7, <2>1
  <2>3. ~Has(n, addr)
    BY <1>9, <2>2, LinkedIn DEF Nearest
  <2> QED BY <1>6, <1>7, <2>1, <2>2, <2>3
<1> QED BY <1>8, <1>9

(* In every state between two calls, best_hole comes out at the last of    *)
(* the holes that are large enough, and find_hole at a hole with the       *)
(* address, or next to it.                                                 *)
THEOREM SearchesCorrect == HoleSpec => []SearchesEndRight
<1>1. HoleInv => SearchesEndRight
  BY BestHoleHolds, FindHoleHolds DEF HoleInv, SearchesEndRight
<1> QED BY <1>1, HoleInvariant, PTL
=============================================================================
