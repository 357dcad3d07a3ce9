---------------------------- MODULE DrmMmProofs ----------------------------
(***************************************************************************)
(* Lemmas about the allocator, for every set of nodes, range and width of  *)
(* a u64: what its functions do to the list of nodes, to the holes it      *)
(* caches and to the order of its trees.  The callers' proofs cite them.   *)
(***************************************************************************)
EXTENDS DrmMm, ListsProofs, FiniteSetTheorems

-----------------------------------------------------------------------------
(* The list of nodes *)

(* The fields that make up blocks: start and size of nodes, and head_node  *)
(* such that it ends where the range starts, and starts where it ends.     *)
Fields(st, sz) ==
  /\ st \in [Link -> Int] /\ sz \in [Link -> Int]
  /\ st[HeadNode] = PoolSize /\ sz[HeadNode] = -PoolSize

(* NoOverlap *)
Blocks(A, st, sz) ==
  /\ \A n \in A : sz[n] > 0 /\ st[n] >= 0 /\ st[n] + sz[n] <= PoolSize
  /\ \A m, n \in A : m # n => st[m] + sz[m] <= st[n] \/ st[n] + sz[n] <= st[m]

(* The list through a set of nodes, head_node included: linked both ways,  *)
(* and each followed by the nearest one above it.                          *)
Ring(nx, pv, L, st, sz) ==
  /\ nx \in [Link -> Link] /\ pv \in [Link -> Link]
  /\ \A h \in L : nx[h] \in L /\ pv[h] \in L /\ pv[nx[h]] = h /\ nx[pv[h]] = h
  /\ \A h \in L : st[h] + sz[h] <= st[nx[h]]
  /\ \A h \in L : \A m \in L \ {HeadNode} : st[m] < st[h] + sz[h] \/ st[nx[h]] <= st[m]

Without(nx, pv, n) == [nx EXCEPT ![pv[n]] = nx[n]]
WithoutBack(nx, pv, n) == [pv EXCEPT ![nx[n]] = pv[n]]

(* A node is not its own neighbour, head_node being there as well.         *)
LEMMA NotAlone ==
  ASSUME NEW nx, NEW pv, NEW A \in SUBSET Node, NEW st, NEW sz,
         Fields(st, sz), Blocks(A, st, sz), Ring(nx, pv, A \cup {HeadNode}, st, sz),
         NEW n \in A
  PROVE  nx[n] # n /\ pv[n] # n
<1>1. n \in Link /\ st[n] \in Int /\ sz[n] \in Int /\ sz[n] > 0
  BY DEF Fields, Blocks, Link
<1>2. nx[n] # n
  BY <1>1 DEF Ring
<1>3. pv[n] # n
  BY <1>2 DEF Ring
<1> QED BY <1>2, <1>3

(* A node is taken out of the list.                                        *)
LEMMA RingWithout ==
  ASSUME NEW nx, NEW pv, NEW A \in SUBSET Node, NEW st, NEW sz,
         Fields(st, sz), Blocks(A, st, sz), Ring(nx, pv, A \cup {HeadNode}, st, sz),
         NEW n \in A
  PROVE  Ring(Without(nx, pv, n), WithoutBack(nx, pv, n), (A \ {n}) \cup {HeadNode}, st, sz)
<1> DEFINE L == A \cup {HeadNode}
           K == (A \ {n}) \cup {HeadNode}
           f == Without(nx, pv, n)
           b == WithoutBack(nx, pv, n)
           p == pv[n]
           q == nx[n]
<1>1. n # HeadNode /\ n \in L /\ L \subseteq Link /\ K = L \ {n} /\ HeadNode \in K
  BY DrmMmConstants DEF Link
<1>2. p \in K /\ q \in K /\ nx[p] = n /\ pv[q] = n
  BY <1>1, NotAlone DEF Ring
<1>3. /\ f \in [Link -> Link] /\ b \in [Link -> Link]
      /\ f[p] = q /\ b[q] = p
      /\ \A h \in Link : (h # p => f[h] = nx[h]) /\ (h # q => b[h] = pv[h])
  BY <1>1, <1>2 DEF Ring, Without, WithoutBack
<1>4. \A h \in K : h # p => nx[h] \in K /\ nx[h] # q
  BY <1>1, <1>2 DEF Ring
<1>5. \A h \in K : h # q => pv[h] \in K /\ pv[h] # p
  BY <1>1, <1>2 DEF Ring
<1> HIDE DEF f, b, p, q
<1>6. ASSUME NEW h \in K
      PROVE  f[h] \in K /\ b[h] \in K /\ b[f[h]] = h /\ f[b[h]] = h
  <2>1. h \in L /\ h \in Link
    BY <1>1
  <2>2. f[h] \in K /\ b[f[h]] = h
    <3>1. CASE h = p
      BY <1>2, <1>3, <3>1
    <3>2. CASE h # p
      <4>1. f[h] = nx[h] /\ nx[h] \in K /\ nx[h] # q /\ nx[h] \in Link
        BY <1>1, <1>3, <1>4, <2>1, <3>2
      <4>2. b[nx[h]] = pv[nx[h]] /\ pv[nx[h]] = h
        BY <1>3, <2>1, <4>1 DEF Ring
      <4> QED BY <4>1, <4>2
    <3> QED BY <3>1, <3>2
  <2>3. b[h] \in K /\ f[b[h]] = h
    <3>1. CASE h = q
      BY <1>2, <1>3, <3>1
    <3>2. CASE h # q
      <4>1. b[h] = pv[h] /\ pv[h] \in K /\ pv[h] # p /\ pv[h] \in Link
        BY <1>1, <1>3, <1>5, <2>1, <3>2
      <4>2. f[pv[h]] = nx[pv[h]] /\ nx[pv[h]] = h
        BY <1>3, <2>1, <4>1 DEF Ring
      <4> QED BY <4>1, <4>2
    <3> QED BY <3>1, <3>2
  <2> QED BY <2>2, <2>3
<1>7. \A h \in L : st[h] \in Int /\ sz[h] \in Int
  BY <1>1 DEF Fields
<1>8. st[p] + sz[p] <= st[n] /\ st[n] + sz[n] <= st[q] /\ sz[n] > 0
  BY <1>1, <1>2 DEF Ring, Blocks, p, q
<1>9. st[p] + sz[p] <= st[q]
  BY <1>1, <1>2, <1>7, <1>8
<1>10. ASSUME NEW h \in K
       PROVE  /\ st[h] + sz[h] <= st[f[h]]
              /\ \A m \in K \ {HeadNode} : st[m] < st[h] + sz[h] \/ st[f[h]] <= st[m]
  <2>1. h \in L /\ h \in Link
    BY <1>1
  <2>2. CASE h # p
    <3>1. f[h] = nx[h]
      BY <1>3, <2>1, <2>2
    <3> QED BY <1>1, <2>1, <3>1 DEF Ring
  <2>3. CASE h = p
    <3>1. f[h] = q
      BY <1>3, <2>3
    <3>2. ASSUME NEW m \in K \ {HeadNode}
          PROVE  st[m] < st[p] + sz[p] \/ st[q] <= st[m]
      <4>1. m \in A /\ m # n /\ m \in L \ {HeadNode} /\ n \in A
        BY <1>1
      <4>2. st[m] < st[p] + sz[p] \/ st[n] <= st[m]
        BY <1>2, <1>1, <4>1 DEF Ring
      <4>3. st[m] < st[n] + sz[n] \/ st[q] <= st[m]
        BY <1>1, <4>1 DEF Ring, q
      <4>4. st[m] + sz[m] <= st[n] \/ st[n] + sz[n] <= st[m]
        BY <4>1 DEF Blocks
      <4>5. sz[m] > 0
        BY <4>1 DEF Blocks
      <4>6. {m, n, p, q} \subseteq L
        BY <1>1, <1>2
      <4> QED BY <1>7, <4>2, <4>3, <4>4, <4>5, <4>6
    <3> QED BY <1>9, <2>3, <3>1, <3>2
  <2> QED BY <2>2, <2>3
<1> HIDE DEF K
<1>11. Ring(f, b, K, st, sz)
  BY <1>3, <1>6, <1>10 DEF Ring
<1> QED BY <1>11 DEF f, b, K

Put(f, k, v) == [f EXCEPT ![k] = v]
PutBack(f, b, n) == [f EXCEPT ![n] = f[b[n]], ![b[n]] = n]

(* Putting it back, which is all that the links of the node itself are     *)
(* needed for.                                                             *)
LEMMA BackAgain ==
  ASSUME NEW nx, NEW pv, NEW A \in SUBSET Node, NEW st, NEW sz,
         Fields(st, sz), Blocks(A, st, sz), Ring(nx, pv, A \cup {HeadNode}, st, sz),
         NEW n \in A, NEW f, NEW b,
         f = Without(nx, pv, n), b = WithoutBack(nx, pv, n)
  PROVE  /\ PutBack(f, b, n) = nx
         /\ Put(b, f[b[n]], n) = pv
<1>1. n \in Link /\ nx \in [Link -> Link] /\ pv \in [Link -> Link]
  BY DEF Link, Ring
<1>2. nx[n] # n /\ pv[n] # n
  BY NotAlone
<1>3. nx[pv[n]] = n /\ pv[nx[n]] = n
  BY DEF Ring
<1>4. b[n] = pv[n] /\ f[pv[n]] = nx[n] /\ f[n] = nx[n]
  BY <1>1, <1>2 DEF Without, WithoutBack
<1>5. [f EXCEPT ![n] = nx[n], ![pv[n]] = n] = nx
  BY <1>1, <1>2, <1>3 DEF Without
<1>6. [b EXCEPT ![nx[n]] = n] = pv
  BY <1>1, <1>2, <1>3 DEF WithoutBack
<1> QED BY <1>4, <1>5, <1>6 DEF Put, PutBack

(* A block inside the gap behind a node of the list meets no other.        *)
LEMMA GapIsFree ==
  ASSUME NEW nx, NEW pv, NEW A \in SUBSET Node, NEW st, NEW sz,
         Fields(st, sz), Blocks(A, st, sz), Ring(nx, pv, A \cup {HeadNode}, st, sz),
         NEW h \in A \cup {HeadNode}, NEW p \in Int, NEW x \in Int,
         x > 0, st[h] + sz[h] <= p, p + x <= st[nx[h]]
  PROVE  /\ 0 <= p /\ p + x <= PoolSize
         /\ \A m \in A : st[m] + sz[m] <= p \/ p + x <= st[m]
<1> DEFINE L == A \cup {HeadNode}
<1>1. /\ h \in L /\ nx[h] \in L /\ A = L \ {HeadNode} /\ PoolSize \in Int
      /\ \A k \in L : st[k] \in Int /\ sz[k] \in Int
  BY DrmMmConstants DEF Ring, Fields, Link
<1>2. \A k \in L : st[k] + sz[k] >= 0 /\ st[k] <= PoolSize
  BY <1>1 DEF Fields, Blocks
<1>3. ASSUME NEW m \in A
      PROVE  st[m] + sz[m] <= p \/ p + x <= st[m]
  <2>1. st[m] < st[h] + sz[h] \/ st[nx[h]] <= st[m]
    BY <1>1 DEF Ring
  <2>2. st[m] >= 0
    BY DEF Blocks
  <2>3. st[m] < st[h] + sz[h] => st[m] + sz[m] <= st[h] + sz[h]
    <3>1. CASE h = HeadNode
      BY <1>1, <2>2, <3>1 DEF Fields
    <3>2. CASE h = m
      BY <1>1, <3>2
    <3>3. CASE h # HeadNode /\ h # m
      <4>1. sz[h] > 0 /\ (st[m] + sz[m] <= st[h] \/ st[h] + sz[h] <= st[m])
        BY <3>3 DEF Blocks
      <4> QED BY <1>1, <4>1
    <3> QED BY <3>1, <3>2, <3>3
  <2> QED BY <1>1, <2>1, <2>3
<1>4. 0 <= p /\ p + x <= PoolSize
  BY <1>1, <1>2
<1> QED BY <1>3, <1>4

Linking(nx, h, n) == [nx EXCEPT ![h] = n, ![n] = nx[h]]
LinkingBack(nx, pv, h, n) ==
  [k \in Link |-> IF k = n THEN h ELSE IF k = nx[h] THEN n ELSE pv[k]]

(* A node is linked in behind another, with a block in the gap.            *)
LEMMA RingWith ==
  ASSUME NEW nx, NEW pv, NEW A \in SUBSET Node, NEW st, NEW sz,
         Fields(st, sz), Blocks(A, st, sz), Ring(nx, pv, A \cup {HeadNode}, st, sz),
         NEW h \in A \cup {HeadNode}, NEW n \in Node \ A, NEW p \in Int, NEW x \in Int,
         x > 0, st[h] + sz[h] <= p, p + x <= st[nx[h]],
         NEW f, NEW b, NEW t, NEW z,
         f = Linking(nx, h, n), b = LinkingBack(nx, pv, h, n),
         t = Put(st, n, p), z = Put(sz, n, x)
  PROVE  /\ Fields(t, z) /\ Blocks(A \cup {n}, t, z)
         /\ Ring(f, b, (A \cup {n}) \cup {HeadNode}, t, z)
<1> DEFINE L == A \cup {HeadNode}
           K == (A \cup {n}) \cup {HeadNode}
           q == nx[h]
<1>1. /\ n # HeadNode /\ n \notin L /\ L \subseteq Link /\ K = L \cup {n} /\ HeadNode \in L
      /\ n \in Link /\ h \in L /\ q \in L /\ h # n /\ q # n /\ A = L \ {HeadNode}
  BY DrmMmConstants DEF Link, Ring
<1>2. /\ t[n] = p /\ z[n] = x
      /\ \A k \in L : t[k] = st[k] /\ z[k] = sz[k]
  BY <1>1 DEF Fields, Put
<1>3. Fields(t, z)
  BY <1>1, <1>2 DEF Fields, Put
<1>4. /\ 0 <= p /\ p + x <= PoolSize
      /\ \A m \in A : st[m] + sz[m] <= p \/ p + x <= st[m]
  BY GapIsFree
<1>5. Blocks(A \cup {n}, t, z)
  BY <1>1, <1>2, <1>4 DEF Blocks
<1>6. /\ f \in [Link -> Link] /\ f[h] = n /\ f[n] = q
      /\ \A k \in Link : k # h /\ k # n => f[k] = nx[k]
  BY <1>1 DEF Linking, Ring
<1>7. /\ b \in [Link -> Link] /\ b[n] = h /\ b[q] = n
      /\ \A k \in Link : k # q /\ k # n => b[k] = pv[k]
  BY <1>1 DEF LinkingBack, Ring
<1>8. \A k \in L : nx[k] \in L /\ pv[k] \in L /\ pv[nx[k]] = k /\ nx[pv[k]] = k
  BY DEF Ring
<1>9. \A k \in L : (k # h => nx[k] # q) /\ (k # q => pv[k] # h)
  BY <1>1, <1>8
<1> HIDE DEF q
<1>10. ASSUME NEW k \in K
       PROVE  f[k] \in K /\ b[k] \in K /\ b[f[k]] = k /\ f[b[k]] = k
  <2>1. f[k] \in K /\ b[f[k]] = k
    <3>1. CASE k = h \/ k = n
      BY <1>1, <1>6, <1>7, <3>1
    <3>2. CASE k # h /\ k # n
      <4>1. k \in L /\ k \in Link /\ f[k] = nx[k] /\ nx[k] \in L /\ nx[k] # q /\ nx[k] # n
        BY <1>1, <1>6, <1>8, <1>9, <3>2
      <4> QED BY <1>1, <1>7, <1>8, <4>1
    <3> QED BY <3>1, <3>2
  <2>2. b[k] \in K /\ f[b[k]] = k
    <3>1. CASE k = q \/ k = n
      BY <1>1, <1>6, <1>7, <3>1
    <3>2. CASE k # q /\ k # n
      <4>1. k \in L /\ k \in Link /\ b[k] = pv[k] /\ pv[k] \in L /\ pv[k] # h /\ pv[k] # n
        BY <1>1, <1>7, <1>8, <1>9, <3>2
      <4> QED BY <1>1, <1>6, <1>8, <4>1
    <3> QED BY <3>1, <3>2
  <2> QED BY <2>1, <2>2
<1>11. \A k \in L : st[k] \in Int /\ sz[k] \in Int
  BY <1>1 DEF Fields
<1>12. st[h] + sz[h] <= p /\ p + x <= st[q]
  BY DEF q
<1>13. \A k \in L : st[k] + sz[k] <= st[nx[k]]
  BY DEF Ring
<1>14. \A k \in L : \A m \in A : st[m] < st[k] + sz[k] \/ st[nx[k]] <= st[m]
  BY <1>1 DEF Ring
<1>15. ASSUME NEW k \in K
       PROVE  /\ t[k] + z[k] <= t[f[k]]
              /\ \A m \in K \ {HeadNode} : t[m] < t[k] + z[k] \/ t[f[k]] <= t[m]
  <2>1. CASE k = n
    <3>1. t[f[k]] = st[q] /\ t[k] + z[k] = p + x
      BY <1>1, <1>2, <1>6, <2>1
    <3>2. ASSUME NEW m \in K \ {HeadNode} PROVE t[m] < p + x \/ st[q] <= t[m]
      <4>1. CASE m = n
        BY <1>2, <4>1
      <4>2. CASE m # n
        <5>1. m \in A /\ t[m] = st[m] /\ m \in L
          BY <1>1, <1>2, <4>2
        <5>2. st[m] < st[h] + sz[h] \/ st[q] <= st[m]
          BY <1>1, <1>14, <5>1 DEF q
        <5> QED BY <1>1, <1>11, <1>12, <5>1, <5>2
      <4> QED BY <4>1, <4>2
    <3> QED BY <1>12, <3>1, <3>2
  <2>2. CASE k = h
    <3>1. t[f[k]] = p /\ t[k] + z[k] = st[h] + sz[h]
      BY <1>1, <1>2, <1>6, <2>2
    <3>2. ASSUME NEW m \in K \ {HeadNode} PROVE t[m] < st[h] + sz[h] \/ p <= t[m]
      <4>1. CASE m = n
        BY <1>2, <4>1
      <4>2. CASE m # n
        <5>1. m \in A /\ t[m] = st[m] /\ m \in L
          BY <1>1, <1>2, <4>2
        <5>2. st[m] < st[h] + sz[h] \/ st[q] <= st[m]
          BY <1>1, <1>14, <5>1 DEF q
        <5> QED BY <1>1, <1>11, <1>12, <5>1, <5>2
      <4> QED BY <4>1, <4>2
    <3> QED BY <1>12, <3>1, <3>2
  <2>3. CASE k # n /\ k # h
    <3>1. /\ k \in L /\ f[k] = nx[k] /\ nx[k] \in L
          /\ t[f[k]] = st[nx[k]] /\ t[k] + z[k] = st[k] + sz[k]
      BY <1>1, <1>2, <1>6, <1>8, <2>3
    <3>2. ASSUME NEW m \in K \ {HeadNode} PROVE t[m] < st[k] + sz[k] \/ st[nx[k]] <= t[m]
      <4>1. CASE m # n
        BY <1>1, <1>2, <1>14, <3>1, <4>1
      <4>2. CASE m = n
        (* Either h, with the gap behind it, is below k or it is above.    *)
        <5>1. CASE k = HeadNode
          <6>1. h \in A /\ st[k] + sz[k] = 0 /\ st[h] >= 0 /\ sz[h] > 0
            BY <1>1, <2>3, <5>1, DrmMmConstants DEF Fields, Blocks
          <6>2. st[nx[k]] <= st[h]
            BY <1>1, <1>8, <1>11, <1>14, <3>1, <6>1
          <6> QED BY <1>1, <1>2, <1>8, <1>11, <1>12, <3>1, <4>2, <6>1, <6>2
        <5>2. CASE k # HeadNode
          <6>1. k \in A /\ sz[k] > 0 /\ (st[k] + sz[k] <= p \/ p + x <= st[k])
            BY <1>1, <1>4, <3>1, <5>2 DEF Blocks
          <6>2. CASE p + x <= st[k]
            BY <1>1, <1>2, <1>11, <3>1, <4>2, <6>1, <6>2
          <6>3. CASE st[k] + sz[k] <= p /\ h \in A
            <7>1. st[h] < st[k] + sz[k] \/ st[nx[k]] <= st[h]
              BY <1>14, <3>1, <6>3
            <7>2. st[h] + sz[h] <= st[k] \/ st[k] + sz[k] <= st[h]
              BY <2>3, <6>1, <6>3 DEF Blocks
            <7>3. st[k] < st[h] + sz[h] \/ st[q] <= st[k]
              BY <1>1, <1>14, <6>1 DEF q
            <7>4. sz[h] > 0
              BY <6>3 DEF Blocks
            <7>5. /\ st[k] \in Int /\ sz[k] \in Int /\ st[h] \in Int /\ sz[h] \in Int
                  /\ st[q] \in Int /\ st[nx[k]] \in Int /\ t[m] = p
              BY <1>1, <1>2, <1>11, <3>1, <4>2
            <7>6. st[k] < st[h] + sz[h]
              BY <1>12, <6>1, <6>3, <7>3, <7>5
            <7>7. st[k] + sz[k] <= st[h]
              BY <6>1, <7>2, <7>4, <7>5, <7>6
            <7>8. st[nx[k]] <= st[h]
              BY <7>1, <7>5, <7>7
            <7> QED BY <1>12, <7>4, <7>5, <7>8
          <6>4. CASE st[k] + sz[k] <= p /\ h = HeadNode
            <7>1. st[k] < st[h] + sz[h] \/ st[q] <= st[k]
              BY <1>1, <1>14, <6>1 DEF q
            <7>2. st[h] + sz[h] = 0 /\ st[k] >= 0
              BY <6>1, <6>4, DrmMmConstants DEF Fields, Blocks
            <7>3. st[k] \in Int /\ sz[k] \in Int /\ st[q] \in Int
              BY <1>1, <1>11, <3>1
            <7> QED BY <1>12, <6>1, <6>4, <7>1, <7>2, <7>3
          <6> QED BY <1>1, <6>1, <6>2, <6>3, <6>4
        <5> QED BY <5>1, <5>2
      <4> QED BY <4>1, <4>2
    <3> QED BY <1>13, <3>1, <3>2
  <2> QED BY <2>1, <2>2, <2>3
<1> HIDE DEF K
<1>16. Ring(f, b, K, t, z)
  BY <1>6, <1>7, <1>10, <1>15 DEF Ring
<1> QED BY <1>3, <1>5, <1>16 DEF K

(* One node takes the place of another.                                    *)
Moved(f, old, new, unlinked) ==
  [k \in Link |-> IF k = old THEN unlinked ELSE IF k = new THEN f[old] ELSE f[k]]
Renamed(f, old, new) ==
  [k \in Link |-> IF k = old THEN old
                  ELSE IF k = new THEN f[old]
                  ELSE IF f[k] = old THEN new ELSE f[k]]

(* One node takes the place of another, with its start and size            *)
(* (drm_mm_replace_node): the list stays a ring.                           *)
LEMMA RingReplaced ==
  ASSUME NEW nx, NEW pv, NEW A \in SUBSET Node, NEW st, NEW sz,
         Fields(st, sz), Blocks(A, st, sz), Ring(nx, pv, A \cup {HeadNode}, st, sz),
         NEW old \in A, NEW new \in Node \ A, NEW f, NEW b, NEW t, NEW z,
         f = Renamed(nx, old, new), b = Renamed(pv, old, new),
         t = Moved(st, old, new, 0), z = Moved(sz, old, new, 0)
  PROVE  /\ Fields(t, z) /\ Blocks((A \ {old}) \cup {new}, t, z)
         /\ Ring(f, b, ((A \ {old}) \cup {new}) \cup {HeadNode}, t, z)
<1> DEFINE L == A \cup {HeadNode}
           B == (A \ {old}) \cup {new}
           K == B \cup {HeadNode}
           is(k) == IF k = old THEN new ELSE k
           was(k) == IF k = new THEN old ELSE k
<1>1. /\ old \in L /\ new \notin L /\ L \subseteq Link /\ new \in Link /\ HeadNode \notin {old, new}
      /\ old # new /\ new \in K /\ old \notin K /\ K \subseteq Link /\ old \in Link
      /\ B = K \ {HeadNode} /\ A = L \ {HeadNode}
  BY DrmMmConstants DEF Link
<1>2. nx[old] # old /\ pv[old] # old
  BY NotAlone
<1>3. \A k \in L : nx[k] \in L /\ pv[k] \in L /\ pv[nx[k]] = k /\ nx[pv[k]] = k
  BY DEF Ring
<1>4. /\ f \in [Link -> Link] /\ b \in [Link -> Link]
      /\ \A k \in K : f[k] = is(nx[was(k)]) /\ b[k] = is(pv[was(k)])
  <2>1. nx \in [Link -> Link] /\ pv \in [Link -> Link]
    BY DEF Ring
  <2> QED BY <1>1, <1>2, <2>1 DEF Renamed
<1>5. \A k \in K : was(k) \in L /\ is(was(k)) = k
  BY <1>1
<1>6. \A k \in L : is(k) \in K /\ was(is(k)) = k
  BY <1>1
<1>7. /\ t \in [Link -> Int] /\ z \in [Link -> Int]
      /\ \A k \in K : t[k] = st[was(k)] /\ z[k] = sz[was(k)]
  BY <1>1 DEF Moved, Fields
<1>8. Fields(t, z)
  BY <1>1, <1>7 DEF Fields
<1>9. \A k \in B : was(k) \in A
  BY <1>1
<1>10. \A k \in B : t[k] = st[was(k)] /\ z[k] = sz[was(k)]
  BY <1>1, <1>7
<1>11. \A j, k \in B : j # k => was(j) # was(k)
  BY <1>1
<1>12. /\ \A h \in L : st[h] + sz[h] <= st[nx[h]]
       /\ \A h \in L : \A m \in A : st[m] < st[h] + sz[h] \/ st[nx[h]] <= st[m]
  BY <1>1 DEF Ring
<1> HIDE DEF is, was, B, K
<1>13. Blocks(B, t, z)
  BY <1>9, <1>10, <1>11 DEF Blocks
<1>14. ASSUME NEW k \in K
       PROVE  f[k] \in K /\ b[k] \in K /\ b[f[k]] = k /\ f[b[k]] = k
  <2>1. was(k) \in L /\ is(was(k)) = k
    BY <1>5
  <2>2. f[k] = is(nx[was(k)]) /\ nx[was(k)] \in L /\ f[k] \in K /\ was(f[k]) = nx[was(k)]
    BY <1>3, <1>4, <1>6, <2>1
  <2>3. b[k] = is(pv[was(k)]) /\ pv[was(k)] \in L /\ b[k] \in K /\ was(b[k]) = pv[was(k)]
    BY <1>3, <1>4, <1>6, <2>1
  <2>4. b[f[k]] = is(pv[nx[was(k)]])
    BY <1>4, <2>2
  <2>5. f[b[k]] = is(nx[pv[was(k)]])
    BY <1>4, <2>3
  <2> QED BY <1>3, <2>1, <2>2, <2>3, <2>4, <2>5
<1>15. ASSUME NEW k \in K
       PROVE  /\ t[k] + z[k] <= t[f[k]]
              /\ \A m \in K \ {HeadNode} : t[m] < t[k] + z[k] \/ t[f[k]] <= t[m]
  <2>1. /\ was(k) \in L /\ t[k] = st[was(k)] /\ z[k] = sz[was(k)]
        /\ f[k] \in K /\ f[k] = is(nx[was(k)]) /\ nx[was(k)] \in L
    BY <1>3, <1>4, <1>5, <1>7, <1>14
  <2>2. t[f[k]] = st[nx[was(k)]]
    BY <1>6, <1>7, <2>1
  <2>3. \A m \in K \ {HeadNode} : was(m) \in A /\ t[m] = st[was(m)]
    BY <1>1, <1>9, <1>10
  <2> QED BY <1>12, <2>1, <2>2, <2>3
<1>16. Ring(f, b, K, t, z)
  BY <1>4, <1>14, <1>15 DEF Ring
<1> QED BY <1>8, <1>13, <1>16 DEF B, K

-----------------------------------------------------------------------------
(* The structures that hold the holes                                      *)

(* A stack or tree with exactly the given nodes, each once.                *)
Holds(s, S) == s \in Seq(Link) /\ Distinct(s) /\ \A h : InList(s, h) <=> h \in S

(* A node is in the order of the tree before another only if its key is no *)
(* smaller, or smaller.                                                    *)
BySize(s, key) == \A c, d : Before(s, c, d) => key[c] >= key[d]
ByAddr(s, key) == \A c, d : Before(s, c, d) => key[c] < key[d]

(* The items up to some place are those of a property that none has behind *)
(* one that has it not; their number is that place.                        *)
LEMMA PrefixCount ==
  ASSUME NEW n \in Nat, NEW C \in SUBSET (1..n), \A j \in C : \A k \in 1..j : k \in C
  PROVE  Cardinality(C) \in 0..n /\ C = 1..Cardinality(C)
<1>1. CASE C = {}
  <2>1. Cardinality(C) = 0
    BY <1>1, FS_EmptySet
  <2> QED BY <1>1, <2>1
<1>2. CASE C # {}
  <2> DEFINE g == Max(C)
  <2>1. g \in C /\ \A y \in C : y <= g
    BY <1>2, GreatestPlace
  <2> HIDE DEF g
  <2>2. g \in 1..n
    BY <2>1
  <2>4. \A y \in C : y \in 1..g
    <3> TAKE y \in C
    <3>1. y \in 1..n /\ y <= g
      BY <2>1
    <3> QED BY <2>2, <3>1
  <2>5. \A y \in 1..g : y \in C
    BY <2>1
  <2>6. C = 1..g
    BY <2>4, <2>5
  <2>3. Cardinality(1..g) = g
    BY <2>2, FS_Interval
  <2> QED BY <2>2, <2>6, <2>3
<1> QED BY <1>1, <1>2

(* What a list without one of its nodes holds.                             *)
LEMMA HoldsRemoved ==
  ASSUME NEW s, NEW S, NEW h, Holds(s, S), h \in S
  PROVE  /\ Holds(ListRemove(s, h), S \ {h})
         /\ \A c, d : Before(ListRemove(s, h), c, d) => Before(s, c, d) /\ c # h /\ d # h
<1>1. s \in Seq(Link) /\ Distinct(s) /\ InList(s, h)
  BY DEF Holds
<1>2. /\ ListRemove(s, h) \in Seq(Link) /\ Distinct(ListRemove(s, h))
      /\ \A c : InList(ListRemove(s, h), c) <=> InList(s, c) /\ c # h
      /\ \A c, d : Before(ListRemove(s, h), c, d) <=> Before(s, c, d) /\ c # h /\ d # h
  BY <1>1, ListRemoveOrder
<1> QED BY <1>2 DEF Holds

(* What a stack with a node put on it holds.                               *)
LEMMA HoldsPushed ==
  ASSUME NEW s, NEW S, NEW m \in Link \ S, Holds(s, S)
  PROVE  Holds(PushHole(s, m), S \cup {m})
<1>1. s \in Seq(Link) /\ Distinct(s) /\ ~InList(s, m)
  BY DEF Holds
<1>2. /\ ListPrepend(s, m) \in Seq(Link) /\ Distinct(ListPrepend(s, m))
      /\ \A c : InList(ListPrepend(s, m), c) <=> InList(s, c) \/ c = m
  BY <1>1, ListPrependOrder
<1> QED BY <1>2 DEF Holds, PushHole

(* What an item put in at a place comes before and after.                  *)
MadeRoom(r, s, k, m) ==
  \A c, d : Before(r, c, d) =>
    \/ Before(s, c, d)
    \/ c = m /\ \E j \in 1..Len(s) : k <= j /\ s[j] = d
    \/ d = m /\ \E j \in 1..Len(s) : j < k /\ s[j] = c

(* What a sequence with a node put in anywhere holds.                      *)
LEMMA HoldsInserted ==
  ASSUME NEW s, NEW S, NEW m \in Link \ S, NEW k \in 1..Len(s) + 1, Holds(s, S)
  PROVE  Holds(InsertAt(s, k, m), S \cup {m}) /\ MadeRoom(InsertAt(s, k, m), s, k, m)
<1>1. s \in Seq(Link) /\ Distinct(s) /\ ~InList(s, m)
  BY DEF Holds
<1>2. /\ InsertAt(s, k, m) \in Seq(Link) /\ Distinct(InsertAt(s, k, m))
      /\ \A c : InList(InsertAt(s, k, m), c) <=> InList(s, c) \/ c = m
      /\ \A c, d : Before(InsertAt(s, k, m), c, d) =>
           \/ Before(s, c, d)
           \/ c = m /\ \E j \in 1..Len(s) : k <= j /\ s[j] = d
           \/ d = m /\ \E j \in 1..Len(s) : j < k /\ s[j] = c
  BY <1>1, InsertAtOrder
<1>3. MadeRoom(InsertAt(s, k, m), s, k, m)
  BY <1>2, Zenon DEF MadeRoom
<1> QED BY <1>2, <1>3 DEF Holds

(* A hole is added to the tree by size.                                    *)
LEMMA InsertedBySize ==
  ASSUME NEW s, NEW S \in SUBSET Link, NEW m \in Link \ S, NEW key \in [Link -> Int],
         Holds(s, S), BySize(s, key)
  PROVE  /\ Holds(InsertBySize(s, m, key), S \cup {m})
         /\ BySize(InsertBySize(s, m, key), key)
<1> DEFINE C == {k \in 1..Len(s) : key[s[k]] >= key[m]}
           k == 1 + Cardinality(C)
<1>1. Len(s) \in Nat /\ \A j \in 1..Len(s) : s[j] \in Link /\ key[s[j]] \in Int
  BY DEF Holds
<1>2. key[m] \in Int
  OBVIOUS
<1>3. \A j \in C : \A i \in 1..j : i \in C
  <2> TAKE j \in C
  <2> TAKE i \in 1..j
  <2>1. i \in 1..Len(s) /\ j \in 1..Len(s) /\ i <= j
    BY <1>1
  <2>2. i < j => key[s[i]] >= key[s[j]]
    <3>1. i < j => Before(s, s[i], s[j])
      BY <2>1, Zenon DEF Before
    <3> QED BY <3>1 DEF BySize
  <2> QED BY <1>1, <1>2, <2>1, <2>2
<1>4. Cardinality(C) \in 0..Len(s) /\ C = 1..Cardinality(C)
  <2>1. C \in SUBSET (1..Len(s))
    OBVIOUS
  <2> HIDE DEF C
  <2> QED BY <1>1, <1>3, <2>1, PrefixCount
<1>5. k \in 1..Len(s) + 1 /\ \A j \in 1..Len(s) : j < k <=> key[s[j]] >= key[m]
  <2>1. \A j \in 1..Len(s) : j \in 1..Cardinality(C) <=> key[s[j]] >= key[m]
    BY <1>4
  <2> HIDE DEF C
  <2> QED BY <1>1, <1>4, <2>1
<1>6. InsertBySize(s, m, key) = InsertAt(s, k, m)
  BY DEF InsertBySize
<1> HIDE DEF k, C
<1>7. Holds(InsertAt(s, k, m), S \cup {m}) /\ MadeRoom(InsertAt(s, k, m), s, k, m)
  <2>1. k \in 1..Len(s) + 1
    BY <1>5
  <2> QED BY <2>1, HoldsInserted
<1>8. ASSUME NEW c, NEW d, Before(InsertAt(s, k, m), c, d)
      PROVE  key[c] >= key[d]
  <2>1. \/ Before(s, c, d)
        \/ c = m /\ \E j \in 1..Len(s) : k <= j /\ s[j] = d
        \/ d = m /\ \E j \in 1..Len(s) : j < k /\ s[j] = c
    BY <1>7, <1>8, Zenon DEF MadeRoom
  <2>2. CASE Before(s, c, d)
    BY <2>2 DEF BySize
  <2>3. ASSUME NEW j \in 1..Len(s), c = m, k <= j, s[j] = d PROVE key[c] >= key[d]
    BY <1>1, <1>2, <1>5, <2>3
  <2>4. ASSUME NEW j \in 1..Len(s), d = m, j < k, s[j] = c PROVE key[c] >= key[d]
    BY <1>1, <1>2, <1>5, <2>4
  <2> QED BY <2>1, <2>2, <2>3, <2>4
<1> QED BY <1>6, <1>7, <1>8, Zenon DEF BySize

(* And to the tree by address, where no two have the same.                 *)
LEMMA InsertedByAddr ==
  ASSUME NEW s, NEW S \in SUBSET Link, NEW m \in Link \ S, NEW key \in [Link -> Int],
         Holds(s, S), ByAddr(s, key), \A c \in S : key[c] # key[m]
  PROVE  /\ Holds(InsertByAddr(s, m, key), S \cup {m})
         /\ ByAddr(InsertByAddr(s, m, key), key)
<1> DEFINE C == {k \in 1..Len(s) : key[s[k]] <= key[m]}
           k == 1 + Cardinality(C)
<1>1. /\ Len(s) \in Nat
      /\ \A j \in 1..Len(s) : s[j] \in Link /\ key[s[j]] \in Int /\ key[s[j]] # key[m]
  <2>1. Len(s) \in Nat /\ \A j \in 1..Len(s) : s[j] \in Link /\ key[s[j]] \in Int
    BY DEF Holds
  <2>2. \A j \in 1..Len(s) : s[j] \in S
    BY Zenon DEF Holds, InList
  <2> QED BY <2>1, <2>2
<1>2. key[m] \in Int
  OBVIOUS
<1>3. \A j \in C : \A i \in 1..j : i \in C
  <2> TAKE j \in C
  <2> TAKE i \in 1..j
  <2>1. i \in 1..Len(s) /\ j \in 1..Len(s) /\ i <= j
    BY <1>1
  <2>2. i < j => key[s[i]] < key[s[j]]
    <3>1. i < j => Before(s, s[i], s[j])
      BY <2>1, Zenon DEF Before
    <3> QED BY <3>1 DEF ByAddr
  <2> QED BY <1>1, <1>2, <2>1, <2>2
<1>4. Cardinality(C) \in 0..Len(s) /\ C = 1..Cardinality(C)
  <2>1. C \in SUBSET (1..Len(s))
    OBVIOUS
  <2> HIDE DEF C
  <2> QED BY <1>1, <1>3, <2>1, PrefixCount
<1>5. k \in 1..Len(s) + 1 /\ \A j \in 1..Len(s) : j < k <=> key[s[j]] <= key[m]
  <2>1. \A j \in 1..Len(s) : j \in 1..Cardinality(C) <=> key[s[j]] <= key[m]
    BY <1>4
  <2> HIDE DEF C
  <2> QED BY <1>1, <1>4, <2>1
<1>6. InsertByAddr(s, m, key) = InsertAt(s, k, m)
  BY DEF InsertByAddr
<1> HIDE DEF k, C
<1>7. Holds(InsertAt(s, k, m), S \cup {m}) /\ MadeRoom(InsertAt(s, k, m), s, k, m)
  <2>1. k \in 1..Len(s) + 1
    BY <1>5
  <2> QED BY <2>1, HoldsInserted
<1>8. ASSUME NEW c, NEW d, Before(InsertAt(s, k, m), c, d)
      PROVE  key[c] < key[d]
  <2>1. \/ Before(s, c, d)
        \/ c = m /\ \E j \in 1..Len(s) : k <= j /\ s[j] = d
        \/ d = m /\ \E j \in 1..Len(s) : j < k /\ s[j] = c
    BY <1>7, <1>8, Zenon DEF MadeRoom
  <2>2. CASE Before(s, c, d)
    BY <2>2 DEF ByAddr
  <2>3. ASSUME NEW j \in 1..Len(s), c = m, k <= j, s[j] = d PROVE key[c] < key[d]
    BY <1>1, <1>2, <1>5, <2>3
  <2>4. ASSUME NEW j \in 1..Len(s), d = m, j < k, s[j] = c PROVE key[c] < key[d]
    BY <1>1, <1>2, <1>5, <2>4
  <2> QED BY <2>1, <2>2, <2>3, <2>4
<1> QED BY <1>6, <1>7, <1>8, Zenon DEF ByAddr

(* Only the keys of what is in a tree matter to its order.                 *)
LEMMA Rekeyed ==
  ASSUME NEW s, NEW S, NEW old, NEW new, Holds(s, S), \A c \in S : new[c] = old[c]
  PROVE  /\ BySize(s, old) => BySize(s, new)
         /\ ByAddr(s, old) => ByAddr(s, new)
<1>1. ASSUME NEW c, NEW d, Before(s, c, d)
      PROVE  new[c] = old[c] /\ new[d] = old[d]
  <2>1. InList(s, c) /\ InList(s, d)
    BY <1>1, Zenon DEF Before, InList
  <2> QED BY <2>1 DEF Holds
<1>2. ASSUME BySize(s, old) PROVE BySize(s, new)
  BY <1>1, <1>2 DEF BySize
<1>3. ASSUME ByAddr(s, old) PROVE ByAddr(s, new)
  BY <1>1, <1>3 DEF ByAddr
<1> QED BY <1>2, <1>3

(* What is taken out of a tree leaves it in order.                         *)
LEMMA StillSorted ==
  ASSUME NEW s, NEW S, NEW h, NEW key, Holds(s, S), h \in S
  PROVE  /\ BySize(s, key) => BySize(ListRemove(s, h), key)
         /\ ByAddr(s, key) => ByAddr(ListRemove(s, h), key)
<1>1. \A c, d : Before(ListRemove(s, h), c, d) => Before(s, c, d)
  BY HoldsRemoved
<1> QED BY <1>1, Zenon DEF BySize, ByAddr

(* rm_hole, on a node that has a hole behind it or has none.               *)
LEMMA HoleTakenOut ==
  ASSUME NEW s, NEW S, NEW h, NEW r, NEW key, Holds(s, S),
         r = IF h \in S THEN ListRemove(s, h) ELSE s
  PROVE  /\ Holds(r, S \ {h})
         /\ BySize(s, key) => BySize(r, key)
         /\ ByAddr(s, key) => ByAddr(r, key)
<1>1. CASE h \in S
  BY <1>1, HoldsRemoved, StillSorted
<1>2. CASE h \notin S
  <2>1. r = s /\ S \ {h} = S
    BY <1>2
  <2> QED BY <2>1
<1> QED BY <1>1, <1>2

-----------------------------------------------------------------------------
(* The allocator while no scan is on                                       *)

Ends(st, sz) == [k \in Link |-> st[k] + sz[k]]
Behind(hs) == {h \in Link : hs[h] > 0}

(* The holes a node of the list has behind it, and what holds them.        *)
Exact(hs, nx, A, st, sz) ==
  \A h \in Link : hs[h] = IF h \in A \cup {HeadNode} THEN st[nx[h]] - (st[h] + sz[h]) ELSE 0

Trees(stack, bySize, byAddr, hs, st, sz) ==
  /\ hs \in [Link -> Nat]
  /\ Holds(stack, Behind(hs)) /\ Holds(bySize, Behind(hs)) /\ Holds(byAddr, Behind(hs))
  /\ BySize(bySize, hs) /\ ByAddr(byAddr, Ends(st, sz))

(* No two nodes of the list end at the same place.                         *)
LEMMA EndsDiffer ==
  ASSUME NEW A \in SUBSET Node, NEW st, NEW sz, Fields(st, sz), Blocks(A, st, sz),
         NEW c \in A \cup {HeadNode}, NEW d \in A \cup {HeadNode}, c # d
  PROVE  Ends(st, sz)[c] # Ends(st, sz)[d]
<1>1. /\ c \in Link /\ d \in Link /\ st[c] \in Int /\ sz[c] \in Int
      /\ st[d] \in Int /\ sz[d] \in Int
  BY DEF Fields, Link
<1>2. CASE c \in A /\ d \in A
  BY <1>1, <1>2 DEF Blocks, Ends
<1>3. CASE c \in A /\ d = HeadNode
  <2>1. st[c] + sz[c] > 0 /\ st[d] + sz[d] = 0
    BY <1>1, <1>3, DrmMmConstants DEF Blocks, Fields
  <2> QED BY <1>1, <2>1 DEF Ends
<1>4. CASE d \in A /\ c = HeadNode
  <2>1. st[d] + sz[d] > 0 /\ st[c] + sz[c] = 0
    BY <1>1, <1>4, DrmMmConstants DEF Blocks, Fields
  <2> QED BY <1>1, <2>1 DEF Ends
<1> QED BY <1>2, <1>3, <1>4

(* The ends of nodes are integers, as keys of the tree by address have to  *)
(* be.                                                                     *)
LEMMA EndsType ==
  ASSUME NEW st, NEW sz, Fields(st, sz)
  PROVE  Ends(st, sz) \in [Link -> Int]
BY DEF Ends, Fields

-----------------------------------------------------------------------------
(* What is left of a hole that a block has been put into                   *)

Left(S, h, n, front, back) ==
  ((S \ {h}) \cup (IF front > 0 THEN {h} ELSE {})) \cup (IF back > 0 THEN {n} ELSE {})

(* The holes left behind and before a block placed in a hole go on top of  *)
(* the stack.                                                              *)
LEMMA LeftOnStack ==
  ASSUME NEW s, NEW S \in SUBSET Link, NEW h \in S, NEW n \in Link \ S,
         NEW front, NEW back, Holds(s, S),
         NEW first,
         first = IF front > 0 THEN PushHole(ListRemove(s, h), h) ELSE ListRemove(s, h),
         NEW r, r = IF back > 0 THEN PushHole(first, n) ELSE first
  PROVE  Holds(r, Left(S, h, n, front, back))
<1> DEFINE q == ListRemove(s, h)
           Q == S \ {h}
           F == Q \cup (IF front > 0 THEN {h} ELSE {})
<1>1. Holds(q, Q)
  BY HoldsRemoved
<1> HIDE DEF q
<1>2. Holds(first, F)
  <2>1. CASE front > 0
    <3>1. first = PushHole(q, h) /\ F = Q \cup {h} /\ h \in Link \ Q
      BY <2>1 DEF q
    <3> HIDE DEF Q, F
    <3> QED BY <1>1, <3>1, HoldsPushed
  <2>2. CASE ~(front > 0)
    <3>1. first = q /\ F = Q
      BY <2>2 DEF q
    <3> QED BY <1>1, <3>1
  <2> QED BY <2>1, <2>2
<1>3. CASE back > 0
  <2>1. r = PushHole(first, n) /\ Left(S, h, n, front, back) = F \cup {n} /\ n \in Link \ F
    BY <1>3 DEF Left
  <2> HIDE DEF F
  <2> QED BY <1>2, <2>1, HoldsPushed
<1>4. CASE ~(back > 0)
  <2>1. r = first /\ Left(S, h, n, front, back) = F
    BY <1>4 DEF Left
  <2> QED BY <1>2, <2>1
<1> QED BY <1>3, <1>4

(* They go into the tree by size where their sizes belong.                 *)
LEMMA LeftInSizes ==
  ASSUME NEW s, NEW S \in SUBSET Link, NEW h \in S, NEW n \in Link \ S,
         NEW front, NEW back, NEW old, NEW key \in [Link -> Int],
         Holds(s, S), BySize(s, old), \A c \in S \ {h} : key[c] = old[c],
         NEW first,
         first = IF front > 0 THEN InsertBySize(ListRemove(s, h), h, key) ELSE ListRemove(s, h),
         NEW r, r = IF back > 0 THEN InsertBySize(first, n, key) ELSE first
  PROVE  Holds(r, Left(S, h, n, front, back)) /\ BySize(r, key)
<1> DEFINE q == ListRemove(s, h)
           Q == S \ {h}
           F == Q \cup (IF front > 0 THEN {h} ELSE {})
<1>1. Holds(q, Q) /\ BySize(q, old)
  BY HoldsRemoved, StillSorted
<1>2. BySize(q, key)
  <2> HIDE DEF q
  <2> QED BY <1>1, Rekeyed
<1> HIDE DEF q
<1>3. Holds(first, F) /\ BySize(first, key)
  <2>1. CASE front > 0
    <3>1. /\ first = InsertBySize(q, h, key) /\ F = Q \cup {h}
          /\ h \in Link \ Q /\ Q \in SUBSET Link
      BY <2>1 DEF q
    <3> HIDE DEF Q, F
    <3> QED BY <1>1, <1>2, <3>1, InsertedBySize
  <2>2. CASE ~(front > 0)
    <3>1. first = q /\ F = Q
      BY <2>2 DEF q
    <3> QED BY <1>1, <1>2, <3>1
  <2> QED BY <2>1, <2>2
<1>4. CASE back > 0
  <2>1. /\ r = InsertBySize(first, n, key) /\ Left(S, h, n, front, back) = F \cup {n}
        /\ n \in Link \ F /\ F \in SUBSET Link
    BY <1>4 DEF Left
  <2> HIDE DEF F
  <2> QED BY <1>3, <2>1, InsertedBySize
<1>5. CASE ~(back > 0)
  <2>1. r = first /\ Left(S, h, n, front, back) = F
    BY <1>5 DEF Left
  <2> QED BY <1>3, <2>1
<1> QED BY <1>4, <1>5

(* They go into the tree by address where their ends belong.               *)
LEMMA LeftInAddrs ==
  ASSUME NEW s, NEW S \in SUBSET Link, NEW h \in S, NEW n \in Link \ S,
         NEW front, NEW back, NEW old, NEW key \in [Link -> Int],
         Holds(s, S), ByAddr(s, old), \A c \in S \ {h} : key[c] = old[c],
         \A c \in S \cup {n} : \A d \in S \cup {n} : c # d => key[c] # key[d],
         NEW first,
         first = IF front > 0 THEN InsertByAddr(ListRemove(s, h), h, key) ELSE ListRemove(s, h),
         NEW r, r = IF back > 0 THEN InsertByAddr(first, n, key) ELSE first
  PROVE  Holds(r, Left(S, h, n, front, back)) /\ ByAddr(r, key)
<1> DEFINE q == ListRemove(s, h)
           Q == S \ {h}
           F == Q \cup (IF front > 0 THEN {h} ELSE {})
<1>1. Holds(q, Q) /\ ByAddr(q, old)
  BY HoldsRemoved, StillSorted
<1>2. ByAddr(q, key)
  <2> HIDE DEF q
  <2> QED BY <1>1, Rekeyed
<1> HIDE DEF q
<1>3. Holds(first, F) /\ ByAddr(first, key)
  <2>1. CASE front > 0
    <3>1. /\ first = InsertByAddr(q, h, key) /\ F = Q \cup {h} /\ h \in Link \ Q
          /\ Q \in SUBSET Link /\ \A c \in Q : key[c] # key[h]
      BY <2>1 DEF q
    <3> HIDE DEF Q, F
    <3> QED BY <1>1, <1>2, <3>1, InsertedByAddr
  <2>2. CASE ~(front > 0)
    <3>1. first = q /\ F = Q
      BY <2>2 DEF q
    <3> QED BY <1>1, <1>2, <3>1
  <2> QED BY <2>1, <2>2
<1>4. CASE back > 0
  <2>1. /\ r = InsertByAddr(first, n, key)
        /\ Left(S, h, n, front, back) = F \cup {n} /\ n \in Link \ F
        /\ F \in SUBSET Link /\ \A c \in F : key[c] # key[n]
    BY <1>4 DEF Left
  <2> HIDE DEF F
  <2> QED BY <1>3, <2>1, InsertedByAddr
<1>5. CASE ~(back > 0)
  <2>1. r = first /\ Left(S, h, n, front, back) = F
    BY <1>5 DEF Left
  <2> QED BY <1>3, <2>1
<1> QED BY <1>4, <1>5

-----------------------------------------------------------------------------
(* The functions that move no scan along                                   *)

Settled(A, nx, pv, st, sz, hs, stack, bySize, byAddr) ==
  /\ A \in SUBSET Node
  /\ Fields(st, sz) /\ Blocks(A, st, sz) /\ Ring(nx, pv, A \cup {HeadNode}, st, sz)
  /\ Exact(hs, nx, A, st, sz)
  /\ Trees(stack, bySize, byAddr, hs, st, sz)

Quiet == Settled(allocated, next, prev, start, size,
                 hole_size, hole_stack, holes_size, holes_addr)
QuietNext == Settled(allocated', next', prev', start', size',
                     hole_size', hole_stack', holes_size', holes_addr')

(* Only nodes of the list have a hole behind them, which ends at the next. *)
LEMMA HolesAreLinked ==
  ASSUME NEW A, NEW nx, NEW st, NEW sz, NEW hs, hs \in [Link -> Nat],
         Exact(hs, nx, A, st, sz)
  PROVE  /\ Behind(hs) \subseteq A \cup {HeadNode}
         /\ \A h \in Behind(hs) : h \in Link /\ hs[h] = st[nx[h]] - (st[h] + sz[h])
<1>1. ASSUME NEW h \in Behind(hs)
      PROVE  /\ h \in A \cup {HeadNode} /\ h \in Link
             /\ hs[h] = st[nx[h]] - (st[h] + sz[h])
  <2>1. h \in Link /\ hs[h] > 0
    BY DEF Behind
  <2>2. h \in A \cup {HeadNode}
    BY <2>1 DEF Exact
  <2> QED BY <2>1, <2>2 DEF Exact
<1> QED BY <1>1

(* Placing a node in a hole with room for it keeps list, stack and trees   *)
(* right: the end of every insertion and reservation.                      *)
LEMMA OccupyKeeps ==
  ASSUME Quiet, NEW h \in Behind(hole_size), NEW n \in Node \ allocated,
         NEW p \in Int, NEW x \in Int, x > 0,
         start[h] + size[h] <= p, p + x <= start[h] + size[h] + hole_size[h],
         Occupy(h, n, p, x)
  PROVE  QuietNext
<1> DEFINE front == p - HoleStart(h)
           back == HoleStart(h) + hole_size[h] - (p + x)
           sizes == [hole_size EXCEPT ![h] = front, ![n] = back]
           starts == [k \in Link |-> IF k = n THEN p + x ELSE HoleStart(k)]
           A == allocated
           L == A \cup {HeadNode}
<1>1. /\ A \in SUBSET Node /\ Fields(start, size) /\ Blocks(A, start, size)
      /\ Ring(next, prev, L, start, size) /\ Exact(hole_size, next, A, start, size)
      /\ Trees(hole_stack, holes_size, holes_addr, hole_size, start, size)
  BY DEF Quiet, Settled
<1>2. hole_size \in [Link -> Nat]
  BY <1>1 DEF Trees
<1>3. Behind(hole_size) \subseteq L /\ hole_size[h] = start[next[h]] - (start[h] + size[h])
  BY <1>1, <1>2, HolesAreLinked
<1>4. /\ h \in L /\ n \notin L /\ L \subseteq Link /\ h \in Link /\ n \in Link /\ h # n
      /\ next[h] \in L
  BY <1>1, <1>3, DrmMmConstants DEF Link, Ring
<1>5. start[h] \in Int /\ size[h] \in Int /\ start[next[h]] \in Int
  BY <1>1, <1>4 DEF Fields
<1>6. p + x <= start[next[h]]
  BY <1>3, <1>5
<1>7. /\ next' = Linking(next, h, n) /\ prev' = LinkingBack(next, prev, h, n)
      /\ start' = Put(start, n, p) /\ size' = Put(size, n, x)
      /\ allocated' = A \cup {n} /\ hole_size' = sizes
  BY DEF Occupy, Linking, LinkingBack, Put
<1>8. /\ Fields(start', size') /\ Blocks(A \cup {n}, start', size')
      /\ Ring(next', prev', (A \cup {n}) \cup {HeadNode}, start', size')
  <2>1. /\ h \in allocated \cup {HeadNode} /\ n \in Node \ allocated
        /\ allocated \in SUBSET Node
    BY <1>1, <1>4
  <2> HIDE DEF A, L, sizes
  <2>2. /\ Fields(start, size) /\ Blocks(allocated, start, size)
        /\ Ring(next, prev, allocated \cup {HeadNode}, start, size)
    BY <1>1 DEF A, L
  <2>3. /\ Fields(start', size') /\ Blocks(allocated \cup {n}, start', size')
        /\ Ring(next', prev', (allocated \cup {n}) \cup {HeadNode}, start', size')
    BY <1>6, <1>7, <2>1, <2>2, RingWith
  <2> QED BY <2>3 DEF A
<1>9. /\ start'[n] = p /\ size'[n] = x
      /\ \A k \in L : start'[k] = start[k] /\ size'[k] = size[k]
      /\ next'[h] = n /\ next'[n] = next[h]
      /\ \A k \in L : k # h => next'[k] = next[k]
      /\ \A k \in L : next[k] \in L
  BY <1>1, <1>4, <1>7 DEF Fields, Ring, Linking, Put
<1>10. /\ front = p - (start[h] + size[h]) /\ front \in Nat
       /\ back = start[next[h]] - (p + x) /\ back \in Nat
  BY <1>3, <1>5, <1>6 DEF HoleStart, NodeEnd
<1> HIDE DEF front, back
<1>11. /\ sizes \in [Link -> Nat] /\ sizes[h] = front /\ sizes[n] = back
       /\ \A k \in Link : k # h /\ k # n => sizes[k] = hole_size[k]
  BY <1>2, <1>4, <1>10
<1> HIDE DEF sizes
<1>12. Exact(sizes, next', A \cup {n}, start', size')
  <2> SUFFICES ASSUME NEW k \in Link
               PROVE  sizes[k] = IF k \in (A \cup {n}) \cup {HeadNode}
                                 THEN start'[next'[k]] - (start'[k] + size'[k]) ELSE 0
    BY DEF Exact
  <2>1. CASE k = h
    BY <1>4, <1>9, <1>10, <1>11, <2>1
  <2>2. CASE k = n
    BY <1>4, <1>9, <1>10, <1>11, <2>2
  <2>3. CASE k # h /\ k # n
    <3>1. sizes[k] = hole_size[k]
      BY <1>11, <2>3
    <3>2. CASE k \in L
      <4>1. next'[k] = next[k] /\ next[k] \in L /\ start'[k] = start[k] /\ size'[k] = size[k]
        BY <1>9, <2>3, <3>2
      <4>2. start'[next[k]] = start[next[k]]
        BY <1>9, <4>1
      <4> QED BY <1>1, <3>1, <3>2, <4>1, <4>2 DEF Exact
    <3>3. CASE k \notin L
      BY <1>1, <2>3, <3>1, <3>3 DEF Exact
    <3> QED BY <3>2, <3>3
  <2> QED BY <2>1, <2>2, <2>3
<1>13. Behind(sizes) = Left(Behind(hole_size), h, n, front, back)
  <2>1. ASSUME NEW k \in Link
        PROVE  k \in Behind(sizes) <=> k \in Left(Behind(hole_size), h, n, front, back)
    <3>1. CASE k = h
      BY <1>4, <1>11, <3>1 DEF Behind, Left
    <3>2. CASE k = n
      BY <1>3, <1>4, <1>11, <3>2 DEF Behind, Left
    <3>3. CASE k # h /\ k # n
      BY <1>11, <3>3 DEF Behind, Left
    <3> QED BY <3>1, <3>2, <3>3
  <2>2. /\ Behind(sizes) \subseteq Link
        /\ Left(Behind(hole_size), h, n, front, back) \subseteq Link
    BY <1>4 DEF Behind, Left
  <2> QED BY <2>1, <2>2
<1>14. starts = Ends(start', size')
  <2>1. ASSUME NEW k \in Link
        PROVE  (IF k = n THEN p + x ELSE HoleStart(k)) = start'[k] + size'[k]
    BY <1>1, <1>4, <1>7, <1>9 DEF Fields, HoleStart, NodeEnd, Put
  <2> QED BY <2>1 DEF Ends
<1> HIDE DEF starts
<1>15. starts \in [Link -> Int]
  BY <1>8, <1>14, EndsType
<1> DEFINE S == Behind(hole_size)
<1>16. S \in SUBSET Link /\ h \in S /\ n \in Link \ S
  BY <1>3, <1>4 DEF Behind
<1>17. \A c \in S \cup {n} : \A d \in S \cup {n} : c # d => starts[c] # starts[d]
  <2>1. S \cup {n} \subseteq (A \cup {n}) \cup {HeadNode} /\ A \cup {n} \in SUBSET Node
    BY <1>1, <1>3
  <2> QED BY <1>8, <1>14, <2>1, EndsDiffer
<1>18. \A c \in S \ {h} : sizes[c] = hole_size[c] /\ starts[c] = Ends(start, size)[c]
  <2>1. \A c \in S \ {h} : c \in Link /\ c # h /\ c # n
    BY <1>16
  <2>2. \A c \in Link : c # n => starts[c] = start[c] + size[c]
    BY DEF starts, HoleStart, NodeEnd
  <2> QED BY <1>11, <2>1, <2>2 DEF Ends
<1>19. /\ Holds(hole_stack, S) /\ Holds(holes_size, S) /\ Holds(holes_addr, S)
       /\ BySize(holes_size, hole_size) /\ ByAddr(holes_addr, Ends(start, size))
  BY <1>1 DEF Trees
<1> DEFINE stack1 == IF front > 0 THEN PushHole(ListRemove(hole_stack, h), h)
                     ELSE ListRemove(hole_stack, h)
           size1 == IF front > 0 THEN InsertBySize(ListRemove(holes_size, h), h, sizes)
                    ELSE ListRemove(holes_size, h)
           addr1 == IF front > 0 THEN InsertByAddr(ListRemove(holes_addr, h), h, starts)
                    ELSE ListRemove(holes_addr, h)
<1>20. /\ hole_stack' = IF back > 0 THEN PushHole(stack1, n) ELSE stack1
       /\ holes_size' = IF back > 0 THEN InsertBySize(size1, n, sizes) ELSE size1
       /\ holes_addr' = IF back > 0 THEN InsertByAddr(addr1, n, starts) ELSE addr1
  BY DEF Occupy, front, back, sizes, starts
<1> HIDE DEF S, stack1, size1, addr1
<1>21. Holds(hole_stack', Left(S, h, n, front, back))
  BY <1>16, <1>19, <1>20, LeftOnStack DEF stack1
<1>22. Holds(holes_size', Left(S, h, n, front, back)) /\ BySize(holes_size', sizes)
  <2>1. sizes \in [Link -> Int]
    BY <1>11
  <2> QED BY <1>16, <1>18, <1>19, <1>20, <2>1, LeftInSizes DEF size1
<1>23. Holds(holes_addr', Left(S, h, n, front, back)) /\ ByAddr(holes_addr', starts)
  BY <1>15, <1>16, <1>17, <1>18, <1>19, <1>20, LeftInAddrs DEF addr1
<1>24. Trees(hole_stack', holes_size', holes_addr', sizes, start', size')
  BY <1>11, <1>13, <1>14, <1>21, <1>22, <1>23 DEF Trees, S
<1>25. A \cup {n} \in SUBSET Node
  BY <1>1
<1> QED BY <1>7, <1>8, <1>12, <1>24, <1>25 DEF QuietNext, Settled

(* Links and fields off the list do not matter.                            *)
Agree(L, nx, pv, st, sz, f, b, t, z) ==
  /\ f \in [Link -> Link] /\ b \in [Link -> Link]
  /\ t \in [Link -> Int] /\ z \in [Link -> Int]
  /\ \A k \in L : f[k] = nx[k] /\ b[k] = pv[k] /\ t[k] = st[k] /\ z[k] = sz[k]

(* The ring depends on the start and size of the nodes on it only.         *)
LEMMA SameOnList ==
  ASSUME NEW nx, NEW pv, NEW A \in SUBSET Node, NEW st, NEW sz,
         Fields(st, sz), Blocks(A, st, sz), Ring(nx, pv, A \cup {HeadNode}, st, sz),
         NEW f, NEW b, NEW t, NEW z, Agree(A \cup {HeadNode}, nx, pv, st, sz, f, b, t, z)
  PROVE  Fields(t, z) /\ Blocks(A, t, z) /\ Ring(f, b, A \cup {HeadNode}, t, z)
<1> DEFINE L == A \cup {HeadNode}
<1>0. L \subseteq Link /\ HeadNode \in L
  BY DEF Link
<1>3. /\ f \in [Link -> Link] /\ b \in [Link -> Link]
      /\ t \in [Link -> Int] /\ z \in [Link -> Int]
      /\ \A k \in L : f[k] = nx[k] /\ b[k] = pv[k] /\ t[k] = st[k] /\ z[k] = sz[k]
  BY DEF Agree
<1>1. Fields(t, z)
  BY <1>0, <1>3 DEF Fields
<1>2. Blocks(A, t, z)
  BY <1>3 DEF Blocks
<1> HIDE DEF L
<1>4. /\ \A h \in L : nx[h] \in L /\ pv[h] \in L /\ pv[nx[h]] = h /\ nx[pv[h]] = h
      /\ \A h \in L : st[h] + sz[h] <= st[nx[h]]
      /\ \A h \in L : \A m \in L \ {HeadNode} : st[m] < st[h] + sz[h] \/ st[nx[h]] <= st[m]
  BY DEF Ring, L
<1>5. Ring(f, b, L, t, z)
  BY <1>3, <1>4 DEF Ring
<1> QED BY <1>1, <1>2, <1>5 DEF L

(* drm_mm_remove_node: the holes on either side become one, and the rest   *)
(* stays right.                                                            *)
LEMMA RemoveKeeps ==
  ASSUME Quiet, NEW n \in allocated, RemoveNode(n)
  PROVE  QuietNext
<1> DEFINE p == prev[n]
           q == next[n]
           A == allocated
           K == (A \ {n}) \cup {HeadNode}
           S == Behind(hole_size)
           sizes == [hole_size EXCEPT ![n] = 0, ![p] = start[next[n]] - HoleStart(p)]
           starts == [k \in Link |-> HoleStart(k)]
<1>1. /\ A \in SUBSET Node /\ Fields(start, size) /\ Blocks(A, start, size)
      /\ Ring(next, prev, A \cup {HeadNode}, start, size)
      /\ Exact(hole_size, next, A, start, size)
      /\ Trees(hole_stack, holes_size, holes_addr, hole_size, start, size)
  BY DEF Quiet, Settled
<1>2. hole_size \in [Link -> Nat]
  BY <1>1 DEF Trees
<1>3. p # n /\ q # n
  BY <1>1, NotAlone
<1>4. /\ n \in Link /\ p \in K /\ q \in K /\ K \subseteq Link /\ n \notin K
      /\ next[p] = n /\ prev[q] = n
      /\ \A k \in K : (k # p => next[k] \in K /\ next[k] # n)
  <2>1. n \in A \cup {HeadNode} /\ n # HeadNode /\ K = (A \cup {HeadNode}) \ {n}
        /\ A \cup {HeadNode} \subseteq Link
    BY <1>1, DrmMmConstants DEF Link
  <2> HIDE DEF K
  <2> QED BY <1>1, <1>3, <2>1 DEF Ring
<1>5. /\ next' = [next EXCEPT ![p] = q, ![n] = n]
      /\ prev' = [k \in Link |-> IF k = n THEN n ELSE IF k = q THEN p ELSE prev[k]]
      /\ start' = [start EXCEPT ![n] = 0] /\ size' = [size EXCEPT ![n] = 0]
      /\ allocated' = A \ {n} /\ hole_size' = sizes
  BY DEF RemoveNode
<1> HIDE DEF p, q, K, sizes, starts, S
<1>6. /\ next' \in [Link -> Link] /\ prev' \in [Link -> Link]
      /\ start' \in [Link -> Int] /\ size' \in [Link -> Int]
  <2>1. /\ next \in [Link -> Link] /\ prev \in [Link -> Link]
        /\ start \in [Link -> Int] /\ size \in [Link -> Int]
        /\ p \in Link /\ q \in Link
    BY <1>1, <1>4 DEF Ring, Fields
  <2>2. next' \in [Link -> Link]
    BY <1>4, <1>5, <2>1
  <2>3. prev' \in [Link -> Link]
    BY <1>4, <1>5, <2>1
  <2> QED BY <1>5, <2>1, <2>2, <2>3
<1>7. \A k \in K : /\ next'[k] = Without(next, prev, n)[k]
                   /\ prev'[k] = WithoutBack(next, prev, n)[k]
                   /\ start'[k] = start[k] /\ size'[k] = size[k]
  BY <1>1, <1>4, <1>5 DEF Ring, Fields, Without, WithoutBack, p, q
<1>8. Ring(Without(next, prev, n), WithoutBack(next, prev, n), K, start, size)
  BY <1>1, RingWithout DEF K
<1>9. Blocks(A \ {n}, start, size)
  BY <1>1 DEF Blocks
<1>10. /\ Fields(start', size') /\ Blocks(A \ {n}, start', size')
       /\ Ring(next', prev', K, start', size')
  <2> DEFINE B == A \ {n}
             f == Without(next, prev, n)
             b == WithoutBack(next, prev, n)
  <2>1. B \in SUBSET Node /\ Blocks(B, start, size) /\ Ring(f, b, B \cup {HeadNode}, start, size)
    BY <1>1, <1>8, <1>9 DEF K
  <2>2. Agree(B \cup {HeadNode}, f, b, start, size, next', prev', start', size')
    BY <1>6, <1>7 DEF Agree, K
  <2>3. K = B \cup {HeadNode}
    BY DEF K
  <2> HIDE DEF f, b, B
  <2>4. /\ Fields(start', size') /\ Blocks(B, start', size')
        /\ Ring(next', prev', B \cup {HeadNode}, start', size')
    BY <1>1, <2>1, <2>2, SameOnList
  <2> QED BY <2>3, <2>4 DEF B
<1>11. /\ next'[p] = q /\ \A k \in K : k # p => next'[k] = next[k]
  BY <1>1, <1>4, <1>5 DEF Ring
<1>12. /\ start[p] + size[p] <= start[n] /\ start[n] + size[n] <= start[q] /\ size[n] > 0
       /\ {start[p], size[p], start[n], size[n], start[q]} \subseteq Int
  <2>1. p \in A \cup {HeadNode} /\ n \in A \cup {HeadNode} /\ p \in Link /\ q \in Link
    BY <1>4 DEF K
  <2> QED BY <1>1, <1>4, <2>1 DEF Ring, Blocks, Fields, q
<1>13. /\ sizes \in [Link -> Nat] /\ sizes[n] = 0
       /\ sizes[p] = start[q] - (start[p] + size[p]) /\ sizes[p] > 0
       /\ \A k \in Link : k # p /\ k # n => sizes[k] = hole_size[k]
  <2>1. start[q] - HoleStart(p) \in Nat /\ start[q] - HoleStart(p) > 0
        /\ start[q] - HoleStart(p) = start[q] - (start[p] + size[p])
    BY <1>12 DEF HoleStart, NodeEnd
  <2>2. p \in Link
    BY <1>4
  <2> QED BY <1>2, <1>3, <1>4, <2>1, <2>2 DEF sizes, q
<1>14. Exact(sizes, next', A \ {n}, start', size')
  <2> SUFFICES ASSUME NEW k \in Link
               PROVE  sizes[k] = IF k \in K
                                 THEN start'[next'[k]] - (start'[k] + size'[k]) ELSE 0
    BY DEF Exact, K
  <2>1. CASE k = p
    BY <1>4, <1>7, <1>11, <1>13, <2>1
  <2>2. CASE k = n
    BY <1>4, <1>13, <2>2
  <2>3. CASE k # p /\ k # n
    <3>1. sizes[k] = hole_size[k]
      BY <1>13, <2>3
    <3>2. CASE k \in K
      <4>1. next'[k] = next[k] /\ next[k] \in K /\ start'[k] = start[k] /\ size'[k] = size[k]
        BY <1>4, <1>7, <1>11, <2>3, <3>2
      <4>2. start'[next[k]] = start[next[k]] /\ k \in A \cup {HeadNode}
        BY <1>7, <3>2, <4>1 DEF K
      <4> QED BY <1>1, <3>1, <3>2, <4>1, <4>2 DEF Exact
    <3>3. CASE k \notin K
      <4>1. k \notin A \cup {HeadNode}
        BY <2>3, <3>3 DEF K
      <4> QED BY <1>1, <3>1, <3>3, <4>1 DEF Exact
    <3> QED BY <3>2, <3>3
  <2> QED BY <2>1, <2>2, <2>3
<1> DEFINE Q == (S \ {n}) \ {p}
<1>15. Behind(sizes) = Q \cup {p} /\ Q \in SUBSET Link /\ p \in Link \ Q
  <2>1. ASSUME NEW k \in Link PROVE k \in Behind(sizes) <=> k \in Q \cup {p}
    <3>1. CASE k = p
      BY <1>13, <3>1 DEF Behind
    <3>2. CASE k # p
      BY <1>13, <3>2 DEF Behind, S
    <3> QED BY <3>1, <3>2
  <2>2. Behind(sizes) \subseteq Link /\ Q \cup {p} \subseteq Link
    BY <1>4 DEF Behind, S
  <2> QED BY <2>1, <2>2
<1>16. S \subseteq A \cup {HeadNode}
  BY <1>1, <1>2, HolesAreLinked DEF S
<1> DEFINE rm(s) == IF n \in S THEN ListRemove(s, n) ELSE s
           rm2(s) == IF p \in S \ {n} THEN ListRemove(rm(s), p) ELSE rm(s)
<1>17. /\ hole_stack' = PushHole(rm2(hole_stack), p)
       /\ holes_size' = InsertBySize(rm2(holes_size), p, sizes)
       /\ holes_addr' = InsertByAddr(rm2(holes_addr), p, starts)
  <2>1. (n \in S <=> hole_size[n] > 0) /\ (p \in S \ {n} <=> hole_size[p] > 0)
    BY <1>3, <1>4 DEF S, Behind
  <2>2. \A s : RmHole(RmHole(s, n), p) = rm2(s)
    BY <2>1 DEF RmHole
  <2> HIDE DEF rm2, rm
  <2> QED BY <2>2 DEF RemoveNode, p, q, sizes, starts
<1>18. ASSUME NEW s, NEW key, Holds(s, S)
       PROVE  /\ Holds(rm2(s), Q)
              /\ BySize(s, key) => BySize(rm2(s), key)
              /\ ByAddr(s, key) => ByAddr(rm2(s), key)
  <2>1. /\ Holds(rm(s), S \ {n})
        /\ BySize(s, key) => BySize(rm(s), key)
        /\ ByAddr(s, key) => ByAddr(rm(s), key)
    BY <1>18, HoleTakenOut
  <2> HIDE DEF rm
  <2> QED BY <2>1, HoleTakenOut
<1>19. /\ Holds(hole_stack, S) /\ Holds(holes_size, S) /\ Holds(holes_addr, S)
       /\ BySize(holes_size, hole_size) /\ ByAddr(holes_addr, Ends(start, size))
  BY <1>1 DEF Trees, S
<1>20. starts = Ends(start, size) /\ starts \in [Link -> Int]
  <2>1. starts = Ends(start, size)
    BY DEF starts, Ends, HoleStart, NodeEnd
  <2> QED BY <1>1, <2>1, EndsType
<1>21. \A c \in Q : starts[c] # starts[p]
  <2>1. p \in A \cup {HeadNode} /\ \A c \in Q : c \in A \cup {HeadNode} /\ c # p
    BY <1>4, <1>16 DEF K
  <2> QED BY <1>1, <1>20, <2>1, EndsDiffer
<1>22. \A c \in Q \cup {p} : Ends(start', size')[c] = starts[c]
  <2>1. \A c \in Q \cup {p} : c \in K /\ c \in Link
    BY <1>4, <1>16 DEF K
  <2> QED BY <1>7, <1>20, <2>1 DEF Ends
<1>23. \A c \in Q : sizes[c] = hole_size[c]
  <2>1. \A c \in Q : c \in Link /\ c # p /\ c # n
    BY <1>15
  <2> QED BY <1>13, <2>1
<1> HIDE DEF Q, rm2
<1>24. Holds(hole_stack', Q \cup {p})
  BY <1>15, <1>17, <1>18, <1>19, HoldsPushed
<1>25. Holds(holes_size', Q \cup {p}) /\ BySize(holes_size', sizes)
  <2>1. Holds(rm2(holes_size), Q) /\ BySize(rm2(holes_size), hole_size)
    BY <1>18, <1>19
  <2>2. BySize(rm2(holes_size), sizes)
    BY <1>23, <2>1, Rekeyed
  <2>3. sizes \in [Link -> Int]
    BY <1>13
  <2> QED BY <1>15, <1>17, <2>1, <2>2, <2>3, InsertedBySize
<1>26. Holds(holes_addr', Q \cup {p}) /\ ByAddr(holes_addr', Ends(start', size'))
  <2>1. Holds(rm2(holes_addr), Q) /\ ByAddr(rm2(holes_addr), starts)
    BY <1>18, <1>19, <1>20
  <2>2. Holds(holes_addr', Q \cup {p}) /\ ByAddr(holes_addr', starts)
    BY <1>15, <1>17, <1>20, <1>21, <2>1, InsertedByAddr
  <2> QED BY <1>22, <2>2, Rekeyed
<1>27. Trees(hole_stack', holes_size', holes_addr', sizes, start', size')
  BY <1>13, <1>15, <1>24, <1>25, <1>26 DEF Trees
<1>28. A \ {n} \in SUBSET Node
  BY <1>1
<1> QED BY <1>5, <1>10, <1>14, <1>27, <1>28 DEF QuietNext, Settled, K

(* The keys go with the node that is replaced.                             *)
SameKeys(S, old, new, key, keys) ==
  \A c \in S : keys[IF c = old THEN new ELSE c] = key[c]

(* list_replace and rb_replace_node, on a node that is there or is not.    *)
LEMMA HoldsReplaced ==
  ASSUME NEW s, NEW S \in SUBSET Link, NEW old \in Link, NEW new \in Link \ S, Holds(s, S),
         NEW key, NEW keys, SameKeys(S, old, new, key, keys)
  PROVE  /\ Holds(ListReplace(s, old, new),
                  IF old \in S THEN (S \ {old}) \cup {new} ELSE S)
         /\ BySize(s, key) => BySize(ListReplace(s, old, new), keys)
         /\ ByAddr(s, key) => ByAddr(ListReplace(s, old, new), keys)
<1> DEFINE r == ListReplace(s, old, new)
           is(c) == IF c = old THEN new ELSE c
           T == IF old \in S THEN (S \ {old}) \cup {new} ELSE S
<1>1. s \in Seq(Link) /\ Distinct(s)
  BY DEF Holds
<1>2. \A j \in 1..Len(s) : s[j] \in S
  BY Zenon DEF Holds, InList
<1>3. r \in Seq(Link) /\ Len(r) = Len(s) /\ \A j \in 1..Len(s) : r[j] = is(s[j])
  BY <1>1 DEF ListReplace
<1>4. \A c, d \in S : is(c) = is(d) => c = d
  OBVIOUS
<1> HIDE DEF r, is, T
<1>5. Distinct(r)
  BY <1>1, <1>2, <1>3, <1>4 DEF Distinct
<1>6. ASSUME NEW c PROVE InList(r, c) <=> c \in T
  <2>1. ASSUME InList(r, c) PROVE c \in T
    <3>1. PICK j \in 1..Len(s) : c = is(s[j])
      BY <1>3, <2>1 DEF InList
    <3> QED BY <1>2, <3>1 DEF is, T
  <2>2. ASSUME c \in T PROVE InList(r, c)
    <3>1. PICK d \in S : c = is(d)
      BY <2>2 DEF is, T
    <3>2. PICK j \in 1..Len(s) : s[j] = d
      BY <3>1, Zenon DEF Holds, InList
    <3> QED BY <1>3, <3>1, <3>2 DEF InList
  <2> QED BY <2>1, <2>2
<1>7. ASSUME NEW c, NEW d, Before(r, c, d)
      PROVE  \E a, b : Before(s, a, b) /\ keys[c] = key[a] /\ keys[d] = key[b]
  <2>1. PICK j, k \in 1..Len(s) : j < k /\ is(s[j]) = c /\ is(s[k]) = d
    BY <1>3, <1>7 DEF Before
  <2>2. Before(s, s[j], s[k])
    BY <2>1, Zenon DEF Before
  <2>3. keys[c] = key[s[j]] /\ keys[d] = key[s[k]]
    BY <1>2, <2>1 DEF is, SameKeys
  <2> QED BY <2>2, <2>3, Zenon
<1>8. ASSUME BySize(s, key) PROVE BySize(r, keys)
  <2> SUFFICES ASSUME NEW c, NEW d, Before(r, c, d) PROVE keys[c] >= keys[d]
    BY DEF BySize
  <2>1. PICK a, b : Before(s, a, b) /\ keys[c] = key[a] /\ keys[d] = key[b]
    BY <1>7
  <2> QED BY <1>8, <2>1 DEF BySize
<1>9. ASSUME ByAddr(s, key) PROVE ByAddr(r, keys)
  <2> SUFFICES ASSUME NEW c, NEW d, Before(r, c, d) PROVE keys[c] < keys[d]
    BY DEF ByAddr
  <2>1. PICK a, b : Before(s, a, b) /\ keys[c] = key[a] /\ keys[d] = key[b]
    BY <1>7
  <2> QED BY <1>9, <2>1 DEF ByAddr
<1>10. Holds(r, T)
  BY <1>3, <1>5, <1>6 DEF Holds
<1> QED BY <1>8, <1>9, <1>10 DEF r, T

(* drm_mm_replace_node: the new node takes the old one's place in the list *)
(* and in all that holds its hole.                                         *)
LEMMA ReplaceKeeps ==
  ASSUME Quiet, NEW old \in allocated, NEW new \in Node \ allocated, ReplaceNode(old, new)
  PROVE  QuietNext
<1> DEFINE A == allocated
           B == (A \ {old}) \cup {new}
           S == Behind(hole_size)
           T == IF old \in S THEN (S \ {old}) \cup {new} ELSE S
<1>1. /\ A \in SUBSET Node /\ Fields(start, size) /\ Blocks(A, start, size)
      /\ Ring(next, prev, A \cup {HeadNode}, start, size)
      /\ Exact(hole_size, next, A, start, size)
      /\ Trees(hole_stack, holes_size, holes_addr, hole_size, start, size)
  BY DEF Quiet, Settled
<1>2. hole_size \in [Link -> Nat]
  BY <1>1 DEF Trees
<1>3. /\ next' = Renamed(next, old, new) /\ prev' = Renamed(prev, old, new)
      /\ start' = Moved(start, old, new, 0) /\ size' = Moved(size, old, new, 0)
      /\ hole_size' = Moved(hole_size, old, new, 0) /\ allocated' = B
      /\ hole_stack' = ListReplace(hole_stack, old, new)
      /\ holes_size' = ListReplace(holes_size, old, new)
      /\ holes_addr' = ListReplace(holes_addr, old, new)
  BY DEF ReplaceNode, Renamed, Moved
<1>4. /\ old \in Link /\ new \in Link /\ old # new /\ HeadNode \notin {old, new}
      /\ B \in SUBSET Node /\ old \notin B /\ A \cup {HeadNode} \subseteq Link
  BY <1>1, DrmMmConstants DEF Link
<1> HIDE DEF A, B, S, T
<1>5. /\ Fields(start', size') /\ Blocks(B, start', size')
      /\ Ring(next', prev', B \cup {HeadNode}, start', size')
  BY ZenonT(90), <1>1, <1>3, RingReplaced DEF A, B
<1>6. /\ hole_size' \in [Link -> Nat] /\ hole_size'[old] = 0 /\ hole_size'[new] = hole_size[old]
      /\ \A k \in Link : k # old /\ k # new => hole_size'[k] = hole_size[k]
  BY <1>2, <1>3, <1>4 DEF Moved
<1>7. \A k \in A \cup {HeadNode} :
        /\ start'[IF k = old THEN new ELSE k] = start[k]
        /\ size'[IF k = old THEN new ELSE k] = size[k]
        /\ next'[IF k = old THEN new ELSE k] = IF next[k] = old THEN new ELSE next[k]
  <2>1. next[old] # old
    BY <1>1, NotAlone DEF A
  <2>2. new \notin A
    BY DEF A
  <2> QED BY <1>3, <1>4, <2>1, <2>2 DEF Moved, Renamed
<1>8. \A k \in A \cup {HeadNode} : next[k] \in A \cup {HeadNode}
  BY <1>1 DEF Ring
<1>9. Exact(hole_size', next', B, start', size')
  <2> SUFFICES ASSUME NEW k \in Link
               PROVE  hole_size'[k] = IF k \in B \cup {HeadNode}
                                      THEN start'[next'[k]] - (start'[k] + size'[k]) ELSE 0
    BY DEF Exact
  <2>1. ASSUME NEW j \in A \cup {HeadNode}, k = IF j = old THEN new ELSE j
        PROVE  hole_size'[k] = start'[next'[k]] - (start'[k] + size'[k])
    <3>1. hole_size'[k] = hole_size[j]
      <4>1. new \notin A \cup {HeadNode}
        BY <1>4 DEF A
      <4> QED BY <1>4, <1>6, <2>1, <4>1
    <3>2. hole_size[j] = start[next[j]] - (start[j] + size[j])
      BY <1>1, <1>4 DEF Exact
    <3>3. start'[next'[k]] = start[next[j]] /\ start'[k] = start[j] /\ size'[k] = size[j]
      BY <1>7, <1>8, <2>1
    <3> QED BY <3>1, <3>2, <3>3
  <2>2. CASE k = new
    <3>1. old \in A \cup {HeadNode}
      BY DEF A
    <3> QED BY <2>1, <2>2, <3>1 DEF B
  <2>3. CASE k = old
    BY <1>4, <1>6, <2>3
  <2>4. CASE k # old /\ k # new /\ k \in A \cup {HeadNode}
    BY <2>1, <2>4 DEF B
  <2>5. CASE k # old /\ k # new /\ k \notin A \cup {HeadNode}
    BY <1>1, <1>6, <2>5 DEF B, Exact
  <2> QED BY <2>2, <2>3, <2>4, <2>5
<1>10. S \in SUBSET Link /\ new \in Link \ S /\ S \subseteq A \cup {HeadNode}
  <2>1. S \subseteq A \cup {HeadNode}
    BY <1>1, <1>2, HolesAreLinked DEF S
  <2>2. new \notin A \cup {HeadNode}
    BY <1>4 DEF A
  <2> QED BY <1>4, <2>1, <2>2
<1>11. Behind(hole_size') = T
  <2>1. ASSUME NEW k \in Link PROVE k \in Behind(hole_size') <=> k \in T
    <3>1. CASE k = old
      BY <1>4, <1>6, <3>1 DEF Behind, T
    <3>2. CASE k = new
      BY <1>4, <1>6, <1>10, <3>2 DEF Behind, S, T
    <3>3. CASE k # old /\ k # new
      BY <1>6, <3>3 DEF Behind, S, T
    <3> QED BY <3>1, <3>2, <3>3
  <2>2. Behind(hole_size') \subseteq Link /\ T \subseteq Link
    BY <1>4, <1>10 DEF Behind, T
  <2> QED BY <2>1, <2>2
<1>12. SameKeys(S, old, new, hole_size, hole_size')
  BY <1>4, <1>6, <1>10 DEF SameKeys
<1>13. SameKeys(S, old, new, Ends(start, size), Ends(start', size'))
  <2>1. \A c \in S : c \in Link /\ (IF c = old THEN new ELSE c) \in Link
                     /\ c \in A \cup {HeadNode}
    BY <1>4, <1>10
  <2> QED BY <1>7, <2>1 DEF Ends, SameKeys
<1>14. /\ Holds(hole_stack, S) /\ Holds(holes_size, S) /\ Holds(holes_addr, S)
       /\ BySize(holes_size, hole_size) /\ ByAddr(holes_addr, Ends(start, size))
  BY <1>1 DEF Trees, S
<1>15. Holds(hole_stack', T)
  BY <1>3, <1>4, <1>10, <1>12, <1>14, HoldsReplaced DEF T
<1>16. Holds(holes_size', T) /\ BySize(holes_size', hole_size')
  <2>1. Holds(holes_size, S) /\ SameKeys(S, old, new, hole_size, hole_size')
    BY <1>12, <1>14
  <2>2. /\ Holds(ListReplace(holes_size, old, new), T)
        /\ BySize(holes_size, hole_size)
             => BySize(ListReplace(holes_size, old, new), hole_size')
    BY <1>4, <1>10, <2>1, HoldsReplaced DEF T
  <2> QED BY <1>3, <1>14, <2>2
<1>17. Holds(holes_addr', T) /\ ByAddr(holes_addr', Ends(start', size'))
  <2> DEFINE e == Ends(start, size)
             f == Ends(start', size')
  <2>1. Holds(holes_addr, S) /\ SameKeys(S, old, new, e, f)
    BY <1>13, <1>14
  <2> HIDE DEF e, f
  <2>2. /\ Holds(ListReplace(holes_addr, old, new), T)
        /\ ByAddr(holes_addr, e) => ByAddr(ListReplace(holes_addr, old, new), f)
    BY <1>4, <1>10, <2>1, HoldsReplaced DEF T
  <2> QED BY <1>3, <1>14, <2>2 DEF e, f
<1>18. Trees(hole_stack', holes_size', holes_addr', hole_size', start', size')
  BY <1>6, <1>11, <1>15, <1>16, <1>17 DEF Trees
<1> QED BY <1>3, <1>4, <1>5, <1>9, <1>18 DEF QuietNext, Settled

(* drm_mm_init: an empty list, and one hole behind head_node.              *)
LEMMA InitIsQuiet ==
  ASSUME DrmMmInit
  PROVE  Quiet /\ scanned = {}
<1> DEFINE L == {} \cup {HeadNode}
<1>1. /\ L = {HeadNode} /\ HeadNode \in Link /\ PoolSize \in Nat /\ PoolSize > 0
  BY DrmMmConstants DEF Link
<1>2. /\ next = [n \in Link |-> n] /\ prev = [n \in Link |-> n] /\ allocated = {} /\ scanned = {}
      /\ start = [n \in Link |-> IF n = HeadNode THEN PoolSize ELSE 0]
      /\ size = [n \in Link |-> IF n = HeadNode THEN -PoolSize ELSE 0]
      /\ hole_size = [n \in Link |-> IF n = HeadNode THEN PoolSize ELSE 0]
      /\ hole_stack = <<HeadNode>> /\ holes_size = <<HeadNode>> /\ holes_addr = <<HeadNode>>
  BY DEF DrmMmInit
<1>3. Fields(start, size)
  BY <1>1, <1>2 DEF Fields
<1>4. Blocks({}, start, size)
  BY DEF Blocks
<1>5. start[HeadNode] + size[HeadNode] = 0 /\ next[HeadNode] = HeadNode /\ prev[HeadNode] = HeadNode
      /\ start[HeadNode] = PoolSize /\ hole_size[HeadNode] = PoolSize
  BY <1>1, <1>2
<1>6. Ring(next, prev, L, start, size)
  <2>1. next \in [Link -> Link] /\ prev \in [Link -> Link]
    BY <1>2
  <2>2. L \ {HeadNode} = {} /\ \A h \in L : h = HeadNode
    BY <1>1
  <2> HIDE DEF L
  <2> QED BY <1>1, <1>5, <2>1, <2>2 DEF Ring
<1>7. Exact(hole_size, next, {}, start, size)
  BY <1>1, <1>2, <1>5 DEF Exact
<1>8. Behind(hole_size) = {HeadNode} /\ hole_size \in [Link -> Nat]
  BY <1>1, <1>2 DEF Behind
<1>9. Holds(<<HeadNode>>, {HeadNode}) /\ \A c, d : ~Before(<<HeadNode>>, c, d)
  BY <1>1 DEF Holds, Distinct, InList, Before
<1>10. Trees(hole_stack, holes_size, holes_addr, hole_size, start, size)
  BY <1>2, <1>8, <1>9 DEF Trees, BySize, ByAddr
<1> QED BY <1>2, <1>3, <1>4, <1>6, <1>7, <1>10 DEF Quiet, Settled

-----------------------------------------------------------------------------
(* Scans                                                                   *)

(* The links as they were, and will be again: f[i] and b[i] are those of   *)
(* the list of nodes L[i] once the last i of the nodes taken out, the      *)
(* first of s first, are back.                                             *)
Unwinds(s, f, b, L, A, st, sz) ==
  /\ \A i \in 0..Len(s) : L[i] \in SUBSET A /\ Ring(f[i], b[i], L[i] \cup {HeadNode}, st, sz)
  /\ \A i \in 1..Len(s) :
       /\ s[i] \in L[i] /\ L[i - 1] = L[i] \ {s[i]}
       /\ f[i - 1] = Without(f[i], b[i], s[i])
       /\ b[i - 1] = WithoutBack(f[i], b[i], s[i])

Scans(s, nx, pv, A, C, st, sz, hs) ==
  \E f, b, L :
    /\ f[0] = nx /\ b[0] = pv /\ L[0] = A \ C
    /\ L[Len(s)] = A /\ Exact(hs, f[Len(s)], A, st, sz)
    /\ Unwinds(s, f, b, L, A, st, sz)

ScanState(s, nx, pv, A, C, st, sz, hs, stack, bySize, byAddr) ==
  /\ A \in SUBSET Node /\ C \in SUBSET A /\ s \in Seq(Node)
  /\ Fields(st, sz) /\ Blocks(A, st, sz)
  /\ Trees(stack, bySize, byAddr, hs, st, sz)
  /\ Scans(s, nx, pv, A, C, st, sz, hs)

InScan(s) == ScanState(s, next, prev, allocated, scanned, start, size,
                       hole_size, hole_stack, holes_size, holes_addr)
InScanNext(s) == ScanState(s, next', prev', allocated', scanned', start', size',
                           hole_size', hole_stack', holes_size', holes_addr')

(* Nothing is on the roster exactly when no node has been taken out.       *)
LEMMA RosterEmpty ==
  ASSUME NEW s, InScan(s)
  PROVE  /\ s = <<>> <=> scanned = {}
         /\ s = <<>> => Quiet
<1>1. PICK f, b, L :
        /\ f[0] = next /\ b[0] = prev /\ L[0] = allocated \ scanned
        /\ L[Len(s)] = allocated /\ Exact(hole_size, f[Len(s)], allocated, start, size)
        /\ Unwinds(s, f, b, L, allocated, start, size)
  BY Zenon DEF InScan, ScanState, Scans
<1>2. s \in Seq(Node) /\ Len(s) \in Nat /\ scanned \in SUBSET allocated
  BY DEF InScan, ScanState
<1>3. ASSUME s = <<>> PROVE scanned = {} /\ Quiet
  <2>1. Len(s) = 0 /\ 0 \in 0..Len(s)
    BY <1>3
  <2>2. allocated \ scanned = allocated
    BY <1>1, <2>1
  <2>3. Ring(f[0], b[0], L[0] \cup {HeadNode}, start, size)
    BY <1>1, <2>1 DEF Unwinds
  <2>4. Exact(hole_size, next, allocated, start, size)
    BY <1>1, <2>1
  <2>5. scanned = {}
    BY <1>2, <2>2
  <2> QED BY <1>1, <2>2, <2>3, <2>4, <2>5 DEF InScan, ScanState, Quiet, Settled
<1>4. ASSUME s # <<>> PROVE scanned # {}
  <2>1. 1 \in 1..Len(s) /\ 1 \in 0..Len(s) /\ 1 - 1 = 0
    BY <1>2, <1>4
  <2>2. \A i \in 1..Len(s) : s[i] \in L[i] /\ L[i - 1] = L[i] \ {s[i]}
    BY <1>1 DEF Unwinds
  <2>3. L[1] \in SUBSET allocated
    BY <1>1, <2>1 DEF Unwinds
  <2>4. s[1] \in L[1] /\ L[0] = L[1] \ {s[1]}
    BY <2>1, <2>2
  <2> QED BY <1>1, <2>3, <2>4
<1> QED BY <1>3, <1>4

(* An allocator on which no scan is under way is in a scan that has        *)
(* nothing on its roster.                                                  *)
LEMMA SettledIsScan ==
  ASSUME NEW A, NEW nx, NEW pv, NEW st, NEW sz, NEW hs, NEW stack, NEW bySize, NEW byAddr,
         Settled(A, nx, pv, st, sz, hs, stack, bySize, byAddr)
  PROVE  ScanState(<<>>, nx, pv, A, {}, st, sz, hs, stack, bySize, byAddr)
<1> DEFINE f == [i \in {0} |-> nx]
           b == [i \in {0} |-> pv]
           L == [i \in {0} |-> A]
<1>1. f[0] = nx /\ b[0] = pv /\ L[0] = A
  OBVIOUS
<1> HIDE DEF f, b, L
<1>2. Unwinds(<<>>, f, b, L, A, st, sz)
  <2>1. Len(<<>>) = 0 /\ A \in SUBSET A /\ Ring(nx, pv, A \cup {HeadNode}, st, sz)
    BY DEF Settled
  <2> QED BY <1>1, <2>1 DEF Unwinds
<1>3. Exact(hs, f[0], A, st, sz) /\ Len(<<>>) = 0 /\ A \ {} = A
  BY <1>1 DEF Settled
<1>4. Scans(<<>>, nx, pv, A, {}, st, sz, hs)
  BY <1>1, <1>2, <1>3, Zenon DEF Scans
<1> QED BY <1>4 DEF ScanState, Settled

(* drm_mm_scan_add_block takes a node out of the list; the list before it  *)
(* joins those the scan remembers.                                         *)
LEMMA ScanAddKeeps ==
  ASSUME NEW s, InScan(s), NEW n \in allocated \ scanned, ScanAddBlock(n)
  PROVE  InScanNext(ListPrepend(s, n))
<1>1. PICK f, b, L :
        /\ f[0] = next /\ b[0] = prev /\ L[0] = allocated \ scanned
        /\ L[Len(s)] = allocated /\ Exact(hole_size, f[Len(s)], allocated, start, size)
        /\ Unwinds(s, f, b, L, allocated, start, size)
  BY Zenon DEF InScan, ScanState, Scans
<1>2. s \in Seq(Node) /\ Len(s) \in Nat /\ scanned \in SUBSET allocated /\ allocated \in SUBSET Node
  BY DEF InScan, ScanState
<1> DEFINE r == ListPrepend(s, n)
           m == Len(s) + 1
           g == [i \in 0..m |-> IF i = 0 THEN next' ELSE f[i - 1]]
           c == [i \in 0..m |-> IF i = 0 THEN prev' ELSE b[i - 1]]
           M == [i \in 0..m |-> IF i = 0 THEN allocated \ (scanned \cup {n}) ELSE L[i - 1]]
<1>3. r \in Seq(Node) /\ Len(r) = m /\ r[1] = n /\ \A i \in 2..m : r[i] = s[i - 1]
  BY <1>2 DEF ListPrepend
<1>4. /\ g[0] = next' /\ c[0] = prev' /\ M[0] = allocated \ (scanned \cup {n})
      /\ \A i \in 1..m : g[i] = f[i - 1] /\ c[i] = b[i - 1] /\ M[i] = L[i - 1]
  BY <1>2
<1> HIDE DEF g, c, M, r
<1>5. /\ next' = Without(next, prev, n) /\ prev' = WithoutBack(next, prev, n)
      /\ scanned' = scanned \cup {n}
      /\ UNCHANGED <<start, size, allocated, hole_size, hole_stack, holes_size, holes_addr>>
  BY DEF ScanAddBlock, Without, WithoutBack, nodeVars, holeVars
<1>6. \A i \in 0..Len(s) : L[i] \in SUBSET allocated
                           /\ Ring(f[i], b[i], L[i] \cup {HeadNode}, start, size)
  BY <1>1 DEF Unwinds
<1>7. \A i \in 1..Len(s) : /\ s[i] \in L[i] /\ L[i - 1] = L[i] \ {s[i]}
                           /\ f[i - 1] = Without(f[i], b[i], s[i])
                           /\ b[i - 1] = WithoutBack(f[i], b[i], s[i])
  BY <1>1 DEF Unwinds
<1>8. Ring(next', prev', M[0] \cup {HeadNode}, start, size)
  <2> DEFINE B == allocated \ scanned
  <2>1. Ring(next, prev, B \cup {HeadNode}, start, size)
    <3>1. 0 \in 0..Len(s)
      BY <1>2
    <3>2. Ring(f[0], b[0], L[0] \cup {HeadNode}, start, size)
      BY <1>6, <3>1
    <3> QED BY <1>1, <3>2
  <2>2. Fields(start, size) /\ Blocks(B, start, size) /\ B \in SUBSET Node /\ n \in B
    BY <1>2 DEF InScan, ScanState, Blocks
  <2>3. M[0] = B \ {n}
    BY <1>4
  <2> HIDE DEF B
  <2> QED BY <1>5, <2>1, <2>2, <2>3, RingWithout
<1>9. ASSUME NEW i \in 0..m
      PROVE  M[i] \in SUBSET allocated /\ Ring(g[i], c[i], M[i] \cup {HeadNode}, start, size)
  <2>1. CASE i = 0
    BY <1>4, <1>8, <2>1
  <2>2. CASE i # 0
    <3>1. i \in 1..m /\ i - 1 \in 0..Len(s)
      BY <1>2, <2>2
    <3> QED BY <1>4, <1>6, <3>1
  <2> QED BY <2>1, <2>2
<1>10. ASSUME NEW i \in 1..m
       PROVE  /\ r[i] \in M[i] /\ M[i - 1] = M[i] \ {r[i]}
              /\ g[i - 1] = Without(g[i], c[i], r[i])
              /\ c[i - 1] = WithoutBack(g[i], c[i], r[i])
  <2>1. CASE i = 1
    <3>1. i - 1 = 0 /\ r[i] = n
      BY <1>3, <2>1
    <3>2. g[i] = f[0] /\ c[i] = b[0] /\ M[i] = L[0]
      BY <1>4, <3>1
    <3>3. M[0] = (allocated \ scanned) \ {n}
      BY <1>4
    <3> QED BY <1>1, <1>4, <1>5, <3>1, <3>2, <3>3
  <2>2. CASE i # 1
    <3>1. i - 1 \in 1..Len(s) /\ i - 1 \in 1..m /\ i \in 2..m
      BY <1>2, <2>2
    <3> DEFINE j == i - 1
    <3>2. r[i] = s[j] /\ g[i] = f[j] /\ c[i] = b[j] /\ M[i] = L[j]
      BY <1>3, <1>4, <3>1
    <3>3. g[j] = f[j - 1] /\ c[j] = b[j - 1] /\ M[j] = L[j - 1]
      BY <1>4, <3>1
    <3> HIDE DEF j
    <3>4. j \in 1..Len(s)
      BY <3>1 DEF j
    <3>5. g[j] = Without(g[i], c[i], r[i]) /\ c[j] = WithoutBack(g[i], c[i], r[i])
          /\ r[i] \in M[i] /\ M[j] = M[i] \ {r[i]}
      BY <1>7, <3>2, <3>3, <3>4
    <3> QED BY <3>5 DEF j
  <2> QED BY <2>1, <2>2
<1>11. Unwinds(r, g, c, M, allocated, start, size)
  BY <1>3, <1>9, <1>10 DEF Unwinds
<1>12. M[m] = allocated /\ Exact(hole_size, g[m], allocated, start, size)
  <2>1. m \in 1..m /\ m - 1 = Len(s)
    BY <1>2
  <2>2. g[m] = f[Len(s)] /\ M[m] = L[Len(s)]
    BY <1>4, <2>1
  <2> QED BY <1>1, <2>2
<1>13. Scans(r, next', prev', allocated, scanned', start, size, hole_size)
  BY <1>3, <1>4, <1>5, <1>11, <1>12, Zenon DEF Scans
<1>14. scanned' \in SUBSET allocated
  BY <1>2, <1>5
<1> QED BY <1>3, <1>5, <1>13, <1>14 DEF InScanNext, InScan, ScanState, r

(* drm_mm_scan_remove_block puts back the node added last, whose links     *)
(* still say where it was.                                                 *)
LEMMA ScanRemoveKeeps ==
  ASSUME NEW s, InScan(s), s # <<>>, ScanRemoveBlock(s[1])
  PROVE  InScanNext(Tail(s))
<1>1. PICK f, b, L :
        /\ f[0] = next /\ b[0] = prev /\ L[0] = allocated \ scanned
        /\ L[Len(s)] = allocated /\ Exact(hole_size, f[Len(s)], allocated, start, size)
        /\ Unwinds(s, f, b, L, allocated, start, size)
  BY Zenon DEF InScan, ScanState, Scans
<1>2. /\ s \in Seq(Node) /\ Len(s) \in Nat /\ Len(s) > 0
      /\ scanned \in SUBSET allocated /\ allocated \in SUBSET Node
  BY DEF InScan, ScanState
<1> DEFINE r == Tail(s)
           n == s[1]
           m == Len(s) - 1
           g == [i \in 0..m |-> f[i + 1]]
           c == [i \in 0..m |-> b[i + 1]]
           M == [i \in 0..m |-> L[i + 1]]
<1>3. r \in Seq(Node) /\ Len(r) = m /\ m \in Nat /\ \A i \in 1..m : r[i] = s[i + 1]
  BY <1>2
<1>4. \A i \in 0..m : g[i] = f[i + 1] /\ c[i] = b[i + 1] /\ M[i] = L[i + 1]
  OBVIOUS
<1> HIDE DEF g, c, M, r
<1>5. /\ next' = PutBack(next, prev, n) /\ prev' = Put(prev, next[prev[n]], n)
      /\ scanned' = scanned \ {n}
      /\ UNCHANGED <<start, size, allocated, hole_size, hole_stack, holes_size, holes_addr>>
  BY DEF ScanRemoveBlock, nodeVars, holeVars, Put, PutBack
<1>6. \A i \in 0..Len(s) : L[i] \in SUBSET allocated
                           /\ Ring(f[i], b[i], L[i] \cup {HeadNode}, start, size)
  BY <1>1 DEF Unwinds
<1>7. \A i \in 1..Len(s) : /\ s[i] \in L[i] /\ L[i - 1] = L[i] \ {s[i]}
                           /\ f[i - 1] = Without(f[i], b[i], s[i])
                           /\ b[i - 1] = WithoutBack(f[i], b[i], s[i])
  BY <1>1 DEF Unwinds
<1>8. /\ n \in L[1] /\ L[0] = L[1] \ {n} /\ L[1] \in SUBSET allocated
      /\ f[0] = Without(f[1], b[1], n) /\ b[0] = WithoutBack(f[1], b[1], n)
      /\ Ring(f[1], b[1], L[1] \cup {HeadNode}, start, size)
  <2>1. 1 \in 1..Len(s) /\ 1 \in 0..Len(s) /\ 1 - 1 = 0
    BY <1>2
  <2> QED BY <1>6, <1>7, <2>1
<1>9. next' = f[1] /\ prev' = b[1]
  <2>1. Fields(start, size) /\ Blocks(L[1], start, size) /\ L[1] \in SUBSET Node
    BY <1>2, <1>8 DEF InScan, ScanState, Blocks
  <2> QED BY <1>1, <1>5, <1>8, <2>1, BackAgain
<1>10. L[1] = allocated \ scanned'
  <2>1. L[1] = (allocated \ scanned) \cup {n}
    BY <1>1, <1>8
  <2> QED BY <1>5, <1>8, <2>1
<1>11. Unwinds(r, g, c, M, allocated, start, size)
  <2>1. ASSUME NEW i \in 0..m
        PROVE  M[i] \in SUBSET allocated /\ Ring(g[i], c[i], M[i] \cup {HeadNode}, start, size)
    <3>1. i + 1 \in 0..Len(s)
      BY <1>2
    <3> QED BY <1>4, <1>6, <3>1
  <2>2. ASSUME NEW i \in 1..m
        PROVE  /\ r[i] \in M[i] /\ M[i - 1] = M[i] \ {r[i]}
               /\ g[i - 1] = Without(g[i], c[i], r[i])
               /\ c[i - 1] = WithoutBack(g[i], c[i], r[i])
    <3>1. /\ i + 1 \in 1..Len(s) /\ i - 1 \in 0..m /\ i \in 0..m
          /\ (i + 1) - 1 = i /\ (i - 1) + 1 = i
      BY <1>2
    <3>2. r[i] = s[i + 1] /\ g[i] = f[i + 1] /\ c[i] = b[i + 1] /\ M[i] = L[i + 1]
      BY <1>3, <1>4, <3>1
    <3>3. g[i - 1] = f[i] /\ c[i - 1] = b[i] /\ M[i - 1] = L[i]
      BY <1>4, <3>1
    <3> DEFINE j == i + 1
    <3>4. /\ s[j] \in L[j] /\ L[j - 1] = L[j] \ {s[j]}
          /\ f[j - 1] = Without(f[j], b[j], s[j])
          /\ b[j - 1] = WithoutBack(f[j], b[j], s[j])
      BY <1>7, <3>1
    <3>5. j - 1 = i
      OBVIOUS
    <3> HIDE DEF j
    <3>6. /\ s[j] \in L[j] /\ L[i] = L[j] \ {s[j]}
          /\ f[i] = Without(f[j], b[j], s[j]) /\ b[i] = WithoutBack(f[j], b[j], s[j])
      BY <3>4, <3>5
    <3>7. r[i] = s[j] /\ g[i] = f[j] /\ c[i] = b[j] /\ M[i] = L[j]
      BY <3>2 DEF j
    <3> QED BY <3>3, <3>6, <3>7
  <2> QED BY <1>3, <2>1, <2>2 DEF Unwinds
<1>12. g[0] = next' /\ c[0] = prev' /\ M[0] = allocated \ scanned'
  <2>1. 0 \in 0..m /\ 0 + 1 = 1
    BY <1>3
  <2> QED BY <1>4, <1>9, <1>10, <2>1
<1>13. M[m] = allocated /\ Exact(hole_size, g[m], allocated, start, size)
  <2>1. m \in 0..m /\ m + 1 = Len(s)
    BY <1>2
  <2> QED BY <1>1, <1>4, <2>1
<1>14. Scans(r, next', prev', allocated, scanned', start, size, hole_size)
  BY <1>3, <1>11, <1>12, <1>13, Zenon DEF Scans
<1>15. scanned' \in SUBSET allocated
  BY <1>2, <1>5
<1> QED BY <1>3, <1>5, <1>14, <1>15 DEF InScanNext, InScan, ScanState, r

-----------------------------------------------------------------------------
(* Searches                                                                *)

(* Whatever the alignment, the block is inside the free range.             *)
LEMMA AlignedIsInside ==
  ASSUME NEW lo \in Int, NEW hi \in Int, NEW x \in Int, NEW alignment \in Nat, NEW mode,
         NEW p \in Aligned(lo, hi, x, alignment, mode)
  PROVE  p \in Int /\ lo <= p /\ p + x <= hi
<1> DEFINE base == IF mode = "HIGH" THEN hi - x ELSE lo
           rem == IF alignment <= 1 THEN 0 ELSE base % alignment
           pos == IF rem = 0 THEN base
                  ELSE base - rem + (IF mode = "HIGH" THEN 0 ELSE alignment)
<1>1. base \in Int
  OBVIOUS
<1>2. rem \in Int
  <2>1. CASE alignment <= 1
    BY <2>1
  <2>2. CASE ~(alignment <= 1)
    <3>1. alignment \in Nat \ {0}
      BY <2>2
    <3> HIDE DEF base
    <3>2. base % alignment \in Int
      BY <1>1, <3>1
    <3> QED BY <2>2, <3>2
  <2> QED BY <2>1, <2>2
<1>3. p = pos /\ p >= lo /\ hi - p >= x
  BY DEF Aligned
<1> HIDE DEF rem, base
<1>4. pos \in Int
  BY <1>1, <1>2
<1> QED BY <1>3, <1>4

(* Whichever hole a walk down the tree ends at, it is one of the tree.     *)
LEMMA FindHoleFinds ==
  ASSUME NEW addr, holes_addr \in Seq(Link)
  PROVE  FindHole(addr) \subseteq 1..Len(holes_addr)
<1> DEFINE ends(k) == HoleStart(holes_addr[k]) + hole_size[holes_addr[k]]
           all == 1..Len(holes_addr)
           around == {k \in all : HoleStart(holes_addr[k]) <= addr /\ addr <= ends(k)}
           below == {k \in all : ends(k) < addr}
           above == {k \in all : addr < HoleStart(holes_addr[k])}
<1>1. around \subseteq all /\ below \subseteq all /\ above \subseteq all
  OBVIOUS
<1>2. FindHole(addr) = IF around # {} THEN around
                       ELSE (IF below = {} THEN {} ELSE {Max(below)})
                              \cup (IF above = {} THEN {} ELSE {Min(above)})
  BY DEF FindHole
<1>3. Len(holes_addr) \in Nat /\ all \subseteq Nat
  OBVIOUS
<1> HIDE DEF around, below, above
<1>4. below # {} => Max(below) \in all
  BY <1>1, <1>3, GreatestPlace
<1>5. above # {} => Min(above) \in all
  <2>1. above \in SUBSET Nat
    BY <1>1, <1>3
  <2> HIDE DEF all
  <2> QED BY <1>1, <2>1, LeastElement
<1> QED BY <1>1, <1>2, <1>4, <1>5

(* Every search goes from hole to hole.                                    *)
LEMMA WalksOverHoles ==
  ASSUME NEW x, NEW range_start, NEW range_end, NEW mode,
         Trees(hole_stack, holes_size, holes_addr, hole_size, start, size),
         mode \in {"BEST", "LOW", "HIGH", "EVICT"},
         holes_size # <<>>, hole_size[holes_size[1]] >= x,
         NEW w \in HoleWalks(x, range_start, range_end, mode)
  PROVE  Len(w) \in Nat /\ \A k \in 1..Len(w) : w[k] \in Behind(hole_size)
<1>1. /\ hole_stack \in Seq(Link) /\ holes_size \in Seq(Link) /\ holes_addr \in Seq(Link)
      /\ \A k \in 1..Len(hole_stack) : hole_stack[k] \in Behind(hole_size)
      /\ \A k \in 1..Len(holes_size) : holes_size[k] \in Behind(hole_size)
      /\ \A k \in 1..Len(holes_addr) : holes_addr[k] \in Behind(hole_size)
  BY Zenon DEF Trees, Holds, InList
<1>2. CASE mode = "BEST"
  <2> DEFINE C == {k \in 1..Len(holes_size) : hole_size[holes_size[k]] >= x}
             m == BestHole(x)
  <2>1. Len(holes_size) \in Nat /\ 1 \in C /\ C \subseteq 1..Len(holes_size) /\ m = Max(C)
    BY <1>1 DEF BestHole
  <2> HIDE DEF C, m
  <2>2. m \in 1..Len(holes_size)
    BY <2>1, GreatestPlace
  <2>3. w = Reverse(SubSeq(holes_size, 1, m))
    BY <1>2 DEF HoleWalks, m
  <2>4. /\ Len(SubSeq(holes_size, 1, m)) = m
        /\ \A k \in 1..m : SubSeq(holes_size, 1, m)[k] = holes_size[k]
    BY <1>1, <2>2
  <2>5. Len(w) = m /\ \A k \in 1..m : w[k] = holes_size[m - k + 1]
    BY <2>2, <2>3, <2>4 DEF Reverse
  <2>6. \A k \in 1..m : m - k + 1 \in 1..Len(holes_size)
    BY <2>1, <2>2
  <2>7. \A k \in 1..m : w[k] \in Behind(hole_size)
    BY <1>1, <2>5, <2>6
  <2> QED BY <2>2, <2>5, <2>7
<1>3. CASE mode = "LOW"
  <2>1. PICK m \in FindHole(range_start) : w = SubSeq(holes_addr, m, Len(holes_addr))
    BY <1>3 DEF HoleWalks
  <2>2. m \in 1..Len(holes_addr) /\ Len(holes_addr) \in Nat
    BY <1>1, FindHoleFinds
  <2> DEFINE n == Len(holes_addr)
  <2>3. Len(w) = n - m + 1 /\ \A k \in 1..n - m + 1 : w[k] = holes_addr[m + k - 1]
    BY <1>1, <2>1, <2>2
  <2>4. \A k \in 1..n - m + 1 : m + k - 1 \in 1..n
    BY <2>2
  <2>5. \A k \in 1..n - m + 1 : w[k] \in Behind(hole_size)
    BY <1>1, <2>3, <2>4
  <2> QED BY <2>2, <2>3, <2>5
<1>4. CASE mode = "HIGH"
  <2>1. PICK m \in FindHole(range_end) : w = Reverse(SubSeq(holes_addr, 1, m))
    BY <1>4 DEF HoleWalks
  <2>2. m \in 1..Len(holes_addr) /\ Len(holes_addr) \in Nat
    BY <1>1, FindHoleFinds
  <2>3. /\ Len(SubSeq(holes_addr, 1, m)) = m
        /\ \A k \in 1..m : SubSeq(holes_addr, 1, m)[k] = holes_addr[k]
    BY <1>1, <2>2
  <2>4. Len(w) = m /\ \A k \in 1..m : w[k] = holes_addr[m - k + 1]
    BY <2>1, <2>2, <2>3 DEF Reverse
  <2>5. \A k \in 1..m : m - k + 1 \in 1..Len(holes_addr)
    BY <2>2
  <2>6. \A k \in 1..m : w[k] \in Behind(hole_size)
    BY <1>1, <2>4, <2>5
  <2> QED BY <2>2, <2>4, <2>6
<1>5. CASE mode = "EVICT"
  <2>1. w = hole_stack
    BY <1>5 DEF HoleWalks
  <2> QED BY <1>1, <2>1
<1> QED BY <1>2, <1>3, <1>4, <1>5

(* What a search returns is room for the block in a hole.                  *)
LEMMA SearchFindsRoom ==
  ASSUME Quiet, NEW x \in Nat, NEW alignment \in Nat,
         NEW range_start \in Int, NEW range_end \in Int,
         NEW mode \in {"BEST", "LOW", "HIGH", "EVICT"}, NEW once \in BOOLEAN,
         NEW r \in SearchResults(x, alignment, range_start, range_end, mode, once), r # <<>>
  PROVE  /\ r[1] \in Behind(hole_size) /\ r[2] \in Int /\ x > 0
         /\ start[r[1]] + size[r[1]] <= r[2]
         /\ r[2] + x <= start[r[1]] + size[r[1]] + hole_size[r[1]]
<1> DEFINE place(h) == PlaceInHole(h, x, alignment, range_start, range_end, mode)
           good(w) == {k \in 1..(IF once THEN Smaller(1, Len(w)) ELSE Len(w)) :
                         place(w[k]) # {}}
<1>1. /\ Trees(hole_stack, holes_size, holes_addr, hole_size, start, size)
      /\ Fields(start, size) /\ hole_size \in [Link -> Nat]
  BY DEF Quiet, Settled, Trees
<1>2. /\ x # 0 /\ holes_size # <<>> /\ ~(hole_size[holes_size[1]] < x)
      /\ \E w \in HoleWalks(x, range_start, range_end, mode) :
           r = IF good(w) = {} THEN <<>>
               ELSE LET h == w[Min(good(w))] IN <<h, CHOOSE p \in place(h) : TRUE>>
  BY DEF SearchResults
<1> HIDE DEF place
<1>3. PICK w \in HoleWalks(x, range_start, range_end, mode) :
        /\ good(w) # {}
        /\ r = <<w[Min(good(w))], CHOOSE p \in place(w[Min(good(w))]) : TRUE>>
  BY <1>2
<1>4. hole_size[holes_size[1]] >= x
  <2>1. holes_size[1] \in Link
    <3>1. holes_size \in Seq(Link)
      BY <1>1 DEF Trees, Holds
    <3> QED BY <1>2, <3>1
  <2> QED BY <1>1, <1>2, <2>1
<1>5. Len(w) \in Nat /\ \A k \in 1..Len(w) : w[k] \in Behind(hole_size)
  BY <1>1, <1>2, <1>4, WalksOverHoles
<1> DEFINE m == Min(good(w))
           h == w[m]
<1>6. m \in 1..Len(w) /\ place(h) # {}
  <2> DEFINE G == good(w)
  <2>1. G \in SUBSET Nat /\ \A k \in G : k \in 1..Len(w) /\ place(w[k]) # {}
    BY <1>5 DEF Smaller
  <2>2. G # {} /\ m = Min(G)
    BY <1>3
  <2> HIDE DEF G, m
  <2> QED BY <2>1, <2>2, LeastElement
<1> HIDE DEF m, good
<1>7. h \in Behind(hole_size) /\ h \in Link
  BY <1>5, <1>6 DEF Behind
<1>8. r[1] = h /\ r[2] \in place(h)
  BY <1>3, <1>6 DEF m
<1> HIDE DEF h
<1> DEFINE lo == Larger(HoleStart(h), range_start)
           hi == Smaller(HoleStart(h) + hole_size[h], range_end)
<1>9. /\ HoleStart(h) = start[h] + size[h] /\ start[h] + size[h] \in Int /\ hole_size[h] \in Int
  BY <1>1, <1>7 DEF Fields, HoleStart, NodeEnd
<1>10. /\ lo \in Int /\ hi \in Int /\ start[h] + size[h] <= lo
       /\ hi <= start[h] + size[h] + hole_size[h]
  BY <1>9 DEF Larger, Smaller
<1>11. r[2] \in Aligned(lo, hi, x, alignment, mode)
  BY <1>8 DEF place, PlaceInHole
<1> HIDE DEF lo, hi
<1>12. r[2] \in Int /\ lo <= r[2] /\ r[2] + x <= hi
  BY <1>10, <1>11, AlignedIsInside
<1>13. start[h] + size[h] <= r[2] /\ r[2] + x <= start[h] + size[h] + hole_size[h]
  BY SMTT(30), <1>9, <1>10, <1>12
<1>14. x > 0
  BY <1>2
<1> QED BY <1>7, <1>8, <1>12, <1>13, <1>14

(* The end of a block that wraps around comes out below its start.         *)
LEMMA ReserveEndWraps ==
  ASSUME NEW p \in 0..U64Max, NEW x \in 1..U64Max, ReserveEnd(p, x) > p
  PROVE  ReserveEnd(p, x) = p + x
<1> DEFINE M == U64Max + 1
<1>1. M \in Nat \ {0} /\ p \in Nat /\ x \in Nat /\ p < M /\ x < M
  BY DrmMmConstants
<1>2. (p + x) % M = IF p + x < M THEN p + x ELSE p + x - M
  <2> HIDE DEF M
  <2> QED BY <1>1
<1> QED BY <1>1, <1>2 DEF ReserveEnd

(* A reservation that is not refused has room in the hole: an end that     *)
(* wraps round to 0 has been turned down.                                  *)
LEMMA ReserveFindsRoom ==
  ASSUME Quiet, NEW p \in 0..U64Max, NEW x \in 1..U64Max, ReserveEnd(p, x) > p,
         NEW h \in ReserveHoles(p, x)
  PROVE  /\ h \in Behind(hole_size)
         /\ start[h] + size[h] <= p /\ p + x <= start[h] + size[h] + hole_size[h]
<1>1. Trees(hole_stack, holes_size, holes_addr, hole_size, start, size)
  BY DEF Quiet, Settled
<1>2. /\ holes_addr \in Seq(Link)
      /\ \A k \in 1..Len(holes_addr) : holes_addr[k] \in Behind(hole_size)
  BY <1>1, Zenon DEF Trees, Holds, InList
<1>3. PICK k \in FindHole(p) : h = holes_addr[k]
  BY DEF ReserveHoles
<1>4. k \in 1..Len(holes_addr)
  BY <1>2, FindHoleFinds
<1>5. HoleStart(h) <= p /\ ReserveEnd(p, x) <= HoleStart(h) + hole_size[h]
  BY DEF ReserveHoles
<1>6. ReserveEnd(p, x) = p + x
  BY ReserveEndWraps
<1> QED BY <1>2, <1>3, <1>4, <1>5, <1>6 DEF HoleStart, NodeEnd

-----------------------------------------------------------------------------
(* What searches and reservations refuse                                   *)

(* The multiples of a next to b, and that there are none in between.       *)
LEMMA Multiples ==
  ASSUME NEW b \in Int, NEW a \in Nat \ {0}
  PROVE  /\ b % a \in 0..(a - 1)
         /\ (b - (b % a)) % a = 0 /\ ((b - (b % a)) + a) % a = 0
         /\ \A p \in Int : p % a = 0 /\ p <= b => p <= b - (b % a)
         /\ \A p \in Int : p % a = 0 /\ p >= b /\ b % a # 0 => p >= (b - (b % a)) + a
<1>1. b % a \in 0..(a - 1)
  OBVIOUS
<1>2. (b - (b % a)) % a = 0
  OBVIOUS
<1>3. ((b - (b % a)) + a) % a = 0
  OBVIOUS
<1>4. ASSUME NEW p \in Int, p % a = 0, p <= b
      PROVE  p <= b - (b % a)
  BY <1>4
<1>5. ASSUME NEW p \in Int, p % a = 0, p >= b, b % a # 0
      PROVE  p >= (b - (b % a)) + a
  <2> DEFINE q == p \div a
             r == b \div a
  <2>1. q \in Int /\ r \in Int /\ b = (a * r) + (b % a) /\ p = (a * q) + (p % a)
    OBVIOUS
  <2> HIDE DEF q, r
  <2>2. a * q > a * r
    BY <1>1, <1>5, <2>1
  <2>3. a * q >= (a * r) + a
    BY <2>1, <2>2
  <2> QED BY <1>1, <1>5, <2>1, <2>3
<1> QED BY <1>1, <1>2, <1>3, <1>4, <1>5

(* The place found in a free range is aligned, and none that is would do   *)
(* if it did not: it is the lowest one or, for HIGH, the highest.          *)
LEMMA AlignedIsComplete ==
  ASSUME NEW lo \in Int, NEW hi \in Int, NEW x \in Int, NEW alignment \in Nat, NEW mode
  PROVE  /\ \A q \in Aligned(lo, hi, x, alignment, mode) : alignment > 1 => q % alignment = 0
         /\ \A p \in Int :
              lo <= p /\ p + x <= hi /\ (alignment > 1 => p % alignment = 0)
              => \E q \in Aligned(lo, hi, x, alignment, mode) :
                   IF mode = "HIGH" THEN p <= q ELSE q <= p
<1> DEFINE base == IF mode = "HIGH" THEN hi - x ELSE lo
           rem == IF alignment <= 1 THEN 0 ELSE base % alignment
           pos == IF rem = 0 THEN base
                  ELSE base - rem + (IF mode = "HIGH" THEN 0 ELSE alignment)
<1>1. base \in Int /\ (mode = "HIGH" => base = hi - x) /\ (mode # "HIGH" => base = lo)
  OBVIOUS
<1>2. alignment <= 1 => rem = 0
  OBVIOUS
<1>3. alignment > 1 =>
        /\ alignment \in Nat \ {0} /\ rem = base % alignment /\ rem \in 0..(alignment - 1)
        /\ (base - rem) % alignment = 0 /\ ((base - rem) + alignment) % alignment = 0
        /\ \A p \in Int : p % alignment = 0 /\ p <= base => p <= base - rem
        /\ \A p \in Int :
             p % alignment = 0 /\ p >= base /\ rem # 0 => p >= (base - rem) + alignment
  <2>1. SUFFICES ASSUME alignment > 1 PROVE
          /\ alignment \in Nat \ {0} /\ rem = base % alignment /\ rem \in 0..(alignment - 1)
          /\ (base - rem) % alignment = 0 /\ ((base - rem) + alignment) % alignment = 0
          /\ \A p \in Int : p % alignment = 0 /\ p <= base => p <= base - rem
          /\ \A p \in Int :
               p % alignment = 0 /\ p >= base /\ rem # 0 => p >= (base - rem) + alignment
    OBVIOUS
  <2>2. rem = base % alignment /\ alignment \in Nat \ {0}
    BY <2>1
  <2> HIDE DEF base, rem
  <2> QED BY <1>1, <2>2, Multiples
<1>4. Aligned(lo, hi, x, alignment, mode) = {p \in {pos} : hi - lo >= x /\ p >= lo /\ hi - p >= x}
  BY DEF Aligned
<1> HIDE DEF base, rem
<1>5. rem \in Int /\ pos \in Int
  BY <1>1, <1>2, <1>3
<1>6. alignment > 1 => pos % alignment = 0
  <2>1. CASE rem = 0
    <3>1. alignment > 1 => pos = base - rem
      BY <1>1, <2>1
    <3> QED BY <1>3, <3>1
  <2>2. CASE rem # 0 /\ mode = "HIGH"
    <3>1. pos = base - rem
      BY <1>1, <1>5, <2>2
    <3> QED BY <1>3, <3>1
  <2>3. CASE rem # 0 /\ mode # "HIGH"
    BY <1>3, <2>3
  <2> QED BY <2>1, <2>2, <2>3
<1>7. ASSUME NEW p \in Int, lo <= p, p + x <= hi, alignment > 1 => p % alignment = 0
      PROVE  pos \in Aligned(lo, hi, x, alignment, mode)
             /\ (IF mode = "HIGH" THEN p <= pos ELSE pos <= p)
  <2>1. CASE mode = "HIGH"
    <3>1. pos = base - rem /\ base = hi - x
      BY <1>1, <1>5, <2>1
    <3>2. p <= pos /\ pos <= base
      BY <1>1, <1>2, <1>3, <1>7, <3>1
    <3> QED BY <1>4, <1>5, <1>7, <2>1, <3>1, <3>2
  <2>2. CASE mode # "HIGH"
    <3>1. lo <= pos /\ pos <= p
      BY SMTT(30), <1>1, <1>2, <1>3, <1>5, <1>7, <2>2
    <3> QED BY <1>4, <1>5, <1>7, <2>2, <3>1
  <2> QED BY <2>1, <2>2
<1>8. \A q \in Aligned(lo, hi, x, alignment, mode) : alignment > 1 => q % alignment = 0
  BY <1>4, <1>6
<1>9. ASSUME NEW p \in Int,
             lo <= p /\ p + x <= hi /\ (alignment > 1 => p % alignment = 0)
      PROVE  \E q \in Aligned(lo, hi, x, alignment, mode) :
               IF mode = "HIGH" THEN p <= q ELSE q <= p
  BY <1>7, <1>9
<1> QED BY <1>8, <1>9

(* A block of x units at p meets none of the nodes, and is in the range.   *)
Apart(p, x, A, st, sz) ==
  /\ 0 <= p /\ p + x <= PoolSize
  /\ \A m \in A : st[m] + sz[m] <= p \/ p + x <= st[m]

(* Every free block is in the gap behind some node of the list: the one    *)
(* that ends last of those that end before the block.                      *)
LEMMA FreeBlockIsInGap ==
  ASSUME NEW nx, NEW pv, NEW A \in SUBSET Node, NEW st, NEW sz,
         Fields(st, sz), Blocks(A, st, sz), Ring(nx, pv, A \cup {HeadNode}, st, sz),
         NEW p \in Int, NEW x \in Int, x > 0, Apart(p, x, A, st, sz)
  PROVE  \E h \in A \cup {HeadNode} : st[h] + sz[h] <= p /\ p + x <= st[nx[h]]
<1> DEFINE L == A \cup {HeadNode}
           S == {q \in 1..(p + 1) : \E h \in L : st[h] + sz[h] = q - 1}
<1>1. /\ HeadNode \in L /\ A = L \ {HeadNode} /\ PoolSize \in Int
      /\ \A k \in L : st[k] \in Int /\ sz[k] \in Int /\ nx[k] \in L
      /\ st[HeadNode] = PoolSize /\ sz[HeadNode] = -PoolSize
  BY DrmMmConstants DEF Ring, Fields, Link
<1>2. p + 1 \in Nat /\ S \in SUBSET (1..(p + 1))
  BY DEF Apart
<1>3. 1 \in S
  <2>1. st[HeadNode] + sz[HeadNode] = 1 - 1 /\ 1 \in 1..(p + 1)
    BY <1>1, <1>2 DEF Apart
  <2> QED BY <1>1, <2>1
<1>4. PICK q \in S : \A r \in S : r <= q
  <2> HIDE DEF S
  <2> QED BY <1>2, <1>3, GreatestPlace
<1>5. PICK h \in L : st[h] + sz[h] = q - 1
  BY <1>4
<1>6. q \in 1..(p + 1) /\ st[h] + sz[h] <= p
  BY <1>1, <1>2, <1>4, <1>5
<1>7. p + x <= st[nx[h]]
  <2>1. CASE nx[h] = HeadNode
    BY <1>1, <2>1 DEF Apart
  <2>2. CASE nx[h] # HeadNode /\ st[nx[h]] + sz[nx[h]] <= p
    <3> DEFINE m == nx[h]
               r == st[m] + sz[m] + 1
    <3>1. m \in A /\ m \in L
      BY <1>1, <2>2
    <3>2. sz[m] > 0 /\ st[h] + sz[h] <= st[m] /\ st[m] >= 0
      BY <3>1 DEF Blocks, Ring
    <3>3. r \in 1..(p + 1) /\ r > q
      BY <1>1, <1>5, <1>6, <2>2, <3>1, <3>2
    <3>4. st[m] + sz[m] = r - 1
      BY <1>1, <3>1
    <3>5. r \in S
      BY <3>1, <3>3, <3>4
    <3> HIDE DEF S, r
    <3> QED BY <1>4, <1>6, <3>3, <3>5
  <2>3. CASE nx[h] # HeadNode /\ p + x <= st[nx[h]]
    BY <2>3
  <2> QED BY <1>1, <2>1, <2>2, <2>3 DEF Apart
<1> QED BY <1>6, <1>7

(* Between two calls the gap is a hole, and that hole is in the structures *)
(* that a search looks at.                                                 *)
LEMMA FreeBlockIsInHole ==
  ASSUME Quiet, NEW p \in Int, NEW x \in Int, x > 0, Apart(p, x, allocated, start, size)
  PROVE  \E h \in Behind(hole_size) :
           /\ HoleStart(h) <= p /\ p + x <= HoleStart(h) + hole_size[h]
           /\ HoleStart(h) \in Int /\ hole_size[h] \in Nat
<1>1. /\ allocated \in SUBSET Node /\ Fields(start, size) /\ Blocks(allocated, start, size)
      /\ Ring(next, prev, allocated \cup {HeadNode}, start, size)
      /\ Exact(hole_size, next, allocated, start, size)
      /\ hole_size \in [Link -> Nat]
  BY DEF Quiet, Settled, Trees
<1>2. PICK h \in allocated \cup {HeadNode} :
        start[h] + size[h] <= p /\ p + x <= start[next[h]]
  BY <1>1, FreeBlockIsInGap
<1>3. h \in Link /\ next[h] \in Link
  BY <1>1 DEF Link, Ring
<1>4. /\ start[h] \in Int /\ size[h] \in Int /\ start[next[h]] \in Int
  BY <1>1, <1>3 DEF Fields
<1>5. hole_size[h] = start[next[h]] - (start[h] + size[h]) /\ hole_size[h] \in Nat
  BY <1>1, <1>2, <1>3 DEF Exact
<1>6. hole_size[h] > 0
  BY <1>2, <1>4, <1>5
<1> QED BY <1>2, <1>3, <1>4, <1>5, <1>6 DEF Behind, HoleStart, NodeEnd

(* A block in a hole meets no node.                                        *)
LEMMA HoleIsFree ==
  ASSUME Quiet, NEW p \in Int, NEW x \in Int, x > 0, NEW h \in Behind(hole_size),
         start[h] + size[h] <= p, p + x <= start[h] + size[h] + hole_size[h]
  PROVE  Apart(p, x, allocated, start, size)
<1>1. /\ allocated \in SUBSET Node /\ Fields(start, size) /\ Blocks(allocated, start, size)
      /\ Ring(next, prev, allocated \cup {HeadNode}, start, size)
      /\ Exact(hole_size, next, allocated, start, size)
      /\ hole_size \in [Link -> Nat]
  BY DEF Quiet, Settled, Trees
<1>2. h \in allocated \cup {HeadNode} /\ h \in Link
      /\ hole_size[h] = start[next[h]] - (start[h] + size[h])
  BY <1>1, HolesAreLinked
<1>3. start[h] \in Int /\ size[h] \in Int /\ next[h] \in Link /\ start[next[h]] \in Int
  BY <1>1, <1>2 DEF Fields, Ring
<1>4. p + x <= start[next[h]]
  BY <1>2, <1>3
<1> QED BY <1>1, <1>2, <1>4, GapIsFree DEF Apart

(* drm_mm_reserve_node is refused only for a block that is not free.       *)
LEMMA ReserveRefusesOnlyTaken ==
  ASSUME Quiet, NEW p \in 0..U64Max, NEW x \in 1..U64Max
  PROVE  ReserveFails(p, x) <=> ~Apart(p, x, allocated, start, size)
<1>1. ASSUME ~ReserveFails(p, x)
      PROVE  Apart(p, x, allocated, start, size)
  <2>1. PICK h \in ReserveHoles(p, x) : ReserveEnd(p, x) > p
    <3>1. ReserveHoles(p, x) # {} /\ ~(ReserveEnd(p, x) <= p)
      BY <1>1 DEF ReserveFails
    <3>2. ReserveEnd(p, x) \in Int
      <4>1. U64Max + 1 \in Nat \ {0} /\ p + x \in Int
        BY DrmMmConstants
      <4> QED BY <4>1 DEF ReserveEnd
    <3> QED BY <3>1, <3>2
  <2>2. /\ h \in Behind(hole_size)
        /\ start[h] + size[h] <= p /\ p + x <= start[h] + size[h] + hole_size[h]
    BY <2>1, ReserveFindsRoom
  <2>3. p \in Int /\ x \in Int /\ x > 0
    BY DrmMmConstants
  <2> QED BY <2>2, <2>3, HoleIsFree
<1>2. ASSUME Apart(p, x, allocated, start, size)
      PROVE  ~ReserveFails(p, x)
  <2>1. p \in Int /\ x \in Int /\ x > 0 /\ p + x <= PoolSize /\ PoolSize <= U64Max
        /\ U64Max \in Nat /\ PoolSize \in Int /\ p >= 0
    BY <1>2, DrmMmConstants DEF Apart
  <2>2. PICK h \in Behind(hole_size) :
          /\ HoleStart(h) <= p /\ p + x <= HoleStart(h) + hole_size[h]
          /\ HoleStart(h) \in Int /\ hole_size[h] \in Nat
    BY <1>2, <2>1, FreeBlockIsInHole
  <2>3. ReserveEnd(p, x) = p + x
    <3> DEFINE M == U64Max + 1
    <3>1. M \in Nat \ {0} /\ p + x >= 0 /\ p + x <= M - 1
      BY <2>1
    <3>2. (p + x) % M = p + x
      <4> HIDE DEF M
      <4>1. p + x \in 0..(M - 1)
        BY <2>1, <3>1
      <4> QED BY <3>1, <4>1
    <3> QED BY <3>2 DEF ReserveEnd
  <2>4. PICK k \in 1..Len(holes_addr) : holes_addr[k] = h
    <3>1. Holds(holes_addr, Behind(hole_size))
      BY DEF Quiet, Settled, Trees
    <3> QED BY <3>1, Zenon DEF Holds, InList
  <2> DEFINE around == {j \in 1..Len(holes_addr) :
                          /\ HoleStart(holes_addr[j]) <= p
                          /\ p <= HoleStart(holes_addr[j]) + hole_size[holes_addr[j]]}
  <2>5. k \in around
    BY <2>1, <2>2, <2>4
  <2>6. FindHole(p) = around
    BY <2>5 DEF FindHole
  <2>7. h \in ReserveHoles(p, x)
    <3>1. h \in {holes_addr[j] : j \in FindHole(p)}
      BY <2>4, <2>5, <2>6
    <3> QED BY <2>2, <2>3, <3>1 DEF ReserveHoles
  <2>8. ReserveEnd(p, x) > p /\ ReserveEnd(p, x) \in Int
    BY <2>1, <2>3
  <2> QED BY <2>7, <2>8 DEF ReserveFails
<1> QED BY <1>1, <1>2

-----------------------------------------------------------------------------
(* Where the walks lead                                                    *)

(* Where the hole behind h ends, by the cached size of it.                 *)
HoleStop(h) == HoleStart(h) + hole_size[h]

(* The nodes of the tree by address, and what they say of their holes.     *)
LEMMA HoleTypes ==
  ASSUME Quiet
  PROVE  /\ holes_addr \in Seq(Link) /\ Len(holes_addr) \in Nat
         /\ \A k \in 1..Len(holes_addr) : holes_addr[k] \in Behind(hole_size)
         /\ \A h \in Behind(hole_size) :
              /\ h \in Link /\ HoleStart(h) = start[h] + size[h]
              /\ HoleStart(h) \in Int /\ hole_size[h] \in Int /\ HoleStop(h) \in Int
              /\ HoleStart(h) < HoleStop(h) /\ hole_size[h] > 0
<1>1. /\ Fields(start, size) /\ hole_size \in [Link -> Nat]
      /\ Holds(holes_addr, Behind(hole_size))
  BY DEF Quiet, Settled, Trees
<1>2. /\ holes_addr \in Seq(Link)
      /\ \A k \in 1..Len(holes_addr) : holes_addr[k] \in Behind(hole_size)
  BY <1>1, Zenon DEF Holds, InList
<1>3. ASSUME NEW h \in Behind(hole_size)
      PROVE  /\ h \in Link /\ HoleStart(h) = start[h] + size[h]
             /\ HoleStart(h) \in Int /\ hole_size[h] \in Int /\ HoleStop(h) \in Int
             /\ HoleStart(h) < HoleStop(h) /\ hole_size[h] > 0
  BY <1>1 DEF Behind, Fields, HoleStart, HoleStop, NodeEnd
<1> QED BY <1>2, <1>3

(* Holes do not touch: between two of them there is a node.                *)
LEMMA HolesApart ==
  ASSUME Quiet, NEW h \in Behind(hole_size), NEW g \in Behind(hole_size),
         HoleStart(h) < HoleStart(g)
  PROVE  HoleStop(h) < HoleStart(g)
<1>1. /\ allocated \in SUBSET Node /\ Fields(start, size) /\ Blocks(allocated, start, size)
      /\ Ring(next, prev, allocated \cup {HeadNode}, start, size)
      /\ Exact(hole_size, next, allocated, start, size)
      /\ hole_size \in [Link -> Nat]
  BY DEF Quiet, Settled, Trees
<1> DEFINE L == allocated \cup {HeadNode}
           q == next[h]
<1>2. /\ h \in L /\ g \in L /\ h \in Link /\ g \in Link
      /\ hole_size[h] = start[q] - (start[h] + size[h])
  BY <1>1, HolesAreLinked
<1>3. /\ start[h] \in Int /\ size[h] \in Int /\ start[g] \in Int /\ size[g] \in Int
      /\ q \in Link /\ start[q] \in Int
  BY <1>1, <1>2 DEF Fields, Ring
<1>4. start[h] + size[h] < start[g] + size[g] /\ HoleStop(h) = start[q]
  BY <1>2, <1>3 DEF HoleStart, HoleStop, NodeEnd
<1>5. start[HeadNode] + size[HeadNode] = 0
  BY <1>1, DrmMmConstants DEF Fields
<1>6. \A m \in allocated : start[m] >= 0 /\ size[m] > 0
  BY <1>1 DEF Blocks
<1>7. start[h] + size[h] >= 0
  <2>1. CASE h = HeadNode
    BY <1>5, <2>1
  <2>2. CASE h \in allocated
    BY <1>3, <1>6, <2>2
  <2> QED BY <1>2, <2>1, <2>2
<1>8. g \in allocated /\ g # HeadNode
  <2>1. g # HeadNode
    BY <1>3, <1>4, <1>5, <1>7
  <2> QED BY <1>2, <2>1
<1>9. start[g] < start[h] + size[h] \/ start[q] <= start[g]
  BY <1>1, <1>2, <1>8 DEF Ring
<1>10. ~(start[g] < start[h] + size[h])
  <2>1. CASE h = HeadNode
    BY <1>3, <1>5, <1>6, <1>8, <2>1
  <2>2. CASE h \in allocated
    <3>1. start[h] + size[h] <= start[g] \/ start[g] + size[g] <= start[h]
      BY <1>1, <1>4, <1>3, <1>8, <2>2 DEF Blocks
    <3> QED BY <1>3, <1>4, <1>6, <2>2, <3>1
  <2> QED BY <1>2, <2>1, <2>2
<1>11. start[q] <= start[g] /\ size[g] > 0
  BY <1>6, <1>8, <1>9, <1>10
<1>12. start[q] < start[g] + size[g]
  BY <1>3, <1>11
<1> QED BY <1>4, <1>12 DEF HoleStart, NodeEnd

(* The order of the tree by address is that of the holes.                  *)
LEMMA AddrOrder ==
  ASSUME Quiet, NEW j \in 1..Len(holes_addr), NEW k \in 1..Len(holes_addr), j < k
  PROVE  HoleStop(holes_addr[j]) < HoleStart(holes_addr[k])
<1>1. holes_addr[j] \in Behind(hole_size) /\ holes_addr[k] \in Behind(hole_size)
  BY HoleTypes
<1>2. holes_addr[j] \in Link /\ holes_addr[k] \in Link
  BY <1>1 DEF Behind
<1>3. Before(holes_addr, holes_addr[j], holes_addr[k])
  BY Zenon DEF Before
<1>4. ByAddr(holes_addr, Ends(start, size))
  BY DEF Quiet, Settled, Trees
<1>5. Ends(start, size)[holes_addr[j]] < Ends(start, size)[holes_addr[k]]
  BY <1>3, <1>4 DEF ByAddr
<1>6. HoleStart(holes_addr[j]) < HoleStart(holes_addr[k])
  BY <1>2, <1>5 DEF Ends, HoleStart, NodeEnd
<1> QED BY <1>1, <1>6, HolesApart

(* Wherever find_hole ends, no hole with space above the address is to the *)
(* left of it, and none with space below to the right.                     *)
LEMMA FindHoleSides ==
  ASSUME Quiet, NEW addr \in Int, NEW m \in FindHole(addr), NEW j \in 1..Len(holes_addr)
  PROVE  /\ m \in 1..Len(holes_addr)
         /\ addr < HoleStop(holes_addr[j]) => m <= j
         /\ HoleStart(holes_addr[j]) < addr => j <= m
<1> DEFINE lo(k) == HoleStart(holes_addr[k])
           hi(k) == HoleStop(holes_addr[k])
           all == 1..Len(holes_addr)
           around == {k \in all : lo(k) <= addr /\ addr <= hi(k)}
           below == {k \in all : hi(k) < addr}
           above == {k \in all : addr < lo(k)}
<1>1. /\ Len(holes_addr) \in Nat
      /\ \A k \in all : lo(k) \in Int /\ hi(k) \in Int /\ lo(k) < hi(k)
  BY HoleTypes
<1>2. \A k, l \in all : k < l => hi(k) < lo(l)
  BY AddrOrder
<1>3. FindHole(addr) = IF around # {} THEN around
                       ELSE (IF below = {} THEN {} ELSE {Max(below)})
                              \cup (IF above = {} THEN {} ELSE {Min(above)})
  BY DEF FindHole, HoleStop
<1>4. all \subseteq Nat /\ j \in all
  BY <1>1
<1> HIDE DEF lo, hi
<1>5. below # {} => Max(below) \in below /\ \A k \in below : k <= Max(below)
  <2>1. below \in SUBSET all
    OBVIOUS
  <2> HIDE DEF below
  <2> QED BY <1>1, <2>1, GreatestPlace
<1>6. above # {} => Min(above) \in above /\ \A k \in above : Min(above) <= k
  <2>1. above \in SUBSET Nat
    BY <1>4
  <2> HIDE DEF above
  <2> QED BY <2>1, LeastElement
<1>7. CASE m \in around
  <2>1. m \in all /\ lo(m) <= addr /\ addr <= hi(m) /\ m \in Nat /\ j \in Nat
    BY <1>4, <1>7
  <2>2. j < m => hi(j) < lo(m)
    BY <1>2, <1>4, <2>1
  <2>3. m < j => hi(m) < lo(j)
    BY <1>2, <1>4, <2>1
  <2>4. addr < hi(j) => m <= j
    BY <1>1, <1>4, <2>1, <2>2
  <2>5. lo(j) < addr => j <= m
    BY <1>1, <1>4, <2>1, <2>3
  <2> QED BY <2>1, <2>4, <2>5 DEF lo, hi
<1>8. CASE around = {} /\ m \in below /\ \A k \in below : k <= m
  <2>1. m \in all /\ hi(m) < addr /\ m \in Nat /\ j \in Nat
    BY <1>4, <1>8
  <2>2. j < m => hi(j) < lo(m)
    BY <1>2, <1>4, <2>1
  <2>3. addr < hi(j) => m <= j
    BY <1>1, <1>4, <2>1, <2>2
  <2>4. lo(j) < addr => j \in below
    BY <1>1, <1>4, <1>8
  <2> QED BY <1>8, <2>1, <2>3, <2>4 DEF lo, hi
<1>9. CASE around = {} /\ m \in above /\ \A k \in above : m <= k
  <2>1. m \in all /\ addr < lo(m) /\ m \in Nat /\ j \in Nat
    BY <1>4, <1>9
  <2>2. m < j => hi(m) < lo(j)
    BY <1>2, <1>4, <2>1
  <2>3. lo(j) < addr => j <= m
    BY <1>1, <1>4, <2>1, <2>2
  <2>4. addr < hi(j) => j \in above
    BY <1>1, <1>4, <1>9
  <2> QED BY <1>9, <2>1, <2>3, <2>4 DEF lo, hi
<1> HIDE DEF around, below, above
<1>10. CASE around # {}
  BY <1>3, <1>7, <1>10
<1>11. CASE around = {}
  BY <1>3, <1>5, <1>6, <1>8, <1>9, <1>11
<1> QED BY <1>10, <1>11

(* Walks to the end of a sequence from one of its places, and to its       *)
(* beginning.                                                              *)
Upwards(w, s, m) ==
  Len(w) = (Len(s) - m) + 1 /\ \A k \in 1..Len(w) : w[k] = s[(m + k) - 1]
Downwards(w, s, m) ==
  Len(w) = m /\ \A k \in 1..Len(w) : w[k] = s[(m - k) + 1]

(* next_hole in DRM_MM_INSERT_LOW goes up from where find_hole came out.   *)
LEMMA UpwardsIs ==
  ASSUME NEW s \in Seq(Link), NEW m \in 1..Len(s)
  PROVE  Upwards(SubSeq(s, m, Len(s)), s, m)
<1>1. Len(s) \in Nat
  OBVIOUS
<1>2. /\ Len(SubSeq(s, m, Len(s))) = (Len(s) - m) + 1
      /\ \A k \in 1..((Len(s) - m) + 1) : SubSeq(s, m, Len(s))[k] = s[(m + k) - 1]
  BY <1>1
<1> QED BY <1>2 DEF Upwards

(* And in DRM_MM_INSERT_HIGH down.                                         *)
LEMMA DownwardsIs ==
  ASSUME NEW s \in Seq(Link), NEW m \in 1..Len(s)
  PROVE  Downwards(Reverse(SubSeq(s, 1, m)), s, m)
<1>1. Len(s) \in Nat
  OBVIOUS
<1>2. /\ Len(SubSeq(s, 1, m)) = m
      /\ \A k \in 1..m : SubSeq(s, 1, m)[k] = s[k]
  BY <1>1
<1>3. /\ Len(Reverse(SubSeq(s, 1, m))) = m
      /\ \A k \in 1..m : Reverse(SubSeq(s, 1, m))[k] = SubSeq(s, 1, m)[(m - k) + 1]
  BY <1>1, <1>2 DEF Reverse
<1>4. \A k \in 1..m : (m - k) + 1 \in 1..m
  BY <1>1
<1> QED BY <1>2, <1>3, <1>4 DEF Downwards

(* How a search in the given mode comes past h.                            *)
Reached(w, h, mode) ==
  /\ mode = "BEST" =>
       \E m \in 1..Len(holes_size) : \E j \in 1..m :
         Downwards(w, holes_size, m) /\ holes_size[j] = h
  /\ mode = "LOW" =>
       \E m, j \in 1..Len(holes_addr) :
         m <= j /\ Upwards(w, holes_addr, m) /\ holes_addr[j] = h
  /\ mode = "HIGH" =>
       \E m \in 1..Len(holes_addr) : \E j \in 1..m :
         Downwards(w, holes_addr, m) /\ holes_addr[j] = h
  /\ mode = "EVICT" => \E k \in 1..Len(w) : w[k] = h

(* A walk visits every hole with space for the block inside the range.     *)
LEMMA WalkReaches ==
  ASSUME Quiet, NEW x \in Nat, x > 0, NEW range_start \in Int, NEW range_end \in Int,
         NEW mode \in {"BEST", "LOW", "HIGH", "EVICT"},
         NEW w \in HoleWalks(x, range_start, range_end, mode),
         NEW h \in Behind(hole_size), NEW p \in Int,
         HoleStart(h) <= p, p + x <= HoleStop(h), range_start <= p, p + x <= range_end
  PROVE  Reached(w, h, mode)
<1>1. /\ Holds(hole_stack, Behind(hole_size)) /\ Holds(holes_size, Behind(hole_size))
      /\ Holds(holes_addr, Behind(hole_size)) /\ hole_size \in [Link -> Nat]
  BY DEF Quiet, Settled, Trees
<1>2. /\ HoleStart(h) \in Int /\ hole_size[h] \in Int /\ HoleStop(h) \in Int
      /\ HoleStop(h) = HoleStart(h) + hole_size[h]
  BY HoleTypes DEF HoleStop
<1>3. hole_size[h] >= x /\ range_start < HoleStop(h) /\ HoleStart(h) < range_end
  BY <1>2
<1>4. CASE mode = "BEST"
  <2> DEFINE C == {k \in 1..Len(holes_size) : hole_size[holes_size[k]] >= x}
             m == BestHole(x)
  <2>1. holes_size \in Seq(Link) /\ Len(holes_size) \in Nat
    BY <1>1 DEF Holds
  <2>2. PICK j \in 1..Len(holes_size) : holes_size[j] = h
    BY <1>1, Zenon DEF Holds, InList
  <2>3. j \in C /\ C \subseteq 1..Len(holes_size) /\ m = Max(C)
    BY <1>3, <2>2 DEF BestHole
  <2> HIDE DEF C, m
  <2>4. m \in C /\ j <= m
    BY <2>1, <2>3, GreatestPlace
  <2>5. m \in 1..Len(holes_size) /\ j \in 1..m
    BY <2>2, <2>3, <2>4
  <2>6. w = Reverse(SubSeq(holes_size, 1, m))
    BY <1>4 DEF HoleWalks, m
  <2>7. Downwards(w, holes_size, m)
    BY <2>1, <2>5, <2>6, DownwardsIs
  <2> QED BY <1>4, <2>2, <2>5, <2>7 DEF Reached
<1> DEFINE n == Len(holes_addr)
<1>5. holes_addr \in Seq(Link) /\ n \in Nat
  BY <1>1 DEF Holds
<1>6. PICK j \in 1..n : holes_addr[j] = h
  BY <1>1, Zenon DEF Holds, InList
<1>7. CASE mode = "LOW"
  <2>1. PICK m \in FindHole(range_start) : w = SubSeq(holes_addr, m, n)
    BY <1>7 DEF HoleWalks
  <2>2. m \in 1..n /\ m <= j
    BY <1>3, <1>6, FindHoleSides
  <2>3. Upwards(w, holes_addr, m)
    BY <1>5, <2>1, <2>2, UpwardsIs
  <2> QED BY <1>6, <1>7, <2>2, <2>3 DEF Reached
<1>8. CASE mode = "HIGH"
  <2>1. PICK m \in FindHole(range_end) : w = Reverse(SubSeq(holes_addr, 1, m))
    BY <1>8 DEF HoleWalks
  <2>2. m \in 1..n /\ j <= m
    BY <1>3, <1>6, FindHoleSides
  <2>3. j \in 1..m
    BY <1>5, <1>6, <2>2
  <2>4. Downwards(w, holes_addr, m)
    BY <1>5, <2>1, <2>2, DownwardsIs
  <2> QED BY <1>6, <1>8, <2>2, <2>3, <2>4 DEF Reached
<1>9. CASE mode = "EVICT"
  <2>1. w = hole_stack
    BY <1>9 DEF HoleWalks
  <2>2. \E k \in 1..Len(w) : w[k] = h
    BY <1>1, <2>1, Zenon DEF Holds, InList
  <2> QED BY <1>9, <2>2 DEF Reached
<1> QED BY <1>4, <1>7, <1>8, <1>9

(* p is where the range and the alignment allow a block to be.             *)
Asked(p, x, alignment, range_start, range_end) ==
  range_start <= p /\ p + x <= range_end /\ (alignment > 1 => p % alignment = 0)

(* The place found in a hole is one that was asked for, and as low or, for *)
(* HIGH, as high as any there.                                             *)
LEMMA PlaceInHoleIs ==
  ASSUME Quiet, NEW h \in Behind(hole_size), NEW x \in Nat, NEW alignment \in Nat,
         NEW range_start \in Int, NEW range_end \in Int, NEW mode,
         NEW place, place = PlaceInHole(h, x, alignment, range_start, range_end, mode)
  PROVE  /\ \A q \in place :
              /\ q \in Int /\ HoleStart(h) <= q /\ q + x <= HoleStop(h)
              /\ Asked(q, x, alignment, range_start, range_end)
         /\ \A q, r \in place : q = r
         /\ \A p \in Int :
              /\ HoleStart(h) <= p /\ p + x <= HoleStop(h)
              /\ Asked(p, x, alignment, range_start, range_end)
              => \E q \in place : IF mode = "HIGH" THEN p <= q ELSE q <= p
<1> DEFINE lo == Larger(HoleStart(h), range_start)
           hi == Smaller(HoleStop(h), range_end)
<1>1. HoleStart(h) \in Int /\ HoleStop(h) \in Int
  BY HoleTypes
<1>2. /\ lo \in Int /\ hi \in Int
      /\ \A q \in Int : lo <= q <=> HoleStart(h) <= q /\ range_start <= q
      /\ \A q \in Int : q <= hi <=> q <= HoleStop(h) /\ q <= range_end
  BY <1>1 DEF Larger, Smaller
<1>3. place = Aligned(lo, hi, x, alignment, mode)
  BY DEF PlaceInHole, HoleStop
<1>4. \A q, r \in place : q = r
  BY <1>3 DEF Aligned
<1> HIDE DEF lo, hi
<1>5. ASSUME NEW q \in place
      PROVE  /\ q \in Int /\ HoleStart(h) <= q /\ q + x <= HoleStop(h)
             /\ Asked(q, x, alignment, range_start, range_end)
  <2>1. q \in Int /\ lo <= q /\ q + x <= hi
    BY <1>2, <1>3, AlignedIsInside
  <2>2. alignment > 1 => q % alignment = 0
    BY <1>2, <1>3, AlignedIsComplete
  <2>3. q + x \in Int
    BY <2>1
  <2> QED BY <1>2, <2>1, <2>2, <2>3 DEF Asked
<1>6. ASSUME NEW p \in Int, HoleStart(h) <= p, p + x <= HoleStop(h),
             Asked(p, x, alignment, range_start, range_end)
      PROVE  \E q \in place : IF mode = "HIGH" THEN p <= q ELSE q <= p
  <2>1. p + x \in Int
    OBVIOUS
  <2>2. lo <= p /\ p + x <= hi /\ (alignment > 1 => p % alignment = 0)
    BY <1>2, <1>6, <2>1 DEF Asked
  <2> QED BY <1>2, <1>3, <2>2, AlignedIsComplete
<1> QED BY <1>4, <1>5, <1>6

NothingIn(w, n, x, alignment, range_start, range_end, mode) ==
  \A k \in 1..n : PlaceInHole(w[k], x, alignment, range_start, range_end, mode) = {}

(* The holes of a walk that a search looks at.                             *)
Visited(w, once) == IF once THEN Smaller(1, Len(w)) ELSE Len(w)

(* r is what the walk w gives: the first place on it, or none.             *)
Outcome(r, w, x, alignment, range_start, range_end, mode, once) ==
  /\ Len(w) \in Nat /\ \A k \in 1..Len(w) : w[k] \in Behind(hole_size)
  /\ \/ /\ r = <<>>
        /\ NothingIn(w, Visited(w, once), x, alignment, range_start, range_end, mode)
     \/ \E m \in 1..Visited(w, once) :
          /\ r # <<>> /\ r[1] = w[m]
          /\ r[2] \in PlaceInHole(w[m], x, alignment, range_start, range_end, mode)
          /\ NothingIn(w, m - 1, x, alignment, range_start, range_end, mode)

(* A search ends before it begins, or at the first place on its walk.      *)
LEMMA SearchOutcome ==
  ASSUME Quiet, NEW x \in Nat, x > 0, NEW alignment \in Nat,
         NEW range_start \in Int, NEW range_end \in Int,
         NEW mode \in {"BEST", "LOW", "HIGH", "EVICT"}, NEW once \in BOOLEAN,
         NEW r \in SearchResults(x, alignment, range_start, range_end, mode, once)
  PROVE  \/ /\ r = <<>>
            /\ \/ range_end - range_start < x
               \/ holes_size = <<>> \/ hole_size[holes_size[1]] < x
         \/ \E w \in HoleWalks(x, range_start, range_end, mode) :
              Outcome(r, w, x, alignment, range_start, range_end, mode, once)
<1> DEFINE place(h) == PlaceInHole(h, x, alignment, range_start, range_end, mode)
           good(w) == {k \in 1..(IF once THEN Smaller(1, Len(w)) ELSE Len(w)) :
                         place(w[k]) # {}}
           early == \/ range_end - range_start < x
                    \/ holes_size = <<>> \/ hole_size[holes_size[1]] < x
<1>1. CASE early
  BY <1>1 DEF SearchResults
<1>2. CASE ~early
  <2>1. \E w \in HoleWalks(x, range_start, range_end, mode) :
          r = IF good(w) = {} THEN <<>>
              ELSE LET h == w[Min(good(w))] IN <<h, CHOOSE p \in place(h) : TRUE>>
    <3>1. /\ x # 0 /\ ~(range_end - range_start < x) /\ holes_size # <<>>
          /\ ~(hole_size[holes_size[1]] < x)
      BY <1>2
    <3> QED BY <3>1, Zenon DEF SearchResults
  <2> HIDE DEF place
  <2>2. PICK w \in HoleWalks(x, range_start, range_end, mode) :
          r = IF good(w) = {} THEN <<>>
              ELSE <<w[Min(good(w))], CHOOSE p \in place(w[Min(good(w))]) : TRUE>>
    BY <2>1
  <2>3. Trees(hole_stack, holes_size, holes_addr, hole_size, start, size)
        /\ hole_size \in [Link -> Nat]
    BY DEF Quiet, Settled, Trees
  <2>4. holes_size # <<>> /\ hole_size[holes_size[1]] >= x
    <3>1. holes_size \in Seq(Link) /\ holes_size # <<>>
      BY <1>2, <2>3 DEF Trees, Holds
    <3>2. holes_size[1] \in Link
      BY <3>1
    <3> QED BY <1>2, <2>3, <3>2
  <2>5. Len(w) \in Nat /\ \A k \in 1..Len(w) : w[k] \in Behind(hole_size)
    BY <2>3, <2>4, WalksOverHoles
  <2> DEFINE n == Visited(w, once)
  <2>6. n \in 0..Len(w) /\ good(w) = {k \in 1..n : place(w[k]) # {}}
    BY <2>5 DEF Visited, Smaller
  <2> HIDE DEF n
  <2>7. CASE good(w) = {}
    <3>1. r = <<>>
      BY <2>2, <2>7
    <3>2. NothingIn(w, n, x, alignment, range_start, range_end, mode)
      BY <2>6, <2>7 DEF NothingIn, place
    <3> QED BY <2>5, <3>1, <3>2 DEF Outcome, n
  <2>8. CASE good(w) # {}
    <3> DEFINE G == good(w)
               m == Min(G)
    <3>1. G \in SUBSET Nat /\ \A k \in G : k \in 1..n /\ place(w[k]) # {}
      <4> HIDE DEF good
      <4> QED BY <2>5, <2>6
    <3>2. \A k \in 1..n : k \notin G => place(w[k]) = {}
      BY <2>6
    <3>3. G # {} /\ r = <<w[m], CHOOSE p \in place(w[m]) : TRUE>>
      BY <2>2, <2>8
    <3> HIDE DEF G
    <3>4. m \in G /\ \A k \in G : m <= k
      BY <3>1, <3>3, LeastElement
    <3> HIDE DEF m
    <3>5. m \in 1..n /\ r # <<>> /\ r[1] = w[m] /\ r[2] \in place(w[m])
      BY <3>1, <3>3, <3>4
    <3>6. ASSUME NEW k \in 1..(m - 1)
          PROVE  place(w[k]) = {}
      <4>1. k \in 1..n /\ ~(m <= k)
        BY <2>5, <2>6, <3>5
      <4> QED BY <3>2, <3>4, <4>1
    <3>7. NothingIn(w, m - 1, x, alignment, range_start, range_end, mode)
      BY <3>6 DEF NothingIn, place
    <3>8. \E l \in 1..n :
            /\ r # <<>> /\ r[1] = w[l]
            /\ r[2] \in PlaceInHole(w[l], x, alignment, range_start, range_end, mode)
            /\ NothingIn(w, l - 1, x, alignment, range_start, range_end, mode)
      BY <3>5, <3>7 DEF place
    <3> QED BY <2>5, <3>8 DEF Outcome, n
  <2> QED BY <2>7, <2>8
<1> QED BY <1>1, <1>2

(* A hole with room is not passed over by what drm_mm_insert_node_in_range *)
(* looks at before it searches.                                            *)
LEMMA NotRefusedEarly ==
  ASSUME Quiet, NEW x \in Nat, NEW range_start \in Int, NEW range_end \in Int,
         NEW h \in Behind(hole_size), NEW p \in Int,
         HoleStart(h) <= p, p + x <= HoleStop(h), range_start <= p, p + x <= range_end
  PROVE  /\ ~(range_end - range_start < x) /\ holes_size # <<>>
         /\ ~(hole_size[holes_size[1]] < x)
<1>1. /\ HoleStart(h) \in Int /\ HoleStop(h) \in Int /\ hole_size[h] \in Int
      /\ HoleStop(h) = HoleStart(h) + hole_size[h]
  BY HoleTypes DEF HoleStop
<1>2. /\ Holds(holes_size, Behind(hole_size)) /\ BySize(holes_size, hole_size)
      /\ hole_size \in [Link -> Nat]
  BY DEF Quiet, Settled, Trees
<1>3. holes_size \in Seq(Link) /\ Len(holes_size) \in Nat
      /\ \A k \in 1..Len(holes_size) : holes_size[k] \in Link
  BY <1>2 DEF Holds
<1>4. PICK i \in 1..Len(holes_size) : holes_size[i] = h
  BY <1>2, Zenon DEF Holds, InList
<1>5. 1 \in 1..Len(holes_size) /\ 1 <= i
  BY <1>3, <1>4
<1>6. hole_size[h] <= hole_size[holes_size[1]] /\ hole_size[holes_size[1]] \in Int
  <2>1. CASE i = 1
    BY <1>1, <1>4, <2>1
  <2>2. CASE 1 < i
    <3>1. Before(holes_size, holes_size[1], holes_size[i])
      BY <1>5, <2>2, Zenon DEF Before
    <3> QED BY <1>2, <1>3, <1>4, <1>5, <3>1 DEF BySize
  <2> QED BY <1>3, <1>5, <2>1, <2>2
<1> QED BY <1>1, <1>3, <1>5, <1>6

(* EVICT looks at the hole on top of the stack first, and at no other if   *)
(* DRM_MM_INSERT_ONCE is set: if that has a place it will do.              *)
LEMMA TopHoleServes ==
  ASSUME Quiet, NEW x \in Nat, x > 0, NEW alignment \in Nat,
         NEW range_start \in Int, NEW range_end \in Int, NEW p \in Int,
         HoleStart(hole_stack[1]) <= p, p + x <= HoleStop(hole_stack[1]),
         hole_stack[1] \in Behind(hole_size),
         Asked(p, x, alignment, range_start, range_end)
  PROVE  ~InsertFails(x, alignment, range_start, range_end, "EVICT", TRUE)
<1> DEFINE h == hole_stack[1]
           place(g) == PlaceInHole(g, x, alignment, range_start, range_end, "EVICT")
<1> SUFFICES ASSUME <<>> \in SearchResults(x, alignment, range_start, range_end, "EVICT", TRUE)
             PROVE  FALSE
  BY DEF InsertFails
<1>1. range_start <= p /\ p + x <= range_end
  BY DEF Asked
<1>2. /\ ~(range_end - range_start < x) /\ holes_size # <<>>
      /\ ~(hole_size[holes_size[1]] < x)
  BY <1>1, NotRefusedEarly
<1>3. PICK w \in HoleWalks(x, range_start, range_end, "EVICT") :
        Outcome(<<>>, w, x, alignment, range_start, range_end, "EVICT", TRUE)
  <2>1. TRUE \in BOOLEAN /\ "EVICT" \in {"BEST", "LOW", "HIGH", "EVICT"}
    OBVIOUS
  <2> QED BY <1>2, <2>1, SearchOutcome
<1>4. w = hole_stack
  BY DEF HoleWalks
<1>5. \E q \in place(h) : TRUE
  <2>1. h \in Behind(hole_size) /\ HoleStart(h) <= p /\ p + x <= HoleStop(h)
    OBVIOUS
  <2> HIDE DEF h
  <2>2. \E q \in place(h) : IF "EVICT" = "HIGH" THEN p <= q ELSE q <= p
    BY <2>1, PlaceInHoleIs
  <2> QED BY <2>2
<1>6. Len(hole_stack) \in Nat /\ 1 \in 1..Len(hole_stack)
  <2>1. Holds(hole_stack, Behind(hole_size))
    BY DEF Quiet, Settled, Trees
  <2>2. InList(hole_stack, h) /\ hole_stack \in Seq(Link)
    BY <2>1 DEF Holds
  <2>3. PICK k \in 1..Len(hole_stack) : hole_stack[k] = h
    BY <2>2, Zenon DEF InList
  <2> QED BY <2>2, <2>3
<1>7. Visited(w, TRUE) = 1
  <2>1. Len(w) \in Nat /\ Len(w) >= 1
    BY <1>4, <1>6
  <2>2. \A k \in Nat : k >= 1 => Smaller(1, k) = 1
    BY DEF Smaller
  <2>3. Smaller(1, Len(w)) = 1
    BY <2>1, <2>2
  <2> QED BY <2>3 DEF Visited
<1>8. NothingIn(w, Visited(w, TRUE), x, alignment, range_start, range_end, "EVICT")
  BY <1>3 DEF Outcome
<1>9. place(h) = {}
  <2>1. 1 \in 1..1
    OBVIOUS
  <2>2. place(w[1]) = {}
    BY <1>7, <1>8, <2>1 DEF NothingIn
  <2> QED BY <1>4, <2>2
<1> QED BY <1>5, <1>9

(* If there is a place at all the search finds one, and none is lower, or  *)
(* higher, or in a smaller hole than what it finds.                        *)
LEMMA SearchBeats ==
  ASSUME Quiet, NEW x \in Nat, x > 0, NEW alignment \in Nat,
         NEW range_start \in Int, NEW range_end \in Int,
         NEW mode \in {"BEST", "LOW", "HIGH", "EVICT"},
         NEW r \in SearchResults(x, alignment, range_start, range_end, mode, FALSE),
         NEW h \in Behind(hole_size), NEW p \in Int,
         HoleStart(h) <= p, p + x <= HoleStop(h),
         Asked(p, x, alignment, range_start, range_end)
  PROVE  /\ r # <<>>
         /\ mode = "LOW" => r[2] <= p
         /\ mode = "HIGH" => p <= r[2]
         /\ mode = "BEST" => hole_size[r[1]] <= hole_size[h]
<1> DEFINE place(g) == PlaceInHole(g, x, alignment, range_start, range_end, mode)
           none(w, n) == NothingIn(w, n, x, alignment, range_start, range_end, mode)
<1>1. /\ range_start <= p /\ p + x <= range_end
      /\ HoleStart(h) \in Int /\ HoleStop(h) \in Int /\ hole_size[h] \in Int
      /\ HoleStop(h) = HoleStart(h) + hole_size[h]
  BY HoleTypes DEF Asked, HoleStop
<1>2. /\ Holds(holes_size, Behind(hole_size)) /\ BySize(holes_size, hole_size)
      /\ hole_size \in [Link -> Nat]
  BY DEF Quiet, Settled, Trees
<1>3. holes_size \in Seq(Link) /\ Len(holes_size) \in Nat
      /\ \A k \in 1..Len(holes_size) : holes_size[k] \in Link
  BY <1>2 DEF Holds
<1>4. \A j, k \in 1..Len(holes_size) :
        j <= k => hole_size[holes_size[k]] <= hole_size[holes_size[j]]
  <2> SUFFICES ASSUME NEW j \in 1..Len(holes_size), NEW k \in 1..Len(holes_size), j <= k
               PROVE  hole_size[holes_size[k]] <= hole_size[holes_size[j]]
    OBVIOUS
  <2>1. CASE j = k
    BY <1>2, <1>3, <2>1
  <2>2. CASE j < k
    <3>1. Before(holes_size, holes_size[j], holes_size[k])
      BY <2>2, Zenon DEF Before
    <3> QED BY <1>2, <1>3, <3>1 DEF BySize
  <2> QED BY <1>3, <2>1, <2>2
<1>6. /\ ~(range_end - range_start < x) /\ holes_size # <<>>
      /\ ~(hole_size[holes_size[1]] < x)
  BY <1>1, NotRefusedEarly
<1>21. PICK w \in HoleWalks(x, range_start, range_end, mode) :
         Outcome(r, w, x, alignment, range_start, range_end, mode, FALSE)
  <2>1. FALSE \in BOOLEAN
    OBVIOUS
  <2> QED BY <1>6, <2>1, SearchOutcome
<1>7. /\ Len(w) \in Nat /\ \A k \in 1..Len(w) : w[k] \in Behind(hole_size)
      /\ \/ r = <<>> /\ none(w, Len(w))
         \/ \E m \in 1..Len(w) :
              r # <<>> /\ r[1] = w[m] /\ r[2] \in place(w[m]) /\ none(w, m - 1)
  <2>1. Visited(w, FALSE) = Len(w)
    BY DEF Visited
  <2> QED BY <1>21, <2>1 DEF Outcome
<1>8. \E q \in place(h) : IF mode = "HIGH" THEN p <= q ELSE q <= p
  BY PlaceInHoleIs
<1>9. \A q \in place(h) : q \in Int /\ IF mode = "HIGH" THEN p <= q ELSE q <= p
  BY <1>8, PlaceInHoleIs
<1> DEFINE BestAt(k) ==
      mode = "BEST" => \A m \in 1..k : hole_size[w[m]] <= hole_size[h]
    LowAt(k) == mode = "LOW" => \A m \in 1..(k - 1) : HoleStop(w[m]) < HoleStart(h)
    HighAt(k) == mode = "HIGH" => \A m \in 1..(k - 1) : HoleStop(h) < HoleStart(w[m])
<1> HIDE DEF place, none
<1>20. Reached(w, h, mode) /\ Len(w) \in Nat
  BY <1>1, <1>7, WalkReaches
<1>10. \E k \in 1..Len(w) : w[k] = h /\ BestAt(k) /\ LowAt(k) /\ HighAt(k)
  <2>1. CASE mode = "BEST"
    <3>1. PICK m \in 1..Len(holes_size) :
            \E j \in 1..m : Downwards(w, holes_size, m) /\ holes_size[j] = h
      BY <1>20, <2>1 DEF Reached
    <3>2. PICK j \in 1..m : Downwards(w, holes_size, m) /\ holes_size[j] = h
      BY <3>1
    <3> DEFINE k == (m - j) + 1
    <3>6. m \in Int /\ j \in Int /\ j <= m /\ 1 <= j
      BY <1>3, <3>2
    <3>7. Len(w) = m /\ \A l \in 1..m : w[l] = holes_size[(m - l) + 1]
      BY <3>2 DEF Downwards
    <3>8. k \in 1..m /\ (m - k) + 1 = j
      BY <3>6
    <3>3. k \in 1..m /\ (m - k) + 1 = j /\ Len(w) = m
          /\ \A l \in 1..m : w[l] = holes_size[(m - l) + 1]
      BY <3>7, <3>8
    <3>4. ASSUME NEW l \in 1..k
          PROVE  hole_size[w[l]] <= hole_size[h]
      <4>1. /\ l \in 1..m /\ (m - l) + 1 \in 1..Len(holes_size) /\ j <= (m - l) + 1
            /\ j \in 1..Len(holes_size)
        BY <1>3, <3>3
      <4>2. w[l] = holes_size[(m - l) + 1]
        BY <3>3, <4>1
      <4> QED BY <1>4, <3>2, <4>1, <4>2
    <3>5. w[k] = h
      BY <3>2, <3>3
    <3> QED BY <2>1, <3>3, <3>4, <3>5
  <2>2. CASE mode = "LOW"
    <3>1. PICK m \in 1..Len(holes_addr), j \in 1..Len(holes_addr) :
            m <= j /\ Upwards(w, holes_addr, m) /\ holes_addr[j] = h
      BY <1>20, <2>2 DEF Reached
    <3> DEFINE k == (j - m) + 1
    <3>2. Len(holes_addr) \in Nat
      BY HoleTypes
    <3>6. m \in Int /\ j \in Int /\ m <= j /\ j <= Len(holes_addr) /\ 1 <= m
      BY <3>1, <3>2
    <3>7. /\ Len(w) = (Len(holes_addr) - m) + 1
          /\ \A l \in 1..Len(w) : w[l] = holes_addr[(m + l) - 1]
      BY <3>1 DEF Upwards
    <3>3. k \in 1..Len(w) /\ (m + k) - 1 = j /\ k \in Int
      BY <3>2, <3>6, <3>7
    <3>4. ASSUME NEW l \in 1..(k - 1)
          PROVE  HoleStop(w[l]) < HoleStart(h)
      <4>1. /\ l \in 1..Len(w) /\ (m + l) - 1 \in 1..Len(holes_addr) /\ (m + l) - 1 < j
        BY <1>7, <3>2, <3>3, <3>6, <3>7
      <4>2. w[l] = holes_addr[(m + l) - 1]
        BY <3>7, <4>1
      <4> QED BY <3>1, <4>1, <4>2, AddrOrder
    <3>5. w[k] = h
      BY <3>1, <3>3, <3>7
    <3> QED BY <2>2, <3>3, <3>4, <3>5
  <2>3. CASE mode = "HIGH"
    <3>1. PICK m \in 1..Len(holes_addr) :
            \E j \in 1..m : Downwards(w, holes_addr, m) /\ holes_addr[j] = h
      BY <1>20, <2>3 DEF Reached
    <3>2. PICK j \in 1..m : Downwards(w, holes_addr, m) /\ holes_addr[j] = h
      BY <3>1
    <3> DEFINE k == (m - j) + 1
    <3>3. Len(holes_addr) \in Nat
      BY HoleTypes
    <3>7. m \in Int /\ j \in Int /\ j <= m /\ 1 <= j
      BY <3>2, <3>3
    <3>8. Len(w) = m /\ \A l \in 1..m : w[l] = holes_addr[(m - l) + 1]
      BY <3>2 DEF Downwards
    <3>9. k \in 1..m /\ (m - k) + 1 = j
      BY <3>7
    <3>4. k \in 1..m /\ (m - k) + 1 = j /\ Len(w) = m
          /\ \A l \in 1..m : w[l] = holes_addr[(m - l) + 1]
      BY <3>8, <3>9
    <3>5. ASSUME NEW l \in 1..(k - 1)
          PROVE  HoleStop(h) < HoleStart(w[l])
      <4>1. /\ l \in 1..m /\ (m - l) + 1 \in 1..Len(holes_addr) /\ j < (m - l) + 1
            /\ j \in 1..Len(holes_addr)
        BY <3>3, <3>4
      <4>2. w[l] = holes_addr[(m - l) + 1]
        BY <3>4, <4>1
      <4> QED BY <3>2, <4>1, <4>2, AddrOrder
    <3>6. w[k] = h
      BY <3>2, <3>4
    <3> QED BY <2>3, <3>4, <3>5, <3>6
  <2>4. CASE mode = "EVICT"
    <3>1. \E k \in 1..Len(w) : w[k] = h
      BY <1>20, <2>4 DEF Reached
    <3> QED BY <2>4, <3>1
  <2> QED BY <2>1, <2>2, <2>3, <2>4
<1>11. PICK k \in 1..Len(w) : w[k] = h /\ BestAt(k) /\ LowAt(k) /\ HighAt(k)
  BY <1>10
<1>12. PICK m \in 1..Len(w) :
         r # <<>> /\ r[1] = w[m] /\ r[2] \in place(w[m]) /\ none(w, m - 1)
  <2>1. ~none(w, Len(w))
    BY <1>8, <1>11 DEF none, NothingIn, place
  <2> QED BY <1>7, <2>1
<1>13. m <= k
  <2> SUFFICES ASSUME k < m PROVE FALSE
    BY <1>7
  <2>1. k \in 1..(m - 1)
    BY <1>7
  <2>2. place(h) = {}
    BY <1>11, <1>12, <2>1 DEF none, NothingIn, place
  <2> QED BY <1>8, <2>2
<1>14. mode = "BEST" => hole_size[r[1]] <= hole_size[h]
  <2>1. m \in 1..k
    BY <1>7, <1>13
  <2> QED BY <1>11, <1>12, <2>1
<1>15. m = k => (mode = "LOW" => r[2] <= p) /\ (mode = "HIGH" => p <= r[2])
  BY <1>9, <1>11, <1>12
<1>16. w[m] \in Behind(hole_size) /\ HoleStart(w[m]) \in Int /\ HoleStop(w[m]) \in Int
  BY <1>7, HoleTypes
<1>17. r[2] \in Int /\ HoleStart(w[m]) <= r[2] /\ r[2] + x <= HoleStop(w[m])
  <2>1. \A q \in place(w[m]) : q \in Int /\ HoleStart(w[m]) <= q /\ q + x <= HoleStop(w[m])
    BY <1>16, PlaceInHoleIs DEF place
  <2> QED BY <1>12, <2>1
<1>18. m # k => (mode = "LOW" => r[2] <= p) /\ (mode = "HIGH" => p <= r[2])
  <2> SUFFICES ASSUME m # k PROVE (mode = "LOW" => r[2] <= p) /\ (mode = "HIGH" => p <= r[2])
    OBVIOUS
  <2>1. m \in 1..(k - 1)
    BY <1>7, <1>13
  <2>2. mode = "LOW" => HoleStop(w[m]) < HoleStart(h)
    BY <1>11, <2>1
  <2>3. mode = "HIGH" => HoleStop(h) < HoleStart(w[m])
    BY <1>11, <2>1
  <2>4. mode = "LOW" => r[2] <= p
    BY <1>1, <1>16, <1>17, <2>2
  <2>5. mode = "HIGH" => p <= r[2]
    <3>1. p <= HoleStop(h)
      BY <1>1
    <3> SUFFICES ASSUME mode = "HIGH" PROVE p <= r[2]
      OBVIOUS
    <3>2. HoleStop(h) < HoleStart(w[m])
      BY <2>3
    <3>3. HoleStop(h) <= r[2]
      <4> DEFINE u == r[2]
                 v == HoleStart(w[m])
                 z == HoleStop(h)
      <4>1. u \in Int /\ v \in Int /\ z \in Int /\ z < v /\ v <= u
        BY <1>1, <1>16, <1>17, <3>2
      <4> HIDE DEF u, v, z
      <4>2. z <= u
        BY <4>1
      <4> QED BY <4>2 DEF u, z
    <3>4. HoleStop(h) \in Int /\ r[2] \in Int
      BY <1>1, <1>17
    <3> QED BY <3>1, <3>3, <3>4
  <2> QED BY <2>4, <2>5
<1> QED BY <1>12, <1>14, <1>15, <1>18

(* What any search returns is where it was asked for.                      *)
LEMMA SearchIsSound ==
  ASSUME Quiet, NEW x \in Nat, x > 0, NEW alignment \in Nat,
         NEW range_start \in Int, NEW range_end \in Int,
         NEW mode \in {"BEST", "LOW", "HIGH", "EVICT"}, NEW once \in BOOLEAN,
         NEW r \in SearchResults(x, alignment, range_start, range_end, mode, once), r # <<>>
  PROVE  /\ r[1] \in Behind(hole_size) /\ r[2] \in Int
         /\ Apart(r[2], x, allocated, start, size)
         /\ Asked(r[2], x, alignment, range_start, range_end)
<1>1. PICK w \in HoleWalks(x, range_start, range_end, mode) :
        Outcome(r, w, x, alignment, range_start, range_end, mode, once)
  BY SearchOutcome
<1>2. Len(w) \in Nat /\ \A k \in 1..Len(w) : w[k] \in Behind(hole_size)
  BY <1>1 DEF Outcome
<1>3. PICK m \in 1..Visited(w, once) :
        /\ r[1] = w[m]
        /\ r[2] \in PlaceInHole(w[m], x, alignment, range_start, range_end, mode)
  BY <1>1 DEF Outcome
<1>4. m \in 1..Len(w)
  BY <1>2 DEF Visited, Smaller
<1> DEFINE h == w[m]
<1>5. h \in Behind(hole_size)
  BY <1>2, <1>4
<1> HIDE DEF h
<1>6. r[2] \in PlaceInHole(h, x, alignment, range_start, range_end, mode)
  BY <1>3 DEF h
<1>7. /\ r[2] \in Int /\ HoleStart(h) <= r[2] /\ r[2] + x <= HoleStop(h)
      /\ Asked(r[2], x, alignment, range_start, range_end)
  BY <1>5, <1>6, PlaceInHoleIs
<1>8. start[h] + size[h] <= r[2] /\ r[2] + x <= start[h] + size[h] + hole_size[h]
  BY <1>5, <1>7, HoleTypes DEF HoleStop
<1>9. x \in Int
  OBVIOUS
<1>10. Apart(r[2], x, allocated, start, size)
  BY <1>5, <1>7, <1>8, <1>9, HoleIsFree
<1> QED BY <1>3, <1>5, <1>7, <1>10 DEF h

(* Places tries every address.                                             *)
LEMMA PlacesAre ==
  ASSUME NEW A, NEW x \in Nat, NEW alignment, NEW range_start, NEW range_end, NEW p
  PROVE  p \in Places(A, x, alignment, range_start, range_end) <=>
           /\ p \in Int /\ Apart(p, x, A, start, size)
           /\ Asked(p, x, alignment, range_start, range_end)
<1>1. PoolSize \in Int /\ x \in Int
  BY DrmMmConstants
<1>2. \A q \in Int : q \in 0..(PoolSize - x) <=> 0 <= q /\ q + x <= PoolSize
  BY <1>1
<1>3. p \in 0..(PoolSize - x) => p \in Int
  BY <1>1
<1> QED BY <1>2, <1>3 DEF Places, Apart, Asked, NodeEnd

(* A place that is free but for one node, and not free of that one, is     *)
(* between the neighbours of the node.                                     *)
LEMMA PlaceOverNode ==
  ASSUME NEW nx, NEW pv, NEW A \in SUBSET Node, NEW st, NEW sz,
         Fields(st, sz), Blocks(A, st, sz), Ring(nx, pv, A \cup {HeadNode}, st, sz),
         NEW n \in A, NEW p \in Int, NEW x \in Int, x > 0,
         Apart(p, x, A \ {n}, st, sz), st[n] + sz[n] > p, p + x > st[n]
  PROVE  st[pv[n]] + sz[pv[n]] <= p /\ p + x <= st[nx[n]]
<1> DEFINE L == A \cup {HeadNode}
           h == pv[n]
           q == nx[n]
<1>1. /\ h \in L /\ q \in L /\ nx[h] = n /\ A = L \ {HeadNode} /\ PoolSize \in Int
      /\ \A k \in L : st[k] \in Int /\ sz[k] \in Int
      /\ st[HeadNode] = PoolSize /\ sz[HeadNode] = -PoolSize
  BY DrmMmConstants DEF Ring, Fields, Link
<1>2. st[h] + sz[h] <= st[n] /\ st[n] + sz[n] <= st[q]
  BY <1>1 DEF Ring
<1>3. h # n /\ q # n
  BY NotAlone
<1>4. 0 <= p /\ p + x <= PoolSize
      /\ \A m \in A \ {n} : sz[m] > 0 /\ (st[m] + sz[m] <= p \/ p + x <= st[m])
  BY DEF Apart, Blocks
<1> HIDE DEF h, q, L
<1>5. st[h] + sz[h] <= p
  <2>1. CASE h = HeadNode
    BY <1>1, <1>4, <2>1
  <2>2. CASE h # HeadNode
    <3>1. h \in A \ {n} /\ n \in L /\ h \in L
      BY <1>1, <1>3, <2>2 DEF L
    <3> QED BY <1>1, <1>2, <1>4, <3>1
  <2> QED BY <2>1, <2>2
<1>6. p + x <= st[q]
  <2>1. CASE q = HeadNode
    BY <1>1, <1>4, <2>1
  <2>2. CASE q # HeadNode
    <3>1. q \in A \ {n} /\ n \in L /\ q \in L
      BY <1>1, <1>3, <2>2 DEF L
    <3> QED BY <1>1, <1>2, <1>4, <3>1
  <2> QED BY <2>1, <2>2
<1> QED BY <1>5, <1>6 DEF h, q

-----------------------------------------------------------------------------
(* What the invariants of DrmMm say                                        *)

(* The blocks lie apart at every point of a scan.                          *)
LEMMA ScanStateKeepsNoOverlap ==
  ASSUME NEW s, InScan(s)
  PROVE  NoOverlap
BY DEF InScan, ScanState, Blocks, NoOverlap, NodeEnd

(* At every point of a scan the list goes through the nodes not on the     *)
(* roster.                                                                 *)
LEMMA ScanStateHasRing ==
  ASSUME NEW s, InScan(s)
  PROVE  Ring(next, prev, (allocated \ scanned) \cup {HeadNode}, start, size)
<1>1. PICK f, b, L :
        /\ f[0] = next /\ b[0] = prev /\ L[0] = allocated \ scanned
        /\ Unwinds(s, f, b, L, allocated, start, size)
  BY Zenon DEF InScan, ScanState, Scans
<1>2. 0 \in 0..Len(s)
  BY DEF InScan, ScanState
<1>3. Ring(f[0], b[0], L[0] \cup {HeadNode}, start, size)
  BY <1>1, <1>2 DEF Unwinds
<1> QED BY <1>1, <1>3

(* Hence that list is in the order of the range.                           *)
LEMMA ScanStateKeepsListInOrder ==
  ASSUME NEW s, InScan(s)
  PROVE  ListInOrder
<1>1. Ring(next, prev, Linked, start, size)
  BY ScanStateHasRing DEF Linked
<1> QED BY <1>1 DEF Ring, ListInOrder, HoleStart, HoleEnd, NodeEnd

(* A structure that holds some nodes, in the words of HolesExact.          *)
LEMMA HoldsInjective ==
  ASSUME NEW s, NEW S, Holds(s, S)
  PROVE  IsInjective(s) /\ ToSet(s) = S
<1>1. s \in Seq(Link) /\ Distinct(s) /\ DOMAIN s = 1..Len(s)
  BY DEF Holds
<1>2. IsInjective(s)
  BY <1>1 DEF IsInjective, Distinct
<1>3. \A h : h \in ToSet(s) <=> InList(s, h)
  BY <1>1 DEF ToSet, InList
<1>4. \A h : InList(s, h) <=> h \in S
  BY DEF Holds
<1> QED BY <1>2, <1>3, <1>4

(* A sequence that holds a set has as many entries as the set has members. *)
LEMMA HoldsLength ==
  ASSUME NEW s, NEW S, Holds(s, S)
  PROVE  Len(s) = Cardinality(S)
<1>1. s \in Seq(Link) /\ Len(s) \in Nat /\ Distinct(s)
  BY DEF Holds
<1>2. \A j \in 1..Len(s) : s[j] \in S
  BY Zenon DEF Holds, InList
<1>3. \A h \in S : \E j \in 1..Len(s) : s[j] = h
  BY Zenon DEF Holds, InList
<1>4. s \in [1..Len(s) -> S]
  BY <1>1, <1>2
<1>5. s \in Bijection(1..Len(s), S)
  BY <1>1, <1>3, <1>4 DEF Bijection, Injection, Surjection, IsInjective, Distinct
<1>6. ExistsBijection(1..Len(s), S)
  BY <1>5 DEF ExistsBijection
<1>7. IsFiniteSet(1..Len(s)) /\ Cardinality(1..Len(s)) = Len(s)
  BY SMTT(30), <1>1, FS_Interval
<1> QED BY <1>6, <1>7, FS_Bijection

(* With no scan under way, stack and trees hold the gaps of the list and   *)
(* nothing else.                                                           *)
LEMMA ScanStateKeepsHolesExact ==
  ASSUME NEW s, InScan(s)
  PROVE  HolesExact
<1>1. /\ Trees(hole_stack, holes_size, holes_addr, hole_size, start, size)
      /\ Fields(start, size)
  BY DEF InScan, ScanState
<1>2. /\ Holds(hole_stack, Behind(hole_size)) /\ Holds(holes_size, Behind(hole_size))
      /\ Holds(holes_addr, Behind(hole_size))
      /\ BySize(holes_size, hole_size) /\ ByAddr(holes_addr, Ends(start, size))
      /\ hole_size \in [Link -> Nat]
  BY <1>1 DEF Trees
<1>3. ASSUME scanned = {}
      PROVE  \A h \in Link : hole_size[h] = IF h \in Linked THEN HoleEnd(h) - HoleStart(h) ELSE 0
  <2>1. Quiet
    BY <1>3, RosterEmpty
  <2>2. Exact(hole_size, next, allocated, start, size) /\ Linked = allocated \cup {HeadNode}
    BY <1>3, <2>1 DEF Quiet, Settled, Linked
  <2> QED BY <2>2 DEF Exact, HoleEnd, HoleStart, NodeEnd
<1>4. \A r \in {hole_stack, holes_size, holes_addr} :
        IsInjective(r) /\ ToSet(r) = {h \in Link : hole_size[h] > 0}
  BY <1>2, HoldsInjective DEF Behind
<1>5. TreesSorted
  <2>1. Len(holes_addr) = Len(holes_size)
    BY <1>2, HoldsLength
  <2> SUFFICES ASSUME NEW j \in 1..Len(holes_size), NEW k \in 1..Len(holes_size), j < k
               PROVE  /\ hole_size[holes_size[j]] >= hole_size[holes_size[k]]
                      /\ HoleStart(holes_addr[j]) < HoleStart(holes_addr[k])
    BY DEF TreesSorted
  <2>2. Before(holes_size, holes_size[j], holes_size[k])
    BY Zenon DEF Before
  <2>3. j \in 1..Len(holes_addr) /\ k \in 1..Len(holes_addr)
    BY <2>1
  <2>4. Before(holes_addr, holes_addr[j], holes_addr[k])
    BY <2>3, Zenon DEF Before
  <2>5. hole_size[holes_size[j]] >= hole_size[holes_size[k]]
    BY <1>2, <2>2 DEF BySize
  <2>6. Ends(start, size)[holes_addr[j]] < Ends(start, size)[holes_addr[k]]
    BY <1>2, <2>4 DEF ByAddr
  <2>7. holes_addr[j] \in Link /\ holes_addr[k] \in Link
    BY <1>2, <2>3 DEF Holds
  <2> QED BY <2>5, <2>6, <2>7 DEF Ends, HoleStart, NodeEnd
<1> QED BY <1>3, <1>4, <1>5 DEF HolesExact

-----------------------------------------------------------------------------
(* A scan under way, whoever the caller is                                 *)

SearchModes == {"BEST", "LOW", "HIGH", "EVICT"}

ScanType ==
  scan \in [size : Nat, alignment : Nat, range_start : Int, range_end : Int,
            mode : SearchModes, hit_start : Int, hit_end : Int]

Requested == ScanType /\ scan.size > 0

(* The place the scan has found, and what a place for it is.               *)
Hit == scan.hit_start
Wanted(p) == Asked(p, scan.size, scan.alignment, scan.range_start, scan.range_end)

(* An insertion in any mode leaves the allocator settled.                  *)
LEMMA InsertKeeps ==
  ASSUME Quiet, scanned = {}, NEW n \in Node, MayInsert(n),
         NEW x \in Nat, NEW a \in Nat, NEW lo \in Int, NEW hi \in Int,
         NEW m \in SearchModes, NEW once \in BOOLEAN,
         InsertNode(n, x, a, lo, hi, m, once)
  PROVE  QuietNext /\ scanned' = {} /\ scan' = scan
<1>1. PICK r \in SearchResults(x, a, lo, hi, m, once) : r # <<>> /\ Occupy(r[1], n, r[2], x)
  BY DEF InsertNode
<1>2. /\ r[1] \in Behind(hole_size) /\ r[2] \in Int /\ x > 0
      /\ start[r[1]] + size[r[1]] <= r[2]
      /\ r[2] + x <= start[r[1]] + size[r[1]] + hole_size[r[1]]
  BY <1>1, SearchFindsRoom DEF SearchModes
<1>3. n \in Node \ allocated
  BY DEF MayInsert
<1>4. QuietNext
  BY <1>1, <1>2, <1>3, OccupyKeeps
<1> QED BY <1>1, <1>4 DEF Occupy, scanVars

(* Nodes have fields, and a block in the range.                            *)
LEMMA NodeTypes ==
  ASSUME NEW s, InScan(s)
  PROVE  /\ allocated \in SUBSET Node /\ scanned \in SUBSET allocated
         /\ Fields(start, size) /\ Blocks(allocated, start, size)
         /\ \A n \in allocated : /\ start[n] \in Int /\ size[n] \in Int
                                 /\ NodeEnd(n) = start[n] + size[n]
                                 /\ start[n] >= 0 /\ size[n] > 0
<1>1. /\ allocated \in SUBSET Node /\ scanned \in SUBSET allocated
      /\ Fields(start, size) /\ Blocks(allocated, start, size)
  BY DEF InScan, ScanState
<1>2. \A n \in allocated : start[n] \in Int /\ size[n] \in Int /\ start[n] >= 0 /\ size[n] > 0
  BY <1>1 DEF Fields, Blocks, Link
<1> QED BY <1>1, <1>2 DEF NodeEnd

(* The list with one more node taken out.                                  *)
LEMMA OfferedRing ==
  ASSUME NEW s, InScan(s), NEW n \in allocated \ scanned
  PROVE  LET A == allocated \ scanned
         IN  /\ A \in SUBSET Node /\ n \in A
             /\ Fields(start, size) /\ Blocks(A, start, size)
             /\ Ring(next, prev, A \cup {HeadNode}, start, size)
             /\ Ring(Without(next, prev, n), WithoutBack(next, prev, n),
                     (A \ {n}) \cup {HeadNode}, start, size)
             /\ Blocks(A \ {n}, start, size)
             /\ prev[n] \in (A \ {n}) \cup {HeadNode}
             /\ Without(next, prev, n)[prev[n]] = next[n]
             /\ NodeEnd(prev[n]) = start[prev[n]] + size[prev[n]]
             /\ NodeEnd(prev[n]) \in Int /\ start[next[n]] \in Int
<1> DEFINE A == allocated \ scanned
<1>1. /\ A \in SUBSET Node /\ n \in A /\ Fields(start, size)
      /\ Blocks(A, start, size) /\ Blocks(A \ {n}, start, size)
  <2>1. Blocks(allocated, start, size)
    BY NodeTypes
  <2> QED BY <2>1, NodeTypes DEF Blocks
<1>2. Ring(next, prev, A \cup {HeadNode}, start, size)
  BY ScanStateHasRing
<1>3. Ring(Without(next, prev, n), WithoutBack(next, prev, n),
           (A \ {n}) \cup {HeadNode}, start, size)
  BY <1>1, <1>2, RingWithout
<1>4. prev[n] # n /\ prev[n] \in (A \ {n}) \cup {HeadNode}
  <2> HIDE DEF A
  <2>1. prev[n] # n
    BY <1>1, <1>2, NotAlone
  <2>2. prev[n] \in A \cup {HeadNode}
    BY <1>1, <1>2 DEF Ring
  <2> QED BY <2>1, <2>2
<1>5. n \in Link /\ prev[n] \in Link /\ next[n] \in Link /\ next \in [Link -> Link]
  BY <1>1, <1>2 DEF Ring, Link
<1>6. Without(next, prev, n)[prev[n]] = next[n]
  BY <1>5 DEF Without
<1>7. /\ NodeEnd(prev[n]) = start[prev[n]] + size[prev[n]]
      /\ NodeEnd(prev[n]) \in Int /\ start[next[n]] \in Int
  BY <1>1, <1>5 DEF Fields, NodeEnd
<1> QED BY <1>1, <1>2, <1>3, <1>4, <1>6, <1>7

(* Where drm_mm_scan_add_block finds a place, it is one, and of the nodes  *)
(* still listed at most n is in its way.                                   *)
LEMMA HitIsPlace ==
  ASSUME NEW s, InScan(s), Requested, NEW n \in allocated \ scanned,
         NEW p \in ScanHit(n)
  PROVE  /\ p \in Int /\ Wanted(p)
         /\ Apart(p, scan.size, (allocated \ scanned) \ {n}, start, size)
<1> DEFINE A == allocated \ scanned
           f == Without(next, prev, n)
           h == prev[n]
           lo == Larger(NodeEnd(h), scan.range_start)
           hi == Smaller(start[next[n]], scan.range_end)
<1>1. /\ scan.size \in Int /\ scan.size > 0 /\ scan.alignment \in Nat
      /\ scan.range_start \in Int /\ scan.range_end \in Int
  BY DEF Requested, ScanType
<1>2. /\ A \in SUBSET Node /\ Fields(start, size) /\ Blocks(A \ {n}, start, size)
      /\ Ring(f, WithoutBack(next, prev, n), (A \ {n}) \cup {HeadNode}, start, size)
      /\ h \in (A \ {n}) \cup {HeadNode} /\ f[h] = next[n]
      /\ NodeEnd(h) = start[h] + size[h] /\ NodeEnd(h) \in Int /\ start[next[n]] \in Int
  BY OfferedRing
<1>3. /\ lo \in Int /\ hi \in Int
      /\ NodeEnd(h) <= lo /\ scan.range_start <= lo
      /\ hi <= start[next[n]] /\ hi <= scan.range_end
  BY <1>1, <1>2 DEF Larger, Smaller
<1>4. p \in Aligned(lo, hi, scan.size, scan.alignment, scan.mode)
  BY DEF ScanHit
<1> HIDE DEF lo, hi
<1>5. /\ p \in Int /\ lo <= p /\ p + scan.size <= hi
      /\ scan.alignment > 1 => p % scan.alignment = 0
  BY <1>1, <1>3, <1>4, AlignedIsInside, AlignedIsComplete
<1>6. start[h] + size[h] <= p /\ p + scan.size <= start[f[h]]
  BY <1>1, <1>2, <1>3, <1>5
<1>7. Wanted(p)
  BY <1>1, <1>3, <1>5 DEF Wanted, Asked
<1>8. Apart(p, scan.size, A \ {n}, start, size)
  <2>1. A \ {n} \in SUBSET Node
    BY <1>2
  <2> HIDE DEF f, h, A
  <2>2. p \in Int /\ scan.size \in Int
    BY <1>1, <1>5
  <2> QED BY <1>1, <1>2, <1>6, <2>1, <2>2, GapIsFree DEF Apart
<1> QED BY <1>5, <1>7, <1>8

(* Where it finds none, taking n out has gained nothing.                   *)
LEMMA MissGainsNothing ==
  ASSUME NEW s, InScan(s), Requested, NEW n \in allocated \ scanned,
         ScanHit(n) = {}, NEW p \in Int, Wanted(p),
         Apart(p, scan.size, (allocated \ scanned) \ {n}, start, size)
  PROVE  Apart(p, scan.size, allocated \ scanned, start, size)
<1> DEFINE A == allocated \ scanned
           h == prev[n]
           lo == Larger(NodeEnd(h), scan.range_start)
           hi == Smaller(start[next[n]], scan.range_end)
<1>1. /\ scan.size \in Int /\ scan.size > 0 /\ scan.alignment \in Nat
      /\ scan.range_start \in Int /\ scan.range_end \in Int
  BY DEF Requested, ScanType
<1>2. /\ A \in SUBSET Node /\ n \in A /\ Fields(start, size) /\ Blocks(A, start, size)
      /\ Ring(next, prev, A \cup {HeadNode}, start, size)
      /\ NodeEnd(h) = start[h] + size[h] /\ NodeEnd(h) \in Int /\ start[next[n]] \in Int
  BY OfferedRing
<1>3. start[n] \in Int /\ size[n] \in Int
  BY NodeTypes
<1>4. start[n] + size[n] <= p \/ p + scan.size <= start[n]
  <2> SUFFICES ASSUME start[n] + size[n] > p, p + scan.size > start[n]
               PROVE  FALSE
    BY <1>1, <1>3
  <2>1. start[h] + size[h] <= p /\ p + scan.size <= start[next[n]]
    BY <1>1, <1>2, PlaceOverNode
  <2>2. /\ lo \in Int /\ hi \in Int /\ lo <= p /\ p + scan.size <= hi
        /\ scan.alignment > 1 => p % scan.alignment = 0
    BY <1>1, <1>2, <2>1 DEF Larger, Smaller, Wanted, Asked
  <2>3. ScanHit(n) = Aligned(lo, hi, scan.size, scan.alignment, scan.mode)
    BY DEF ScanHit
  <2> HIDE DEF lo, hi
  <2>4. \E q \in Aligned(lo, hi, scan.size, scan.alignment, scan.mode) : TRUE
    BY <1>1, <2>2, AlignedIsComplete
  <2> QED BY <2>3, <2>4
<1> QED BY <1>4 DEF Apart

(* A block added is a miss, which leaves the scan as it is, or a hit, which*)
(* sets the place and nothing else.                                        *)
LEMMA ScanAddFields ==
  ASSUME NEW s, InScan(s), ScanType, NEW n \in allocated \ scanned, ScanAddBlock(n)
  PROVE  /\ ScanType'
         /\ ScanHit(n) = {} => scan' = scan
         /\ ScanHit(n) # {} => \E p \in ScanHit(n) :
              /\ scan'.size = scan.size /\ scan'.alignment = scan.alignment
              /\ scan'.range_start = scan.range_start /\ scan'.range_end = scan.range_end
              /\ scan'.hit_start = p /\ scan'.hit_end = p + scan.size
<1>1. CASE ScanHit(n) = {}
  <2>1. scan' = scan
    BY <1>1 DEF ScanAddBlock
  <2> QED BY <1>1, <2>1 DEF ScanType
<1>2. CASE ScanHit(n) # {}
  <2> DEFINE p == CHOOSE p \in ScanHit(n) : TRUE
  <2>1. p \in ScanHit(n) /\ scan' = [scan EXCEPT !.hit_start = p, !.hit_end = p + scan.size]
    BY <1>2 DEF ScanAddBlock
  <2> HIDE DEF p
  <2>2. /\ n \in Link /\ prev \in [Link -> Link] /\ next \in [Link -> Link]
        /\ Fields(start, size)
    <3>1. Ring(next, prev, (allocated \ scanned) \cup {HeadNode}, start, size)
      BY ScanStateHasRing
    <3> QED BY <3>1 DEF Ring, Link, InScan, ScanState
  <2>3. /\ Larger(NodeEnd(prev[n]), scan.range_start) \in Int
        /\ Smaller(start[next[n]], scan.range_end) \in Int
        /\ scan.size \in Int /\ scan.alignment \in Nat
    BY <2>2 DEF ScanType, Larger, Smaller, NodeEnd, Fields
  <2>4. p \in Int
    BY <2>1, <2>3, AlignedIsInside DEF ScanHit
  <2>5. p + scan.size \in Int
    BY <2>3, <2>4
  <2>6. /\ scan'.size = scan.size /\ scan'.alignment = scan.alignment
        /\ scan'.range_start = scan.range_start /\ scan'.range_end = scan.range_end
        /\ scan'.mode = scan.mode /\ scan'.hit_start = p /\ scan'.hit_end = p + scan.size
        /\ scan' = [size |-> scan'.size, alignment |-> scan'.alignment,
                    range_start |-> scan'.range_start, range_end |-> scan'.range_end,
                    mode |-> scan'.mode, hit_start |-> scan'.hit_start,
                    hit_end |-> scan'.hit_end]
    BY <2>1 DEF ScanType
  <2>7. ScanType'
    BY <2>4, <2>5, <2>6 DEF ScanType
  <2> QED BY <1>2, <2>1, <2>6, <2>7
<1> QED BY <1>1, <1>2

(* The block added last is the one whose links fit the list as it is, so   *)
(* that it may come off.                                                   *)
LEMMA LastComesOff ==
  ASSUME NEW s, InScan(s), s # <<>>
  PROVE  s[1] \in allocated /\ next[prev[s[1]]] = next[s[1]]
<1> DEFINE n == s[1]
<1>1. PICK f, b, L :
        /\ f[0] = next /\ b[0] = prev
        /\ Unwinds(s, f, b, L, allocated, start, size)
  BY Zenon DEF InScan, ScanState, Scans
<1>2. s \in Seq(Node) /\ 1 \in 1..Len(s) /\ 1 \in 0..Len(s) /\ Len(s) \in Nat
  BY DEF InScan, ScanState
<1>3. /\ n \in L[1] /\ f[0] = Without(f[1], b[1], n) /\ b[0] = WithoutBack(f[1], b[1], n)
      /\ L[1] \in SUBSET allocated /\ Ring(f[1], b[1], L[1] \cup {HeadNode}, start, size)
  <2>1. 1 - 1 = 0
    OBVIOUS
  <2> QED BY <1>1, <1>2, <2>1 DEF Unwinds
<1> HIDE DEF n
<1>4. /\ allocated \in SUBSET Node /\ Fields(start, size) /\ Blocks(allocated, start, size)
  BY DEF InScan, ScanState
<1>5. Blocks(L[1], start, size) /\ L[1] \in SUBSET Node
  BY <1>3, <1>4 DEF Blocks
<1>6. f[1][n] # n /\ b[1][n] # n
  BY <1>3, <1>4, <1>5, NotAlone
<1>7. /\ n \in Link /\ f[1] \in [Link -> Link] /\ b[1] \in [Link -> Link]
      /\ f[1][n] \in Link /\ b[1][n] \in Link
  BY <1>3, <1>5 DEF Ring, Link
<1>8. prev[n] = b[1][n]
  BY <1>1, <1>3, <1>6, <1>7 DEF WithoutBack
<1>9. next[n] = f[1][n] /\ next[b[1][n]] = f[1][n]
  BY <1>1, <1>3, <1>6, <1>7 DEF Without
<1> QED BY <1>3, <1>4, <1>8, <1>9 DEF n
=============================================================================
