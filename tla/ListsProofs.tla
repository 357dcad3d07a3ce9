---------------------------- MODULE ListsProofs ----------------------------
(***************************************************************************)
(* What the list operations of Lists return, item by item, and what the    *)
(* fold by which a pool's overflow is stated adds up.                      *)
(***************************************************************************)
EXTENDS Lists, TLAPS, WellFoundedInduction, SequenceTheorems, FiniteSetTheorems

(* Every set of natural numbers that is not empty has a least element, so  *)
(* that Min is in the set: what every "first" in the two programs rests on.*)
LEMMA LeastElement ==
  ASSUME NEW S \in SUBSET Nat, S # {}
  PROVE  Min(S) \in S /\ \A y \in S : Min(S) <= y
<1>1. IsWellFoundedOn(OpToRel(<, Nat), Nat)
  BY NatLessThanWellFounded
<1>2. PICK x \in S : \A y \in S : ~ (<<y, x>> \in OpToRel(<, Nat))
  BY <1>1, WFMin, S \subseteq Nat
<1>3. \A y \in S : x <= y
  <2> TAKE y \in S
  <2>1. ~ (y < x)
    BY <1>2 DEF OpToRel
  <2> QED BY <2>1, x \in Nat, y \in Nat
<1> QED BY <1>3 DEF Min

(* list.remove and list_del take out the item at one place and close up.   *)
LEMMA RemoveAtItems ==
  ASSUME NEW T, NEW s \in Seq(T), NEW k \in 1..Len(s)
  PROVE  /\ RemoveAt(s, k) \in Seq(T)
         /\ Len(RemoveAt(s, k)) = Len(s) - 1
         /\ \A j \in 1..Len(s) - 1 :
              RemoveAt(s, k)[j] = IF j < k THEN s[j] ELSE s[j + 1]
<1> DEFINE a == SubSeq(s, 1, k - 1)
           c == SubSeq(s, k + 1, Len(s))
<1>0. Len(s) \in Nat /\ k \in Nat
  OBVIOUS
<1>1. a \in Seq(T) /\ Len(a) = k - 1 /\ \A j \in 1..k - 1 : a[j] = s[j]
  OBVIOUS
<1>2. c \in Seq(T) /\ Len(c) = Len(s) - k /\ \A j \in 1..Len(s) - k : c[j] = s[k + j]
  <2> DEFINE m == k + 1
             n == Len(s)
  <2>1. m \in Int /\ n \in Int /\ \A j \in m..n : s[j] \in T
    OBVIOUS
  <2> HIDE DEF m, n
  <2>2. /\ SubSeq(s, m, n) \in Seq(T)
        /\ Len(SubSeq(s, m, n)) = IF m <= n THEN n - m + 1 ELSE 0
        /\ \A j \in 1..n - m + 1 : SubSeq(s, m, n)[j] = s[m + j - 1]
    BY <2>1, SubSeqProperties
  <2>3. \A j \in 1..n - k : j \in 1..n - m + 1 /\ m + j - 1 = k + j
    BY DEF m, n
  <2>4. \A j \in 1..n - k : SubSeq(s, m, n)[j] = s[k + j]
    BY <2>2, <2>3
  <2>5. Len(SubSeq(s, m, n)) = n - k
    BY <2>2 DEF m, n
  <2>6. c = SubSeq(s, m, n)
    BY DEF m, n
  <2> HIDE DEF c
  <2> QED BY <2>2, <2>4, <2>5, <2>6 DEF n
<1> HIDE DEF a, c
<1>3. a \o c \in Seq(T) /\ Len(a \o c) = Len(s) - 1
  <2>1. a \o c \in Seq(T) /\ Len(a \o c) = Len(a) + Len(c)
    BY <1>1, <1>2, ConcatProperties
  <2> QED BY <1>0, <1>1, <1>2, <2>1
<1>4. ASSUME NEW j \in 1..Len(s) - 1
      PROVE  (a \o c)[j] = IF j < k THEN s[j] ELSE s[j + 1]
  <2>0. j < k \/ j >= k
    BY <1>0
  <2>1. CASE j < k
    BY <2>1, <1>1, <1>2
  <2>2. CASE j >= k
    <3>1. j \in 1..Len(a) + Len(c) /\ ~(j <= Len(a))
      BY <2>2, <1>1, <1>2
    <3>2. PICK i \in Int : i = j - Len(a)
      BY <2>2, <1>1, <1>2
    <3>3. (a \o c)[j] = c[i]
      BY <3>1, <3>2, <1>1, <1>2, ConcatProperties
    <3>4. i \in 1..Len(s) - k /\ k + i = j + 1
      BY <2>2, <3>2, <1>1, <1>2
    <3>5. c[i] = s[k + i]
      BY <3>4, <1>2
    <3> QED BY <3>3, <3>4, <3>5, <2>2
  <2> QED BY <2>0, <2>1, <2>2, Zenon
<1> QED BY <1>3, <1>4 DEF RemoveAt, a, c

(* list.insert makes room at one place.                                    *)
LEMMA InsertAtItems ==
  ASSUME NEW T, NEW s \in Seq(T), NEW k \in 1..Len(s) + 1, NEW x \in T
  PROVE  /\ InsertAt(s, k, x) \in Seq(T)
         /\ Len(InsertAt(s, k, x)) = Len(s) + 1
         /\ \A j \in 1..Len(s) + 1 :
              InsertAt(s, k, x)[j] = IF j < k THEN s[j] ELSE IF j = k THEN x ELSE s[j - 1]
<1> DEFINE a == SubSeq(s, 1, k - 1)
           c == SubSeq(s, k, Len(s))
           m == a \o <<x>>
<1>0. Len(s) \in Nat /\ k \in Nat
  OBVIOUS
<1>1. a \in Seq(T) /\ Len(a) = k - 1 /\ \A j \in 1..k - 1 : a[j] = s[j]
  OBVIOUS
<1>2. /\ c \in Seq(T) /\ Len(c) = Len(s) - k + 1
      /\ \A j \in 1..Len(s) - k + 1 : c[j] = s[k + j - 1]
  <2> DEFINE n == Len(s)
  <2>1. k \in Int /\ n \in Int /\ \A j \in k..n : s[j] \in T
    OBVIOUS
  <2> HIDE DEF n
  <2>2. /\ SubSeq(s, k, n) \in Seq(T)
        /\ Len(SubSeq(s, k, n)) = IF k <= n THEN n - k + 1 ELSE 0
        /\ \A j \in 1..n - k + 1 : SubSeq(s, k, n)[j] = s[k + j - 1]
    BY <2>1, SubSeqProperties
  <2>3. Len(SubSeq(s, k, n)) = n - k + 1
    BY <2>2 DEF n
  <2>4. c = SubSeq(s, k, n)
    BY DEF n
  <2> HIDE DEF c
  <2> QED BY <2>2, <2>3, <2>4 DEF n
<1> HIDE DEF a, c
<1>3. /\ m \in Seq(T) /\ Len(m) = k /\ m[k] = x
      /\ \A j \in 1..k - 1 : m[j] = s[j]
  BY <1>1
<1> HIDE DEF m
<1>4. m \o c \in Seq(T) /\ Len(m \o c) = Len(s) + 1
  BY <1>0, <1>2, <1>3, ConcatProperties
<1>5. ASSUME NEW j \in 1..Len(s) + 1
      PROVE  (m \o c)[j] = IF j < k THEN s[j] ELSE IF j = k THEN x ELSE s[j - 1]
  <2>0. j <= k \/ j > k
    BY <1>0
  <2>1. CASE j <= k
    BY <2>1, <1>2, <1>3
  <2>2. CASE j > k
    <3>1. j \in 1..Len(m) + Len(c) /\ ~(j <= Len(m))
      BY <2>2, <1>2, <1>3
    <3>2. PICK i \in Int : i = j - Len(m)
      BY <2>2, <1>2, <1>3
    <3>3. (m \o c)[j] = c[i]
      BY <3>1, <3>2, <1>2, <1>3, ConcatProperties
    <3>4. i \in 1..Len(s) - k + 1 /\ k + i - 1 = j - 1
      BY <2>2, <3>2, <1>2, <1>3
    <3>5. c[i] = s[k + i - 1]
      BY <3>4, <1>2
    <3> QED BY <3>3, <3>4, <3>5, <2>2
  <2> QED BY <2>0, <2>1, <2>2, Zenon
<1> QED BY <1>4, <1>5 DEF InsertAt, a, c, m

(* An item is taken out at the place where it is.                          *)
LEMMA ListIndexFound ==
  ASSUME NEW T, NEW s \in Seq(T), NEW x, \E k \in 1..Len(s) : s[k] = x
  PROVE  ListIndex(s, x) \in 1..Len(s) /\ s[ListIndex(s, x)] = x
<1> DEFINE S == {k \in 1..Len(s) : s[k] = x}
<1>1. S \in SUBSET Nat /\ S # {}
  OBVIOUS
<1>2. Min(S) \in S
  BY <1>1, LeastElement
<1> QED BY <1>2 DEF ListIndex

(* ListRemove takes out exactly the item it is given, if it occurs once.   *)
LEMMA ListRemoveItems ==
  ASSUME NEW T, NEW s \in Seq(T), NEW x, \E k \in 1..Len(s) : s[k] = x
  PROVE  \E k \in 1..Len(s) :
           /\ s[k] = x
           /\ ListRemove(s, x) \in Seq(T)
           /\ Len(ListRemove(s, x)) = Len(s) - 1
           /\ \A j \in 1..Len(s) - 1 :
                ListRemove(s, x)[j] = IF j < k THEN s[j] ELSE s[j + 1]
<1> DEFINE k == ListIndex(s, x)
<1>1. k \in 1..Len(s) /\ s[k] = x
  BY ListIndexFound
<1>2. /\ RemoveAt(s, k) \in Seq(T)
      /\ Len(RemoveAt(s, k)) = Len(s) - 1
      /\ \A j \in 1..Len(s) - 1 :
           RemoveAt(s, k)[j] = IF j < k THEN s[j] ELSE s[j + 1]
  BY <1>1, RemoveAtItems
<1> HIDE DEF k
<1> QED BY <1>1, <1>2 DEF ListRemove, k

(* list.insert(0, x) and list_add.                                         *)
LEMMA ListPrependItems ==
  ASSUME NEW T, NEW s \in Seq(T), NEW x \in T
  PROVE  /\ ListPrepend(s, x) \in Seq(T)
         /\ Len(ListPrepend(s, x)) = Len(s) + 1
         /\ \A j \in 1..Len(s) + 1 :
              ListPrepend(s, x)[j] = IF j = 1 THEN x ELSE s[j - 1]
  BY DEF ListPrepend

(* The greatest of some places of a list is one of them.                   *)
LEMMA GreatestPlace ==
  ASSUME NEW n \in Nat, NEW S \in SUBSET (1..n), S # {}
  PROVE  Max(S) \in S /\ \A y \in S : y <= Max(S)
<1> DEFINE U == {m \in Nat : \A y \in S : y <= m}
<1>1. U \in SUBSET Nat /\ n \in U
  OBVIOUS
<1>2. Min(U) \in U /\ \A m \in U : Min(U) <= m
  BY <1>1, LeastElement
<1>3. PICK m \in Nat : m \in U /\ \A u \in U : m <= u
  BY <1>2
<1>4. m \in S
  <2> SUFFICES ASSUME m \notin S PROVE FALSE
    OBVIOUS
  <2>1. PICK y \in S : TRUE
    OBVIOUS
  <2>2. m - 1 \in Nat /\ \A z \in S : z <= m - 1
    BY <1>3, <2>1
  <2> QED BY <1>3, <2>2
<1>5. \A y \in S : y <= m
  BY <1>3
<1>6. \A x \in S : (\A y \in S : x >= y) => x = m
  BY <1>4, <1>5
<1> HIDE DEF U
<1> QED BY <1>4, <1>5, <1>6 DEF Max

-----------------------------------------------------------------------------
(* The same without places: what is in the list, and in which order.       *)

(* Taking an item out of a list without duplicates leaves the others, in   *)
(* their order.                                                            *)
LEMMA ListRemoveOrder ==
  ASSUME NEW T, NEW s \in Seq(T), NEW x, InList(s, x), Distinct(s)
  PROVE  /\ ListRemove(s, x) \in Seq(T)
         /\ Len(ListRemove(s, x)) = Len(s) - 1
         /\ Distinct(ListRemove(s, x))
         /\ \A c : InList(ListRemove(s, x), c) <=> InList(s, c) /\ c # x
         /\ \A c, d : Before(ListRemove(s, x), c, d) <=> Before(s, c, d) /\ c # x /\ d # x
<1> DEFINE r == ListRemove(s, x)
<1>0. \E k \in 1..Len(s) : s[k] = x
  BY Zenon DEF InList
<1>1. PICK k \in 1..Len(s) :
        /\ s[k] = x
        /\ r \in Seq(T) /\ Len(r) = Len(s) - 1
        /\ \A j \in 1..Len(s) - 1 : r[j] = IF j < k THEN s[j] ELSE s[j + 1]
  <2>1. \E k \in 1..Len(s) :
          /\ s[k] = x
          /\ ListRemove(s, x) \in Seq(T)
          /\ Len(ListRemove(s, x)) = Len(s) - 1
          /\ \A j \in 1..Len(s) - 1 :
               ListRemove(s, x)[j] = IF j < k THEN s[j] ELSE s[j + 1]
    BY <1>0, ListRemoveItems
  <2> QED BY <2>1, Zenon
<1> DEFINE old(j) == IF j < k THEN j ELSE j + 1
<1>2. Len(s) \in Nat /\ k \in Nat
  OBVIOUS
<1>3. \A j \in 1..Len(r) : old(j) \in 1..Len(s) /\ old(j) # k /\ r[j] = s[old(j)]
  BY <1>1, <1>2
<1>4. \A j, m \in 1..Len(r) : j < m => old(j) < old(m)
  BY <1>1, <1>2
<1>5. \A m \in 1..Len(s) : m # k => \E j \in 1..Len(r) : old(j) = m
  <2> TAKE m \in 1..Len(s)
  <2> HAVE m # k
  <2>1. CASE m < k
    <3>1. m \in 1..Len(r) /\ old(m) = m
      BY <2>1, <1>1, <1>2
    <3> QED BY <3>1, Zenon
  <2>2. CASE m > k
    <3>1. m - 1 \in 1..Len(r) /\ old(m - 1) = m
      BY <2>2, <1>1, <1>2
    <3> QED BY <3>1, Zenon
  <2>3. m < k \/ m > k
    BY <1>2
  <2> QED BY <2>1, <2>2, <2>3, Zenon
<1>6. r \in Seq(T) /\ Len(r) = Len(s) - 1
  BY <1>1
<1>7. s[k] = x
  BY <1>1
<1> HIDE DEF r, old
<1>8. \A c : InList(r, c) => InList(s, c) /\ c # x
  BY <1>3, <1>7, Zenon DEF InList, Distinct
<1>9. \A c : InList(s, c) /\ c # x => InList(r, c)
  BY <1>3, <1>5, <1>7, Zenon DEF InList
<1>10. \A c, d : Before(r, c, d) <=> Before(s, c, d) /\ c # x /\ d # x
  <2> TAKE c, d
  <2>1. ASSUME Before(r, c, d) PROVE Before(s, c, d) /\ c # x /\ d # x
    <3>1. PICK j \in 1..Len(r), m \in 1..Len(r) : j < m /\ r[j] = c /\ r[m] = d
      BY <2>1, Zenon DEF Before
    <3>2. old(j) < old(m) /\ old(j) \in 1..Len(s) /\ old(m) \in 1..Len(s)
          /\ s[old(j)] = c /\ s[old(m)] = d
      BY <3>1, <1>3, <1>4, Zenon
    <3> QED BY <3>1, <3>2, <1>8, Zenon DEF Before, InList
  <2>2. ASSUME Before(s, c, d), c # x, d # x PROVE Before(r, c, d)
    <3>1. PICK j \in 1..Len(s), m \in 1..Len(s) : j < m /\ s[j] = c /\ s[m] = d
      BY <2>2, Zenon DEF Before
    <3>2. j # k /\ m # k
      BY <2>2, <3>1, <1>7
    <3>3. PICK a \in 1..Len(r), b \in 1..Len(r) : old(a) = j /\ old(b) = m
      BY <3>2, <1>5, Zenon
    <3>4. a < b \/ b < a \/ a = b
      BY <1>2, <1>6
    <3>5. ~(old(b) < old(a)) /\ old(a) # old(b)
      BY <3>1, <3>3
    <3>6. a < b
      BY <3>4, <3>5, <1>4, Zenon
    <3> QED BY <3>1, <3>3, <3>6, <1>3, Zenon DEF Before
  <2> QED BY <2>1, <2>2, Zenon
<1>11. Distinct(r)
  <2> SUFFICES ASSUME NEW j \in 1..Len(r), NEW m \in 1..Len(r), j # m
               PROVE  r[j] # r[m]
    BY Zenon DEF Distinct
  <2>1. j < m \/ m < j
    BY <1>2, <1>6
  <2>2. old(j) < old(m) \/ old(m) < old(j)
    BY <2>1, <1>4, Zenon
  <2>3. old(j) # old(m)
    <3>1. old(j) \in Nat /\ old(m) \in Nat
      BY <1>2, <1>3
    <3> QED BY <3>1, <2>2
  <2> QED BY <2>3, <1>3, Zenon DEF Distinct
<1> QED BY <1>6, <1>8, <1>9, <1>10, <1>11, Zenon DEF r

(* A new item goes before those from place k on and behind the others.     *)
LEMMA InsertAtOrder ==
  ASSUME NEW T, NEW s \in Seq(T), NEW k \in 1..Len(s) + 1, NEW x \in T,
         Distinct(s), ~InList(s, x)
  PROVE  /\ InsertAt(s, k, x) \in Seq(T)
         /\ Len(InsertAt(s, k, x)) = Len(s) + 1
         /\ Distinct(InsertAt(s, k, x))
         /\ \A c : InList(InsertAt(s, k, x), c) <=> InList(s, c) \/ c = x
         /\ \A c, d : Before(InsertAt(s, k, x), c, d) =>
              \/ Before(s, c, d)
              \/ c = x /\ \E j \in 1..Len(s) : k <= j /\ s[j] = d
              \/ d = x /\ \E j \in 1..Len(s) : j < k /\ s[j] = c
<1> DEFINE r == InsertAt(s, k, x)
<1>1. /\ r \in Seq(T) /\ Len(r) = Len(s) + 1
      /\ \A j \in 1..Len(s) + 1 :
           r[j] = IF j < k THEN s[j] ELSE IF j = k THEN x ELSE s[j - 1]
  BY InsertAtItems
<1>2. Len(s) \in Nat /\ k \in 1..Len(r)
  BY <1>1
<1> DEFINE old(j) == IF j < k THEN j ELSE j - 1
           new(j) == IF j < k THEN j ELSE j + 1
<1>3. \A j \in 1..Len(r) : j # k => old(j) \in 1..Len(s) /\ r[j] = s[old(j)]
  BY <1>1, <1>2
<1>4. \A j \in 1..Len(s) : new(j) \in 1..Len(r) /\ r[new(j)] = s[j]
  <2> TAKE j \in 1..Len(s)
  <2>1. new(j) \in 1..Len(s) + 1 /\ new(j) # k
    BY <1>2
  <2>2. new(j) < k => new(j) = j
    BY <1>2
  <2>3. ~(new(j) < k) => new(j) - 1 = j
    BY <1>2
  <2> HIDE DEF new
  <2> QED BY <2>1, <2>2, <2>3, <1>1
<1>5. \A j, m \in 1..Len(r) : j < m /\ j # k /\ m # k => old(j) < old(m)
  BY <1>1, <1>2
<1>6. r[k] = x
  BY <1>1, <1>2
<1>7. \A j \in 1..Len(r) : (j < k => old(j) < k) /\ (k < j => k <= old(j))
  BY <1>1, <1>2
<1>8. r \in Seq(T) /\ Len(r) = Len(s) + 1
  BY <1>1
<1> HIDE DEF r, old, new
<1>9. \A c : InList(r, c) => InList(s, c) \/ c = x
  BY <1>3, <1>6, Zenon DEF InList
<1>10. \A c : InList(s, c) \/ c = x => InList(r, c)
  BY <1>2, <1>4, <1>6, Zenon DEF InList
<1>11. ASSUME NEW j \in 1..Len(r), NEW m \in 1..Len(r), j < m
       PROVE  /\ r[j] # r[m]
              /\ \/ Before(s, r[j], r[m])
                 \/ r[j] = x /\ \E q \in 1..Len(s) : k <= q /\ s[q] = r[m]
                 \/ r[m] = x /\ \E q \in 1..Len(s) : q < k /\ s[q] = r[j]
  <2>1. CASE j # k /\ m # k
    <3>1. old(j) < old(m) /\ old(j) \in 1..Len(s) /\ old(m) \in 1..Len(s)
      BY <2>1, <1>3, <1>5, <1>11, Zenon
    <3>2. old(j) # old(m)
      BY <3>1, <1>2
    <3> QED BY <2>1, <3>1, <3>2, <1>3, Zenon DEF Before, Distinct
  <2>2. CASE j = k
    <3>1. m # k /\ k < m
      BY <2>2, <1>2, <1>11
    <3> QED BY <2>2, <3>1, <1>3, <1>6, <1>7, Zenon DEF InList
  <2>3. CASE m = k
    <3>1. j # k /\ j < k
      BY <2>3, <1>2, <1>11
    <3> QED BY <2>3, <3>1, <1>3, <1>6, <1>7, Zenon DEF InList
  <2> QED BY <2>1, <2>2, <2>3, Zenon
<1>12. Distinct(r)
  <2> SUFFICES ASSUME NEW j \in 1..Len(r), NEW m \in 1..Len(r), j # m
               PROVE  r[j] # r[m]
    BY Zenon DEF Distinct
  <2>1. j < m \/ m < j
    BY <1>2, <1>8
  <2> QED BY <2>1, <1>11, Zenon
<1>13. \A c, d : Before(r, c, d) =>
         \/ Before(s, c, d)
         \/ c = x /\ \E j \in 1..Len(s) : k <= j /\ s[j] = d
         \/ d = x /\ \E j \in 1..Len(s) : j < k /\ s[j] = c
  <2> TAKE c, d
  <2> HAVE Before(r, c, d)
  <2>1. PICK j \in 1..Len(r), m \in 1..Len(r) : j < m /\ r[j] = c /\ r[m] = d
    BY Zenon DEF Before
  <2> QED BY <1>11, <2>1, Zenon
<1> QED BY <1>8, <1>9, <1>10, <1>12, <1>13, Zenon DEF r

(* Prepending puts the new item before all the others.                     *)
LEMMA ListPrependOrder ==
  ASSUME NEW T, NEW s \in Seq(T), NEW x \in T, Distinct(s), ~InList(s, x)
  PROVE  /\ ListPrepend(s, x) \in Seq(T)
         /\ Distinct(ListPrepend(s, x))
         /\ \A c : InList(ListPrepend(s, x), c) <=> InList(s, c) \/ c = x
         /\ \A c, d : Before(ListPrepend(s, x), c, d) <=> Before(s, c, d) \/ (c = x /\ InList(s, d))
<1> DEFINE r == ListPrepend(s, x)
<1>1. /\ r \in Seq(T) /\ Len(r) = Len(s) + 1
      /\ \A j \in 1..Len(s) + 1 : r[j] = IF j = 1 THEN x ELSE s[j - 1]
  BY ListPrependItems
<1>2. Len(s) \in Nat /\ 1 \in 1..Len(r) /\ r[1] = x
  BY <1>1
<1>3. \A j \in 1..Len(r) : j # 1 => j - 1 \in 1..Len(s) /\ r[j] = s[j - 1]
  BY <1>1, <1>2
<1>4. \A j \in 1..Len(s) : j + 1 \in 1..Len(r) /\ r[j + 1] = s[j]
  <2> TAKE j \in 1..Len(s)
  <2>1. j + 1 \in 1..Len(s) + 1 /\ j + 1 # 1 /\ (j + 1) - 1 = j
    BY <1>2
  <2> QED BY <2>1, <1>1
<1>5. \A j, m \in 1..Len(r) : j # m => j - 1 # m - 1
  BY <1>1, <1>2
<1>6. r \in Seq(T)
  BY <1>1
<1> HIDE DEF r
<1>7. \A c : InList(r, c) <=> InList(s, c) \/ c = x
  <2> TAKE c
  <2>1. ASSUME InList(r, c) PROVE InList(s, c) \/ c = x
    <3>1. PICK j \in 1..Len(r) : r[j] = c
      BY <2>1, Zenon DEF InList
    <3> QED BY <3>1, <1>2, <1>3, Zenon DEF InList
  <2>2. ASSUME InList(s, c) \/ c = x PROVE InList(r, c)
    BY <2>2, <1>2, <1>4, Zenon DEF InList
  <2> QED BY <2>1, <2>2, Zenon
<1>8. Distinct(r)
  <2> SUFFICES ASSUME NEW j \in 1..Len(r), NEW m \in 1..Len(r), j # m
               PROVE  r[j] # r[m]
    BY Zenon DEF Distinct
  <2>1. CASE j = 1
    BY <2>1, <1>2, <1>3, Zenon DEF InList
  <2>2. CASE m = 1
    BY <2>2, <1>2, <1>3, Zenon DEF InList
  <2>3. CASE j # 1 /\ m # 1
    <3>1. j - 1 # m - 1
      BY <1>5, Zenon
    <3> QED BY <2>3, <3>1, <1>3, Zenon DEF Distinct
  <2> QED BY <2>1, <2>2, <2>3, Zenon
<1>9. \A c, d : Before(r, c, d) => Before(s, c, d) \/ (c = x /\ InList(s, d))
  <2> SUFFICES ASSUME NEW c, NEW d, Before(r, c, d)
               PROVE  Before(s, c, d) \/ (c = x /\ InList(s, d))
    BY Zenon
  <2>1. PICK j \in 1..Len(r), m \in 1..Len(r) : j < m /\ r[j] = c /\ r[m] = d
    BY Zenon DEF Before
  <2>2. m # 1 /\ (j # 1 => j - 1 < m - 1)
    BY <2>1, <1>2, <1>6
  <2>3. m - 1 \in 1..Len(s) /\ s[m - 1] = d
    BY <2>1, <2>2, <1>3, Zenon
  <2>4. CASE j = 1
    BY <2>1, <2>3, <2>4, <1>2, Zenon DEF InList
  <2>5. CASE j # 1
    BY <2>1, <2>2, <2>3, <2>5, <1>3, Zenon DEF Before
  <2> QED BY <2>4, <2>5
<1>10. \A c, d : Before(s, c, d) \/ (c = x /\ InList(s, d)) => Before(r, c, d)
  <2> SUFFICES ASSUME NEW c, NEW d, Before(s, c, d) \/ (c = x /\ InList(s, d))
               PROVE  Before(r, c, d)
    BY Zenon
  <2>1. \A j, m \in 1..Len(s) : j < m => j + 1 < m + 1
    BY <1>2
  <2>2. \A j \in 1..Len(s) : 1 < j + 1
    BY <1>2
  <2>3. CASE Before(s, c, d)
    BY <2>1, <2>3, <1>4, Zenon DEF Before
  <2>4. CASE c = x /\ InList(s, d)
    BY <2>2, <2>4, <1>2, <1>4, Zenon DEF Before, InList
  <2> QED BY <2>3, <2>4
<1> QED BY <1>6, <1>7, <1>8, <1>9, <1>10, Zenon DEF r

-----------------------------------------------------------------------------
(* The sum of a function over a finite set                                 *)

(* The members of S are added up one after the other, in the order of e;   *)
(* s is what the sum has come to after each of them.                       *)
Adds(f, S, t, n, e, s) ==
  /\ \A k \in 1..n : e[k] \in S
  /\ \A j, k \in 1..n : j # k => e[j] # e[k]
  /\ \A x \in S : \E k \in 1..n : e[k] = x
  /\ \A k \in 0..n : s[k] \in Int
  /\ s[0] = 0 /\ s[n] = t
  /\ \A k \in 1..n : s[k] = s[k - 1] + f[e[k]]

SumIs(f, S, t) == \E n \in Nat : \E e, s : Adds(f, S, t, n, e, s)

(* Nothing adds up to 0.                                                   *)
LEMMA SumOfNone ==
  ASSUME NEW f
  PROVE  SumIs(f, {}, 0) /\ \A t : SumIs(f, {}, t) => t = 0
<1> DEFINE s == [k \in {0} |-> 0]
<1>1. s[0] = 0 /\ 0 \in Nat
  OBVIOUS
<1> HIDE DEF s
<1>2. Adds(f, {}, 0, 0, <<>>, s)
  BY <1>1 DEF Adds
<1>3. SumIs(f, {}, 0)
  BY <1>1, <1>2, Zenon DEF SumIs
<1>4. ASSUME NEW t, SumIs(f, {}, t) PROVE t = 0
  <2>1. PICK n \in Nat : \E e, r : Adds(f, {}, t, n, e, r)
    BY <1>4, Zenon DEF SumIs
  <2>2. PICK e, r : Adds(f, {}, t, n, e, r)
    BY <2>1, Zenon
  <2>3. n = 0
    <3>1. \A k \in 1..n : FALSE
      BY <2>2 DEF Adds
    <3> QED BY <3>1
  <2> QED BY <2>2, <2>3 DEF Adds
<1> QED BY <1>3, <1>4

(* Only the values on the set matter.                                      *)
LEMMA SumOfSame ==
  ASSUME NEW f, NEW g, NEW S, NEW t, SumIs(f, S, t), \A x \in S : g[x] = f[x]
  PROVE  SumIs(g, S, t)
<1>1. PICK n \in Nat : \E e, s : Adds(f, S, t, n, e, s)
  BY Zenon DEF SumIs
<1>2. PICK e, s : Adds(f, S, t, n, e, s)
  BY <1>1, Zenon
<1>3. \A k \in 1..n : g[e[k]] = f[e[k]]
  BY <1>2 DEF Adds
<1>4. Adds(g, S, t, n, e, s)
  BY <1>2, <1>3 DEF Adds
<1> QED BY <1>4, Zenon DEF SumIs

(* One more is added last.                                                 *)
LEMMA SumWith ==
  ASSUME NEW f, NEW S, NEW t, SumIs(f, S, t), NEW x, x \notin S, f[x] \in Int
  PROVE  SumIs(f, S \cup {x}, t + f[x])
<1>1. PICK n \in Nat : \E e, s : Adds(f, S, t, n, e, s)
  BY Zenon DEF SumIs
<1>2. PICK e, s : Adds(f, S, t, n, e, s)
  BY <1>1, Zenon
<1> DEFINE m == n + 1
           d == [k \in 1..m |-> IF k = m THEN x ELSE e[k]]
           r == [k \in 0..m |-> IF k = m THEN t + f[x] ELSE s[k]]
<1>3. m \in Nat /\ t \in Int
  BY <1>2 DEF Adds
<1>4. /\ d[m] = x /\ \A k \in 1..n : d[k] = e[k]
      /\ r[m] = t + f[x] /\ \A k \in 0..n : r[k] = s[k]
      /\ \A k \in 1..m : k \in 1..n \/ k = m
      /\ \A k \in 0..m : k \in 0..n \/ k = m
      /\ m - 1 = n /\ n \in 0..n /\ m \in 1..m /\ m # 0
      /\ \A k \in 1..n : k \in 1..m /\ k - 1 \in 0..n /\ k \in 0..n /\ k # m
  OBVIOUS
<1> HIDE DEF m, d, r
<1>5. \A k \in 1..m : d[k] \in S \cup {x}
  BY <1>2, <1>4 DEF Adds
<1>6. \A j, k \in 1..m : j # k => d[j] # d[k]
  BY <1>2, <1>4 DEF Adds
<1>7. \A y \in S \cup {x} : \E k \in 1..m : d[k] = y
  BY <1>2, <1>4 DEF Adds
<1>8. /\ \A k \in 0..m : r[k] \in Int
      /\ r[0] = 0 /\ r[m] = t + f[x]
  <2>1. 0 \in 0..n
    OBVIOUS
  <2> QED BY <1>2, <1>3, <1>4, <2>1 DEF Adds
<1>9. \A k \in 1..m : r[k] = r[k - 1] + f[d[k]]
  BY <1>2, <1>4 DEF Adds
<1>10. Adds(f, S \cup {x}, t + f[x], m, d, r)
  BY <1>5, <1>6, <1>7, <1>8, <1>9 DEF Adds
<1> QED BY <1>3, <1>10, Zenon DEF SumIs

(* One of them is left out: those behind it move up by one.                *)
LEMMA SumWithout ==
  ASSUME NEW f, NEW S, NEW t, SumIs(f, S, t), NEW x \in S, \A y \in S : f[y] \in Int
  PROVE  SumIs(f, S \ {x}, t - f[x])
<1>1. PICK n \in Nat : \E e, s : Adds(f, S, t, n, e, s)
  BY Zenon DEF SumIs
<1>2. PICK e, s : Adds(f, S, t, n, e, s)
  BY <1>1, Zenon
<1>3. PICK i \in 1..n : e[i] = x
  BY <1>2 DEF Adds
<1> DEFINE m == n - 1
           from(k) == IF k < i THEN k ELSE k + 1
           d == [k \in 1..m |-> e[from(k)]]
           r == [k \in 0..m |-> IF k < i THEN s[k] ELSE s[k + 1] - f[x]]
<1>4. m \in Nat /\ n \in Nat /\ i \in Nat /\ i >= 1 /\ i <= n
  BY <1>3
<1>5. /\ \A k \in 1..m : from(k) \in 1..n /\ from(k) # i /\ d[k] = e[from(k)]
      /\ \A j, k \in 1..m : j # k => from(j) # from(k)
      /\ \A k \in 1..n : k # i => \E j \in 1..m : from(j) = k
  <2>1. \A k \in 1..m : from(k) \in 1..n /\ from(k) # i
    BY <1>4
  <2>2. \A j, k \in 1..m : j # k => from(j) # from(k)
    BY <1>4
  <2>3. ASSUME NEW k \in 1..n, k # i
        PROVE  \E j \in 1..m : from(j) = k
    <3>1. CASE k < i
      <4>1. k \in 1..m /\ from(k) = k
        BY <1>4, <3>1
      <4> QED BY <4>1
    <3>2. CASE k > i
      <4>1. k - 1 \in 1..m /\ from(k - 1) = k
        BY <1>4, <3>2
      <4> QED BY <4>1
    <3> QED BY <1>4, <2>3, <3>1, <3>2
  <2> QED BY <2>1, <2>2, <2>3
<1>6. \A k \in 0..m : r[k] = IF k < i THEN s[k] ELSE s[k + 1] - f[x]
  OBVIOUS
<1> HIDE DEF d, r, from
<1>7. \A k \in 1..m : d[k] \in S \ {x}
  BY <1>2, <1>3, <1>5 DEF Adds
<1>8. ASSUME NEW j \in 1..m, NEW k \in 1..m, j # k PROVE d[j] # d[k]
  <2>1. \A a, b \in 1..n : a # b => e[a] # e[b]
    BY <1>2 DEF Adds
  <2>2. from(j) \in 1..n /\ from(k) \in 1..n /\ from(j) # from(k)
    BY <1>5, <1>8
  <2>3. e[from(j)] # e[from(k)]
    BY <2>1, <2>2
  <2> QED BY <1>5, <2>3
<1>9. \A y \in S \ {x} : \E k \in 1..m : d[k] = y
  <2> TAKE y \in S \ {x}
  <2>1. PICK k \in 1..n : e[k] = y
    BY <1>2 DEF Adds
  <2>2. k # i
    BY <1>3, <2>1
  <2>3. PICK j \in 1..m : from(j) = k
    BY <1>5, <2>2
  <2> QED BY <1>5, <2>1, <2>3
<1>10. /\ \A k \in 0..n : s[k] \in Int
       /\ s[0] = 0 /\ s[n] = t
       /\ \A k \in 1..n : s[k] = s[k - 1] + f[e[k]]
  BY <1>2 DEF Adds
<1>11. \A k \in 0..m : r[k] \in Int
  BY <1>4, <1>6, <1>10
<1>12. r[0] = 0 /\ r[m] = t - f[x]
  <2>1. s[i] = s[i - 1] + f[x]
    BY <1>3, <1>10
  <2>2. i - 1 \in 0..n /\ s[i - 1] \in Int
    BY <1>4, <1>10
  <2>3. r[0] = 0
    BY <1>4, <1>6, <1>10
  <2>4. r[m] = t - f[x]
    <3>1. CASE i = n
      <4>1. m \in 0..m /\ m < i /\ r[m] = s[m] /\ m = i - 1
        BY <1>4, <1>6, <3>1
      <4> QED BY <1>10, <2>1, <2>2, <3>1, <4>1
    <3>2. CASE i < n
      <4>1. m \in 0..m /\ ~(m < i) /\ r[m] = s[m + 1] - f[x] /\ m + 1 = n
        BY <1>4, <1>6, <3>2
      <4> QED BY <1>10, <4>1
    <3> QED BY <1>4, <3>1, <3>2
  <2> QED BY <2>3, <2>4
<1>13. ASSUME NEW k \in 1..m
       PROVE  r[k] = r[k - 1] + f[d[k]]
  <2>1. /\ k \in 0..m /\ k - 1 \in 0..m /\ k \in 1..n /\ k + 1 \in 1..n
        /\ k \in 0..n /\ k - 1 \in 0..n /\ k + 1 \in 0..n /\ (k + 1) - 1 = k
        /\ (k - 1) + 1 = k
    BY <1>4
  <2>2. s[k] \in Int /\ s[k - 1] \in Int /\ s[k + 1] \in Int
    BY <1>10, <2>1
  <2>3. CASE k < i
    <3>1. r[k] = s[k] /\ r[k - 1] = s[k - 1] /\ d[k] = e[k]
      BY <1>4, <1>5, <1>6, <2>1, <2>3 DEF from
    <3> QED BY <1>10, <2>1, <3>1
  <2>4. CASE k = i
    <3>1. r[k] = s[k + 1] - f[x] /\ r[k - 1] = s[k - 1] /\ d[k] = e[k + 1]
      BY <1>4, <1>5, <1>6, <2>1, <2>4 DEF from
    <3>2. s[k + 1] = s[k] + f[d[k]] /\ s[k] = s[k - 1] + f[x]
      BY <1>3, <1>10, <2>1, <2>4, <3>1
    <3>3. f[d[k]] \in Int /\ f[x] \in Int
      BY <1>7
    <3> QED BY <2>2, <3>1, <3>2, <3>3
  <2>5. CASE k > i
    <3>1. r[k] = s[k + 1] - f[x] /\ r[k - 1] = s[k] - f[x] /\ d[k] = e[k + 1]
      BY <1>4, <1>5, <1>6, <2>1, <2>5 DEF from
    <3>2. s[k + 1] = s[k] + f[d[k]] /\ f[d[k]] \in Int /\ f[x] \in Int
      BY <1>7, <1>10, <2>1, <3>1
    <3> QED BY <2>2, <3>1, <3>2
  <2> QED BY <1>4, <2>3, <2>4, <2>5
<1>14. Adds(f, S \ {x}, t - f[x], m, d, r)
  BY <1>7, <1>8, <1>9, <1>11, <1>12, <1>13 DEF Adds
<1> QED BY <1>4, <1>14, Zenon DEF SumIs

(* It is a number.                                                         *)
LEMMA SumIsNumber ==
  ASSUME NEW f, NEW S, NEW t, SumIs(f, S, t)
  PROVE  t \in Int
<1>1. PICK n \in Nat : \E e, s : Adds(f, S, t, n, e, s)
  BY Zenon DEF SumIs
<1>2. PICK e, s : Adds(f, S, t, n, e, s)
  BY <1>1, Zenon
<1> QED BY <1>2 DEF Adds

(* Every finite set of numbers has a sum.                                  *)
LEMMA SumExists ==
  ASSUME NEW f, NEW S, IsFiniteSet(S), \A x \in S : f[x] \in Int
  PROVE  \E t \in Int : SumIs(f, S, t)
<1> DEFINE Has(T) == \E t \in Int : SumIs(f, T, t)
           B == {n \in Nat : \E T \in SUBSET S : Cardinality(T) = n /\ ~Has(T)}
<1>1. CASE B = {}
  <2>1. Cardinality(S) \in Nat /\ S \in SUBSET S
    BY FS_CardinalityType
  <2> QED BY <1>1, <2>1
<1>2. CASE B # {}
  <2> DEFINE m == Min(B)
  <2>1. m \in B /\ \A n \in B : m <= n
    BY <1>2, LeastElement
  <2> HIDE DEF m
  <2>2. PICK T \in SUBSET S : Cardinality(T) = m /\ ~Has(T)
    BY <2>1
  <2>3. IsFiniteSet(T) /\ m \in Nat
    BY <2>1, FS_Subset
  <2>4. T # {}
    <3>1. Has({})
      BY SumOfNone
    <3> QED BY <2>2, <3>1
  <2>5. PICK x \in T : TRUE
    BY <2>4
  <2>6. Cardinality(T \ {x}) = m - 1 /\ Cardinality(T \ {x}) \in Nat
    BY <2>2, <2>3, FS_RemoveElement, FS_CardinalityType
  <2>7. Has(T \ {x})
    <3>1. ~(m - 1 \in B)
      BY <2>1, <2>3
    <3> QED BY <2>6, <3>1
  <2>8. PICK t \in Int : SumIs(f, T \ {x}, t)
    BY <2>7
  <2>9. x \notin T \ {x} /\ f[x] \in Int /\ t + f[x] \in Int
    BY <2>5
  <2>10. SumIs(f, (T \ {x}) \cup {x}, t + f[x])
    BY <2>8, <2>9, SumWith
  <2>11. (T \ {x}) \cup {x} = T
    OBVIOUS
  <2> QED BY <2>2, <2>9, <2>10, <2>11
<1> QED BY <1>1, <1>2

(* And only one: the order in which they are added up does not matter.     *)
LEMMA SumIsUnique ==
  ASSUME NEW f, NEW S, IsFiniteSet(S), \A x \in S : f[x] \in Int,
         NEW t, NEW u, SumIs(f, S, t), SumIs(f, S, u)
  PROVE  t = u
<1> DEFINE One(T) == \A v, w : SumIs(f, T, v) /\ SumIs(f, T, w) => v = w
           B == {n \in Nat : \E T \in SUBSET S : Cardinality(T) = n /\ ~One(T)}
<1>1. CASE B = {}
  <2>1. Cardinality(S) \in Nat /\ S \in SUBSET S
    BY FS_CardinalityType
  <2>2. One(S)
    BY <1>1, <2>1
  <2> QED BY <2>2
<1>2. CASE B # {}
  <2> DEFINE m == Min(B)
  <2>1. m \in B /\ \A n \in B : m <= n
    BY <1>2, LeastElement
  <2> HIDE DEF m
  <2>2. PICK T \in SUBSET S : Cardinality(T) = m /\ ~One(T)
    BY <2>1
  <2>3. IsFiniteSet(T) /\ m \in Nat
    BY <2>1, FS_Subset
  <2>4. PICK v, w : SumIs(f, T, v) /\ SumIs(f, T, w) /\ v # w
    BY <2>2
  <2>5. T # {}
    BY <2>4, SumOfNone
  <2>6. PICK x \in T : TRUE
    BY <2>5
  <2>7. Cardinality(T \ {x}) = m - 1 /\ Cardinality(T \ {x}) \in Nat
    BY <2>2, <2>3, FS_RemoveElement, FS_CardinalityType
  <2>8. One(T \ {x})
    <3>1. ~(m - 1 \in B)
      BY <2>1, <2>3
    <3> QED BY <2>7, <3>1
  <2>9. SumIs(f, T \ {x}, v - f[x]) /\ SumIs(f, T \ {x}, w - f[x])
    BY <2>4, SumWithout
  <2>10. v - f[x] = w - f[x]
    BY <2>8, <2>9
  <2>11. v \in Int /\ w \in Int
    BY <2>4, SumIsNumber
  <2> QED BY <2>4, <2>10, <2>11
<1> QED BY <1>1, <1>2

(* The fold by which the two programs' overflow is stated is this sum.     *)
LEMMA FoldIsSum ==
  ASSUME NEW f, NEW S, IsFiniteSet(S), \A x \in S : f[x] \in Int
  PROVE  /\ SumIs(f, S, FoldFunctionOnSet(+, 0, f, S))
         /\ FoldFunctionOnSet(+, 0, f, S) \in Int
<1> DEFINE any(T) == CHOOSE x \in T : TRUE
           step(g, T) == IF T = {} THEN 0 ELSE f[any(T)] + g[T \ {any(T)}]
           iter == CHOOSE g : g = [T \in SUBSET S |-> step(g, T)]
           sum == [T \in SUBSET S |-> CHOOSE t \in Int : SumIs(f, T, t)]
<1>1. FoldFunctionOnSet(+, 0, f, S) = iter[S]
  BY DEF FoldFunctionOnSet, MapThenFoldSet
<1>2. \A T \in SUBSET S : T # {} => any(T) \in T
  OBVIOUS
<1> HIDE DEF any
<1>3. ASSUME NEW T \in SUBSET S
      PROVE  sum[T] \in Int /\ SumIs(f, T, sum[T])
  <2>1. IsFiniteSet(T) /\ \A x \in T : f[x] \in Int
    BY FS_Subset
  <2>2. \E t \in Int : SumIs(f, T, t)
    BY <2>1, SumExists
  <2> QED BY <2>2
<1>4. ASSUME NEW T \in SUBSET S
      PROVE  sum[T] = step(sum, T)
  <2>1. CASE T = {}
    BY <1>3, <2>1, SumOfNone
  <2>2. CASE T # {}
    <3> DEFINE x == any(T)
               R == T \ {x}
    <3>1. x \in T /\ R \in SUBSET S /\ R \cup {x} = T /\ x \notin R /\ f[x] \in Int
      BY <1>2, <2>2
    <3>2. IsFiniteSet(T) /\ \A y \in T : f[y] \in Int
      BY FS_Subset
    <3>3. SumIs(f, R, sum[R]) /\ sum[R] \in Int
      BY <1>3, <3>1
    <3> HIDE DEF x, R, sum
    <3>4. SumIs(f, T, sum[R] + f[x])
      <4>1. SumIs(f, R \cup {x}, sum[R] + f[x])
        BY <3>1, <3>3, SumWith
      <4> QED BY <3>1, <4>1
    <3>5. sum[T] = sum[R] + f[x]
      BY <1>3, <3>2, <3>4, SumIsUnique
    <3>6. step(sum, T) = f[x] + sum[R]
      BY <2>2 DEF x, R
    <3> QED BY <3>1, <3>3, <3>5, <3>6
  <2> QED BY <2>1, <2>2
<1>5. sum = [T \in SUBSET S |-> step(sum, T)]
  <2>1. sum = [T \in SUBSET S |-> sum[T]]
    OBVIOUS
  <2> HIDE DEF sum, step
  <2> QED BY <1>4, <2>1
<1> HIDE DEF sum
<1>6. iter = [T \in SUBSET S |-> step(iter, T)]
  <2> HIDE DEF step
  <2> QED BY <1>5, Zenon
<1> HIDE DEF iter
<1>7. \A T \in SUBSET S : iter[T] = step(iter, T)
  <2> HIDE DEF step
  <2> QED BY <1>6, Zenon
<1> DEFINE B == {n \in Nat : \E T \in SUBSET S : Cardinality(T) = n /\ iter[T] # sum[T]}
<1>8. B = {}
  <2> SUFFICES ASSUME B # {} PROVE FALSE
    OBVIOUS
  <2> DEFINE m == Min(B)
  <2>1. m \in B /\ \A n \in B : m <= n
    BY LeastElement
  <2> HIDE DEF m
  <2>2. PICK T \in SUBSET S : Cardinality(T) = m /\ iter[T] # sum[T]
    BY <2>1
  <2>3. IsFiniteSet(T) /\ m \in Nat
    BY <2>1, FS_Subset
  <2>4. T # {}
    BY <1>4, <1>7, <2>2
  <2> DEFINE x == any(T)
             R == T \ {x}
  <2>5. x \in T /\ R \in SUBSET S
    BY <1>2, <2>4
  <2>6. step(iter, T) = f[x] + iter[R] /\ step(sum, T) = f[x] + sum[R]
    BY <2>4
  <2> HIDE DEF x, step
  <2>7. Cardinality(R) = m - 1 /\ Cardinality(R) \in Nat
    BY <2>2, <2>3, <2>5, FS_RemoveElement, FS_CardinalityType
  <2> HIDE DEF R
  <2>8. iter[R] = sum[R]
    <3>1. ~(m - 1 \in B)
      BY <2>1, <2>3
    <3> QED BY <2>5, <2>7, <3>1
  <2> QED BY <1>4, <1>7, <2>2, <2>6, <2>8
<1>9. iter[S] = sum[S]
  <2>1. Cardinality(S) \in Nat /\ S \in SUBSET S
    BY FS_CardinalityType
  <2> QED BY <1>8, <2>1
<1>10. sum[S] \in Int /\ SumIs(f, S, sum[S])
  BY <1>3
<1> QED BY <1>1, <1>9, <1>10

Total(f, S) == FoldFunctionOnSet(+, 0, f, S)

(* Total is that sum.                                                      *)
LEMMA TotalIsSum ==
  ASSUME NEW f, NEW S, IsFiniteSet(S), \A x \in S : f[x] \in Int
  PROVE  SumIs(f, S, Total(f, S)) /\ Total(f, S) \in Int
<1>1. /\ SumIs(f, S, FoldFunctionOnSet(+, 0, f, S))
      /\ FoldFunctionOnSet(+, 0, f, S) \in Int
  BY FoldIsSum
<1> QED BY <1>1, Zenon DEF Total

(* What the accounting of a pool rests on: the total is 0 at first, and    *)
(* changes by the size of what is added to the set or taken out of it.     *)
LEMMA TotalOfNone ==
  ASSUME NEW f
  PROVE  Total(f, {}) = 0
BY FS_EmptySet, TotalIsSum, SumOfNone

(* One more member adds its value.                                         *)
LEMMA TotalWith ==
  ASSUME NEW f, NEW S, IsFiniteSet(S), \A y \in S : f[y] \in Int,
         NEW x, x \notin S, f[x] \in Int
  PROVE  Total(f, S \cup {x}) = Total(f, S) + f[x]
<1> DEFINE T == S \cup {x}
           t == Total(f, S)
           u == Total(f, T)
<1>1. SumIs(f, S, t)
  BY TotalIsSum
<1>2. IsFiniteSet(T) /\ \A y \in T : f[y] \in Int
  BY FS_AddElement
<1>3. SumIs(f, T, u)
  BY <1>2, TotalIsSum
<1>4. SumIs(f, T, t + f[x])
  BY <1>1, SumWith
<1> HIDE DEF T, t, u
<1>5. u = t + f[x]
  BY <1>2, <1>3, <1>4, SumIsUnique
<1> QED BY <1>5 DEF T, t, u

(* One member less takes its value off.                                    *)
LEMMA TotalWithout ==
  ASSUME NEW f, NEW S, IsFiniteSet(S), \A y \in S : f[y] \in Int, NEW x \in S
  PROVE  Total(f, S \ {x}) = Total(f, S) - f[x]
<1> DEFINE T == S \ {x}
           t == Total(f, S)
           u == Total(f, T)
<1>1. SumIs(f, S, t)
  BY TotalIsSum
<1>2. IsFiniteSet(T) /\ \A y \in T : f[y] \in Int
  BY FS_RemoveElement
<1>3. SumIs(f, T, u)
  BY <1>2, TotalIsSum
<1>4. SumIs(f, T, t - f[x])
  BY <1>1, SumWithout
<1> HIDE DEF T, t, u
<1>5. u = t - f[x]
  BY <1>2, <1>3, <1>4, SumIsUnique
<1> QED BY <1>5 DEF T, t, u

(* It depends on the sizes of the members of the set only.                 *)
LEMMA TotalOfSame ==
  ASSUME NEW f, NEW g, NEW S, IsFiniteSet(S), \A x \in S : f[x] \in Int /\ g[x] = f[x]
  PROVE  Total(g, S) = Total(f, S)
<1> DEFINE t == Total(f, S)
           u == Total(g, S)
<1>1. SumIs(f, S, t) /\ SumIs(g, S, u)
  BY TotalIsSum
<1>2. SumIs(g, S, t)
  BY <1>1, SumOfSame
<1> HIDE DEF t, u
<1>3. u = t
  BY <1>1, <1>2, SumIsUnique
<1> QED BY <1>3 DEF t, u

(* The same where the function itself may change elsewhere.                *)
LEMMA TotalGains ==
  ASSUME NEW f, NEW g, NEW S, IsFiniteSet(S), NEW x, x \notin S,
         \A y \in S : f[y] \in Int /\ g[y] = f[y], g[x] \in Int
  PROVE  Total(g, S \cup {x}) = Total(f, S) + g[x]
<1>1. Total(g, S) = Total(f, S)
  BY TotalOfSame
<1>2. Total(g, S \cup {x}) = Total(g, S) + g[x]
  BY TotalWith
<1> QED BY <1>1, <1>2

(* The set left is told by its elements.                                   *)
LEMMA TotalLoses ==
  ASSUME NEW f, NEW g, NEW S, IsFiniteSet(S), NEW x, x \in S, NEW T, T = S \ {x},
         \A y \in S : f[y] \in Int, \A y \in T : g[y] = f[y]
  PROVE  Total(g, T) = Total(f, S) - f[x]
<1>1. Total(f, S \ {x}) = Total(f, S) - f[x]
  BY TotalWithout
<1>2. IsFiniteSet(T) /\ (\A y \in T : f[y] \in Int)
  BY FS_RemoveElement
<1>3. Total(g, T) = Total(f, T)
  BY <1>2, TotalOfSame
<1> QED BY <1>1, <1>3

-----------------------------------------------------------------------------
(* Walking a list: the items before the walk's place are one list, those   *)
(* from there on another.                                                  *)

(* The place of the first item of the rest.                                *)
LEMMA PlaceOfFirst ==
  ASSUME NEW T, NEW v \in Seq(T), NEW r \in Seq(T), Distinct(v \o r), r # <<>>
  PROVE  /\ v \o r \in Seq(T) /\ Len(v \o r) = Len(v) + Len(r) /\ Len(r) >= 1
         /\ Len(v) \in Nat /\ Len(r) \in Nat
         /\ (v \o r)[Len(v) + 1] = r[1] /\ InList(v \o r, r[1])
         /\ ListIndex(v \o r, r[1]) = Len(v) + 1
<1> DEFINE s == v \o r
<1>1. /\ s \in Seq(T) /\ Len(s) = Len(v) + Len(r) /\ Len(r) >= 1
      /\ Len(v) \in Nat /\ Len(r) \in Nat
  OBVIOUS
<1>2. s[Len(v) + 1] = r[1] /\ Len(v) + 1 \in 1..Len(s)
  BY <1>1
<1> HIDE DEF s
<1>3. \E k \in 1..Len(s) : s[k] = r[1]
  BY <1>2
<1>4. ListIndex(s, r[1]) \in 1..Len(s) /\ s[ListIndex(s, r[1])] = r[1]
  BY <1>1, <1>3, ListIndexFound
<1>5. Distinct(s)
  BY DEF s
<1>6. ListIndex(s, r[1]) = Len(v) + 1
  BY <1>2, <1>4, <1>5 DEF Distinct
<1> QED BY <1>1, <1>2, <1>3, <1>6 DEF s, InList

(* The walk goes on to the next one.                                       *)
LEMMA FirstDone ==
  ASSUME NEW T, NEW v \in Seq(T), NEW r \in Seq(T), Distinct(v \o r), r # <<>>, NEW end
  PROVE  /\ ListNext(v \o r, r[1], end) = ListFirst(Tail(r), end)
         /\ v \o r = Append(v, r[1]) \o Tail(r)
         /\ Append(v, r[1]) \in Seq(T) /\ Tail(r) \in Seq(T)
<1> DEFINE s == v \o r
           k == Len(v) + 1
<1>1. /\ s \in Seq(T) /\ Len(s) = Len(v) + Len(r) /\ Len(r) >= 1
      /\ Len(v) \in Nat /\ Len(r) \in Nat
      /\ s[k] = r[1] /\ ListIndex(s, r[1]) = k
  BY PlaceOfFirst
<1>2. /\ Tail(r) \in Seq(T) /\ Len(Tail(r)) = Len(r) - 1
      /\ \A j \in 1..Len(r) - 1 : Tail(r)[j] = r[j + 1]
  BY <1>1
<1>3. ListNext(s, r[1], end) = ListFirst(Tail(r), end)
  <2>1. CASE Len(r) = 1
    <3>1. Tail(r) = <<>> /\ k = Len(s)
      BY <1>1, <1>2, <2>1
    <3> HIDE DEF s, k
    <3> QED BY <1>1, <3>1 DEF ListNext, ListFirst
  <2>2. CASE Len(r) # 1
    <3>1. Tail(r) # <<>> /\ Tail(r)[1] = r[2] /\ k # Len(s)
      BY SMTT(30), <1>1, <1>2, <2>2
    <3>2. s[k + 1] = r[2]
      <4> DEFINE m == Len(v)
                 n == Len(r)
      <4>4. m \in Nat /\ n \in Nat /\ n >= 1 /\ n # 1
        BY <1>1, <2>2
      <4> HIDE DEF m, n
      <4>2. m \in Nat /\ n \in Nat /\ n >= 2
        BY <4>4
      <4>3. (m + 1) + 1 \in 1..m + n /\ (m + 1) + 1 > m /\ ((m + 1) + 1) - m = 2
        BY <4>2
      <4>1. k + 1 \in 1..Len(v) + Len(r) /\ k + 1 > Len(v) /\ (k + 1) - Len(v) = 2
        BY <4>3 DEF m, n
      <4> HIDE DEF k
      <4> QED BY <1>1, <4>1
    <3> HIDE DEF s, k
    <3> QED BY <1>1, <3>1, <3>2 DEF ListNext, ListFirst
  <2> QED BY <2>1, <2>2
<1>4. /\ r[1] \in T /\ Append(v, r[1]) \in Seq(T) /\ Len(Append(v, r[1])) = Len(v) + 1
      /\ \A j \in 1..Len(v) + 1 : Append(v, r[1])[j] = IF j = Len(v) + 1 THEN r[1] ELSE v[j]
  BY <1>1
<1>5. s = Append(v, r[1]) \o Tail(r)
  <2> DEFINE a == Append(v, r[1])
             t == Tail(r)
  <2>1. /\ a \o t \in Seq(T) /\ Len(a \o t) = (Len(v) + 1) + (Len(r) - 1)
        /\ \A j \in 1..Len(a \o t) :
             (a \o t)[j] = IF j <= Len(v) + 1 THEN a[j] ELSE t[j - (Len(v) + 1)]
    <3> HIDE DEF a, t
    <3> QED BY <1>1, <1>2, <1>4 DEF a, t
  <2>2. Len(a \o t) = Len(s)
    BY <1>1, <2>1
  <2>3. ASSUME NEW j \in 1..Len(s) PROVE s[j] = (a \o t)[j]
    <3>1. s[j] = IF j <= Len(v) THEN v[j] ELSE r[j - Len(v)]
      BY <1>1
    <3>2. CASE j <= Len(v) + 1
      BY <1>1, <1>4, <2>1, <2>2, <3>1, <3>2
    <3>3. CASE j > Len(v) + 1
      <4>1. t[j - (Len(v) + 1)] = r[(j - (Len(v) + 1)) + 1]
        BY <1>1, <1>2, <3>3
      <4>2. (j - (Len(v) + 1)) + 1 = j - Len(v) /\ ~(j <= Len(v)) /\ ~(j <= Len(v) + 1)
        BY <1>1, <3>3
      <4>3. s[j] = r[j - Len(v)]
        BY <3>1, <4>2
      <4>4. (a \o t)[j] = t[j - (Len(v) + 1)]
        BY <2>1, <2>2, <4>2
      <4> QED BY <4>1, <4>2, <4>3, <4>4
    <3> QED BY <1>1, <3>2, <3>3
  <2> DEFINE c == a \o t
  <2>4. c \in Seq(T) /\ Len(c) = Len(s) /\ \A j \in 1..Len(s) : s[j] = c[j]
    BY <2>1, <2>2, <2>3
  <2> HIDE DEF a, t, s, c
  <2>5. s = c
    BY <1>1, <2>4
  <2> QED BY <2>5 DEF a, t, c
<1> QED BY <1>2, <1>3, <1>4, <1>5

(* list_del of that item.                                                  *)
LEMMA FirstTakenOut ==
  ASSUME NEW T, NEW v \in Seq(T), NEW r \in Seq(T), Distinct(v \o r), r # <<>>
  PROVE  ListRemove(v \o r, r[1]) = v \o Tail(r)
<1> DEFINE s == v \o r
           k == Len(v) + 1
<1>1. /\ s \in Seq(T) /\ Len(s) = Len(v) + Len(r) /\ Len(r) >= 1
      /\ Len(v) \in Nat /\ Len(r) \in Nat
      /\ s[k] = r[1] /\ ListIndex(s, r[1]) = k
  BY PlaceOfFirst
<1>2. /\ Tail(r) \in Seq(T) /\ Len(Tail(r)) = Len(r) - 1
      /\ \A j \in 1..Len(r) - 1 : Tail(r)[j] = r[j + 1]
  BY <1>1
<1>3. ListRemove(s, r[1]) = v \o Tail(r)
  <2> DEFINE t == Tail(r)
  <2>1. k \in 1..Len(s)
    BY <1>1
  <2> HIDE DEF s, k
  <2>2. /\ RemoveAt(s, k) \in Seq(T)
        /\ Len(RemoveAt(s, k)) = Len(s) - 1
        /\ \A j \in 1..Len(s) - 1 :
             RemoveAt(s, k)[j] = IF j < k THEN s[j] ELSE s[j + 1]
    BY <1>1, <2>1, RemoveAtItems
  <2>3. /\ v \o t \in Seq(T) /\ Len(v \o t) = Len(v) + (Len(r) - 1)
        /\ \A j \in 1..Len(v \o t) : (v \o t)[j] = IF j <= Len(v) THEN v[j] ELSE t[j - Len(v)]
    <3> HIDE DEF t
    <3> QED BY <1>1, <1>2 DEF t
  <2>4. Len(v \o t) = Len(RemoveAt(s, k))
    BY <1>1, <2>2, <2>3
  <2>5. ASSUME NEW j \in 1..Len(s) - 1 PROVE RemoveAt(s, k)[j] = (v \o t)[j]
    <3>1. \A i \in 1..Len(s) : s[i] = IF i <= Len(v) THEN v[i] ELSE r[i - Len(v)]
      BY <1>1 DEF s
    <3>2. CASE j <= Len(v)
      BY <1>1, <2>2, <2>3, <2>4, <3>1, <3>2 DEF k
    <3>3. CASE j > Len(v)
      <4>1. t[j - Len(v)] = r[(j - Len(v)) + 1]
        BY <1>1, <1>2, <3>3
      <4>2. s[j + 1] = r[(j + 1) - Len(v)]
        BY <1>1, <3>1, <3>3
      <4> HIDE DEF t
      <4> QED BY SMTT(30), <1>1, <2>2, <2>3, <2>4, <3>3, <4>1, <4>2 DEF k
    <3> QED BY <1>1, <3>2, <3>3
  <2> DEFINE w == RemoveAt(s, k)
             c == v \o t
  <2>6. w \in Seq(T) /\ c \in Seq(T) /\ Len(c) = Len(w) /\ \A j \in 1..Len(w) : w[j] = c[j]
    BY <2>2, <2>3, <2>4, <2>5
  <2> HIDE DEF w, c
  <2>7. w = c
    BY <2>6
  <2> QED BY <1>1, <2>7 DEF ListRemove, t, w, c
<1> QED BY <1>3

(* The same from the end of a list: the walk goes on to the one before,    *)
(* the last of what is still in front.                                     *)
Passed(s, front, x, back, end) ==
  s = front \o (<<x>> \o back) /\ ListPrev(s, x, end) = ListLast(front, end)

(* The last item that a walk has passed is not among those to come.        *)
LEMMA LastPassed ==
  ASSUME NEW T, NEW u \in Seq(T), NEW w \in Seq(T), Distinct(u \o w), u # <<>>,
         NEW x, x = u[Len(u)], NEW end
  PROVE  /\ x \in T /\ InList(u \o w, x) /\ ~InList(w, x)
         /\ \E f \in Seq(T) : Passed(u \o w, f, x, w, end)
<1> DEFINE s == u \o w
           f == SubSeq(u, 1, Len(u) - 1)
           m == Len(u)
           n == Len(w)
           t == <<x>> \o w
<1>1. m \in Nat /\ n \in Nat /\ m # 0 /\ s \in Seq(T) /\ Len(s) = m + n
      /\ \A j \in 1..Len(s) : s[j] = IF j <= m THEN u[j] ELSE w[j - m]
  OBVIOUS
<1>2. m >= 1
  <2> HIDE DEF m
  <2> QED BY <1>1
<1>3. x \in T /\ s[m] = x /\ m \in 1..Len(s)
  BY <1>1, <1>2
<1>4. /\ f \in Seq(T) /\ Len(f) = m - 1 /\ \A j \in 1..m - 1 : f[j] = u[j]
  <2>1. m - 1 \in Int /\ \A i \in 1..m - 1 : u[i] \in T
    BY <1>1
  <2>2. /\ f \in Seq(T) /\ Len(f) = IF 1 <= m - 1 THEN ((m - 1) - 1) + 1 ELSE 0
        /\ \A i \in 1..((m - 1) - 1) + 1 : f[i] = u[(1 + i) - 1]
    BY <2>1, SubSeqProperties
  <2> HIDE DEF f, m
  <2>3. ((m - 1) - 1) + 1 = m - 1 /\ \A i \in 1..m - 1 : (1 + i) - 1 = i
    BY <1>1
  <2> QED BY <1>1, <1>2, <2>2, <2>3
<1>5. /\ t \in Seq(T) /\ Len(t) = 1 + n
      /\ \A j \in 1..1 + n : t[j] = IF j = 1 THEN x ELSE w[j - 1]
  BY <1>1, <1>3
<1> HIDE DEF s, f, t
<1>6. /\ f \o t \in Seq(T) /\ Len(f \o t) = (m - 1) + (1 + n)
      /\ \A j \in 1..Len(f \o t) : (f \o t)[j] = IF j <= m - 1 THEN f[j] ELSE t[j - (m - 1)]
  <2>1. /\ f \o t \in Seq(T) /\ Len(f \o t) = Len(f) + Len(t)
        /\ \A j \in 1..Len(f) + Len(t) :
             (f \o t)[j] = IF j <= Len(f) THEN f[j] ELSE t[j - Len(f)]
    BY <1>4, <1>5, ConcatProperties
  <2>2. Len(f) = m - 1 /\ Len(t) = 1 + n
    BY <1>4, <1>5
  <2> HIDE DEF m, n
  <2> QED BY <2>1, <2>2
<1>7. s = f \o t
  <2> DEFINE c == f \o t
  <2>1. c \in Seq(T) /\ Len(c) = Len(s)
    BY <1>1, <1>2, <1>6
  <2>2. ASSUME NEW j \in 1..Len(s) PROVE s[j] = c[j]
    <3>1. c[j] = IF j <= m - 1 THEN f[j] ELSE t[j - (m - 1)]
      BY <1>6, <2>1
    <3>2. CASE j <= m - 1
      <4>1. j \in 1..m - 1 /\ j <= m
        BY <1>1, <1>2, <3>2
      <4> QED BY SMTT(30), <1>1, <1>4, <3>1, <4>1
    <3>3. CASE j = m
      <4>1. ~(j <= m - 1) /\ j - (m - 1) = 1 /\ 1 \in 1..1 + n
        BY <1>1, <1>2, <3>3
      <4> QED BY <1>3, <1>5, <3>1, <3>3, <4>1
    <3>4. CASE j > m
      <4>1. ~(j <= m - 1) /\ j - (m - 1) \in 1..1 + n /\ j - (m - 1) # 1 /\ ~(j <= m)
            /\ (j - (m - 1)) - 1 = j - m
        BY <1>1, <1>2, <3>4
      <4>2. s[j] = w[j - m] /\ c[j] = t[j - (m - 1)]
        BY <1>1, <3>1, <4>1
      <4>3. t[j - (m - 1)] = w[(j - (m - 1)) - 1]
        BY <1>5, <4>1
      <4> QED BY <4>1, <4>2, <4>3
    <3>5. j <= m - 1 \/ j = m \/ j > m
      <4>1. j \in Int /\ m \in Int
        BY <1>1
      <4> HIDE DEF m
      <4> QED BY <4>1
    <3> QED BY <3>2, <3>3, <3>4, <3>5
  <2> HIDE DEF c
  <2>3. s = c
    BY <1>1, <2>1, <2>2
  <2> QED BY <2>3 DEF c
<1>8. Distinct(s)
  BY DEF s
<1>9. ListIndex(s, x) = m
  <2>1. \E k \in 1..Len(s) : s[k] = x
    BY <1>3
  <2>2. ListIndex(s, x) \in 1..Len(s) /\ s[ListIndex(s, x)] = x
    BY <1>1, <2>1, ListIndexFound
  <2> QED BY <1>3, <1>8, <2>2 DEF Distinct
<1>10. ListPrev(s, x, end) = ListLast(f, end)
  <2>1. CASE m = 1
    <3>1. f = <<>>
      BY <1>4, <2>1
    <3> HIDE DEF m
    <3> QED BY <1>9, <2>1, <3>1 DEF ListPrev, ListLast
  <2>2. CASE m # 1
    <3>1. m - 1 \in 1..m - 1 /\ m - 1 \in 1..Len(s) /\ m - 1 <= m
      <4> HIDE DEF m, n
      <4> QED BY <1>1, <1>2, <2>2
    <3>2. f # <<>> /\ f[Len(f)] = u[m - 1] /\ s[m - 1] = u[m - 1]
      BY <1>1, <1>4, <3>1
    <3> HIDE DEF m
    <3> QED BY <1>9, <2>2, <3>2, <1>4 DEF ListPrev, ListLast
  <2> QED BY <2>1, <2>2
<1>11. ~InList(w, x)
  <2> SUFFICES ASSUME NEW j \in 1..Len(w), w[j] = x PROVE FALSE
    BY DEF InList
  <2>1. /\ m + j \in 1..Len(s) /\ m + j # m /\ ~(m + j <= m) /\ (m + j) - m = j
    BY <1>1, <1>2
  <2>2. s[m + j] = x
    BY <1>1, <2>1
  <2> QED BY <1>3, <1>8, <2>1, <2>2 DEF Distinct
<1>12. Passed(s, f, x, w, end)
  BY <1>7, <1>10 DEF Passed, t
<1> QED BY <1>3, <1>4, <1>11, <1>12 DEF InList, s

(* What is in a list that is put together of two.                          *)
LEMMA JoinedItems ==
  ASSUME NEW T, NEW v \in Seq(T), NEW r \in Seq(T)
  PROVE  /\ \A c : InList(v \o r, c) <=> InList(v, c) \/ InList(r, c)
         /\ Distinct(v \o r) => /\ Distinct(v) /\ Distinct(r)
                                /\ \A c : ~(InList(v, c) /\ InList(r, c))
<1> DEFINE s == v \o r
           m == Len(v)
           n == Len(r)
<1>1. /\ m \in Nat /\ n \in Nat /\ s \in Seq(T) /\ Len(s) = m + n
      /\ \A j \in 1..Len(s) : s[j] = IF j <= m THEN v[j] ELSE r[j - m]
  OBVIOUS
<1>2. \A j \in 1..m : j \in 1..Len(s) /\ s[j] = v[j]
  BY <1>1
<1>3. \A j \in 1..n : m + j \in 1..Len(s) /\ s[m + j] = r[j]
  <2> TAKE j \in 1..n
  <2>1. m + j \in 1..Len(s) /\ ~(m + j <= m) /\ (m + j) - m = j
    BY <1>1
  <2> QED BY <1>1, <2>1
<1>4. \A j \in 1..Len(s) : \/ j \in 1..m /\ s[j] = v[j]
                           \/ j - m \in 1..n /\ s[j] = r[j - m]
  BY <1>1
<1> HIDE DEF s, m, n
<1>5. \A c : InList(s, c) <=> InList(v, c) \/ InList(r, c)
  BY <1>2, <1>3, <1>4 DEF InList, m, n
<1>6. ASSUME Distinct(s)
      PROVE  Distinct(v) /\ Distinct(r) /\ \A c : ~(InList(v, c) /\ InList(r, c))
  <2>1. Distinct(v)
    BY <1>2, <1>6 DEF Distinct, m
  <2>2. ASSUME NEW j \in 1..n, NEW k \in 1..n, j # k PROVE r[j] # r[k]
    <3>1. m + j # m + k
      BY <1>1, <2>2
    <3> QED BY <1>3, <1>6, <2>2, <3>1 DEF Distinct
  <2>3. ASSUME NEW j \in 1..m, NEW k \in 1..n PROVE v[j] # r[k]
    <3>1. j # m + k
      BY <1>1, <2>3
    <3> QED BY <1>2, <1>3, <1>6, <2>3, <3>1 DEF Distinct
  <2>4. Distinct(r)
    BY <2>2 DEF Distinct, n
  <2>5. \A c : ~(InList(v, c) /\ InList(r, c))
    BY <2>3 DEF InList, m, n
  <2> QED BY <2>1, <2>4, <2>5
<1> QED BY <1>5, <1>6 DEF s

(* And in what is left of one behind its first item.                       *)
LEMMA TailItems ==
  ASSUME NEW T, NEW r \in Seq(T), Distinct(r), r # <<>>
  PROVE  /\ r[1] \in T /\ InList(r, r[1])
         /\ \A c : InList(Tail(r), c) <=> InList(r, c) /\ c # r[1]
<1> DEFINE t == Tail(r)
           n == Len(r)
<1>1. n \in Nat /\ n # 0 /\ t \in Seq(T) /\ Len(t) = n - 1
      /\ \A j \in 1..n - 1 : t[j] = r[j + 1]
  OBVIOUS
<1>2. n >= 1
  <2> HIDE DEF n
  <2> QED BY <1>1
<1>3. r[1] \in T /\ 1 \in 1..n
  BY <1>1, <1>2
<1> HIDE DEF t, n
<1>4. \A j \in 1..n - 1 : j + 1 \in 1..n /\ j + 1 # 1 /\ t[j] = r[j + 1]
  BY <1>1, <1>2
<1>5. \A j \in 1..n : j # 1 => j - 1 \in 1..n - 1 /\ r[j] = t[j - 1]
  <2> SUFFICES ASSUME NEW j \in 1..n, j # 1 PROVE j - 1 \in 1..n - 1 /\ r[j] = t[j - 1]
    OBVIOUS
  <2>1. j - 1 \in 1..n - 1 /\ (j - 1) + 1 = j
    BY <1>1, <1>2
  <2> QED BY <1>1, <2>1
<1>6. ASSUME NEW c PROVE InList(t, c) <=> InList(r, c) /\ c # r[1]
  <2>1. ASSUME NEW j \in 1..n - 1, t[j] = c
        PROVE  InList(r, c) /\ c # r[1]
    BY <1>3, <1>4, <2>1 DEF Distinct, InList, n
  <2>2. ASSUME NEW j \in 1..n, r[j] = c, c # r[1]
        PROVE  InList(t, c)
    BY <1>1, <1>5, <2>2 DEF InList
  <2> QED BY <1>1, <2>1, <2>2 DEF InList, n
<1>7. InList(r, r[1])
  BY <1>3 DEF InList, n
<1> QED BY <1>3, <1>6, <1>7 DEF t

(* The next item, if there is one, is another one of the list.             *)
LEMMA NextIsOther ==
  ASSUME NEW T, NEW s \in Seq(T), Distinct(s), NEW x, InList(s, x), NEW end
  PROVE  ListNext(s, x, end) = end \/ (/\ InList(s, ListNext(s, x, end))
                                       /\ ListNext(s, x, end) # x)
<1> DEFINE i == ListIndex(s, x)
<1>1. i \in 1..Len(s) /\ s[i] = x
  BY ListIndexFound DEF InList
<1>2. CASE i = Len(s)
  BY <1>2 DEF ListNext
<1>3. CASE i # Len(s)
  <2>1. i + 1 \in 1..Len(s) /\ i + 1 # i
    BY <1>1, <1>3
  <2>2. ListNext(s, x, end) = s[i + 1]
    BY <1>3 DEF ListNext
  <2> HIDE DEF i
  <2> QED BY <1>1, <2>1, <2>2 DEF InList, Distinct
<1> QED BY <1>2, <1>3

(* Where a walk starts.                                                    *)
LEMMA FirstIsItem ==
  ASSUME NEW T, NEW s \in Seq(T), NEW end
  PROVE  /\ ListFirst(s, end) = end \/ InList(s, ListFirst(s, end))
         /\ end \notin T => (ListFirst(s, end) = end <=> s = <<>>)
         /\ end \notin T => (ListLast(s, end) = end <=> s = <<>>)
         /\ s # <<>> => ListFirst(s, end) = s[1] /\ ListLast(s, end) = s[Len(s)]
<1>1. s # <<>> => Len(s) \in Nat /\ Len(s) # 0
  OBVIOUS
<1>2. s # <<>> => 1 \in 1..Len(s) /\ Len(s) \in 1..Len(s) /\ s[1] \in T /\ s[Len(s)] \in T
  BY <1>1
<1> QED BY <1>2 DEF ListFirst, ListLast, InList
=============================================================================
