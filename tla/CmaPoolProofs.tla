--------------------------- MODULE CmaPoolProofs ---------------------------
(***************************************************************************)
(* The layout of the pool of cma-pool-log.py; what page-in takes out of    *)
(* it, in which order, and when it gives up; what compaction and the       *)
(* driver's logs add; and that the pool keeps what BufferPool promises;    *)
(* for any ids, sizes and pool size, with compaction or without, and any   *)
(* log.                                                                    *)
(***************************************************************************)
EXTENDS CmaPool, ListsProofs

(* The buffer that page-in works for is not in the pool until it has been  *)
(* inserted.                                                               *)
SearchState ==
  /\ pc \in {"first", "purge", "retry"} => ~PagedIn(cur)
  /\ pc = "touch" => PagedIn(cur)

IInv == TypeOK /\ LayoutOK /\ ListsAgree /\ SearchState /\ EmptyAtBottom

-----------------------------------------------------------------------------
(* How a step that leaves the lists alone, takes a buffer out of a list or *)
(* puts one in preserves what holds of the lists.  Kept(c) is what such a  *)
(* step has to leave of a buffer.                                          *)

(* Everything but colours is as good after as before.                      *)
Kept(c) == Off(c)' = Off(c) /\ buffers'[c].size = buffers[c].size

(* Lists and layout do not care about anything but places and sizes.       *)
LEMMA ListsFrame ==
  ASSUME LayoutOK, ListsAgree, UNCHANGED <<offset_list, mru_list>>,
         \A b \in BufId : InPool(b)' <=> InPool(b),
         \A b \in BufId : InPool(b) => Kept(b)
  PROVE  LayoutOK' /\ ListsAgree'
<1>1. \A b, c \in BufId :
        Before(offset_list, b, c) => InList(offset_list, b) /\ InList(offset_list, c)
  BY Zenon DEF Before, InList
<1>2. \A b \in BufId : InPool(b) => End(b)' = End(b) /\ Off(b)' = Off(b)
  BY DEF Kept, End, Off
<1>3. ListsAgree'
  BY DEF ListsAgree, InList
<1>4. Distinct(offset_list)' /\ \A b \in BufId : InPool(b)' <=> InList(offset_list, b)'
  BY DEF LayoutOK, InList
<1>5. \A b \in BufId : InPool(b)' => End(b)' <= PoolSize
  BY <1>2 DEF LayoutOK
<1>6. ASSUME NEW b \in BufId, NEW c \in BufId, Before(offset_list, b, c)'
      PROVE  End(b)' <= Off(c)'
  <2>1. Before(offset_list, b, c)
    BY <1>6 DEF Before
  <2> QED BY <2>1, <1>1, <1>2 DEF LayoutOK
<1> QED BY <1>3, <1>4, <1>5, <1>6 DEF LayoutOK

(* A buffer leaves both lists, and nothing else moves.                     *)
LEMMA ListsRemove ==
  ASSUME TypeOK, LayoutOK, ListsAgree, NEW b \in BufId, InPool(b),
         offset_list' = ListRemove(offset_list, b),
         mru_list' = ListRemove(mru_list, b),
         \A c \in BufId : InPool(c)' <=> InPool(c) /\ c # b,
         \A c \in BufId : InPool(c)' => Kept(c)
  PROVE  /\ LayoutOK' /\ ListsAgree'
         /\ offset_list' \in Seq(BufId) /\ mru_list' \in Seq(BufId)
<1>1. /\ offset_list' \in Seq(BufId)
      /\ Distinct(offset_list')
      /\ \A c : InList(offset_list', c) <=> InList(offset_list, c) /\ c # b
      /\ \A c, d : Before(offset_list', c, d) => Before(offset_list, c, d)
  BY ListRemoveOrder, Zenon DEF TypeOK, LayoutOK
<1>2. /\ mru_list' \in Seq(BufId)
      /\ Distinct(mru_list')
      /\ \A c : InList(mru_list', c) <=> InList(mru_list, c) /\ c # b
  BY ListRemoveOrder, Zenon DEF TypeOK, LayoutOK, ListsAgree
<1>3. \A c \in BufId : InPool(c)' => End(c)' = End(c) /\ Off(c)' = Off(c)
  BY DEF Kept, End, Off
<1>4. Distinct(offset_list)' /\ Distinct(mru_list)'
  BY <1>1, <1>2 DEF Distinct
<1>5. \A c \in BufId : InList(offset_list, c)' <=> InList(offset_list, c) /\ c # b
  BY <1>1 DEF InList
<1>6. \A c \in BufId : InList(mru_list, c)' <=> InList(mru_list, c) /\ c # b
  BY <1>2 DEF InList
<1>7. \A c \in BufId : InPool(c)' <=> InList(offset_list, c)'
  BY <1>5 DEF LayoutOK
<1>8. \A c \in BufId : InPool(c)' => End(c)' <= PoolSize
  BY <1>3 DEF LayoutOK
<1>9. ASSUME NEW c \in BufId, NEW d \in BufId, Before(offset_list, c, d)'
      PROVE  End(c)' <= Off(d)'
  <2>1. Before(offset_list, c, d)
    BY <1>1, <1>9 DEF Before
  <2>2. InPool(c)' /\ InPool(d)'
    BY <1>7, <1>9, Zenon DEF Before, InList
  <2> QED BY <2>1, <2>2, <1>3 DEF LayoutOK
<1> QED BY <1>1, <1>2, <1>4, <1>5, <1>6, <1>7, <1>8, <1>9 DEF LayoutOK, ListsAgree

(* A buffer in the pool has numbers for its size and its offset.           *)
LEMMA BufferNumbers ==
  ASSUME TypeOK
  PROVE  /\ \A b \in Live : b \in BufId /\ buffers[b].size \in Nat
         /\ \A b \in BufId : InPool(b) => Off(b) \in Nat /\ End(b) \in Nat
                                          /\ End(b) = Off(b) + buffers[b].size
<1>1. \A b \in Live : /\ b \in BufId /\ buffers[b].size \in Nat
                      /\ buffers[b].offset # None => buffers[b].offset \in Nat
  BY ConstantsOK DEF TypeOK, Buffer
<1> QED BY <1>1 DEF InPool, PagedIn, Off, End

(* A gap that first-fit accepts lies between the buffers in front of it    *)
(* and those behind it, and has room for the buffer.                       *)
LEMMA GapHasRoom ==
  ASSUME TypeOK, LayoutOK, NEW b \in Live, NEW k \in FittingGaps(b)
  PROVE  /\ k \in 1..Len(offset_list) + 1
         /\ GapStart(k) \in Nat
         /\ GapStart(k) + buffers[b].size <= PoolSize
         /\ \A j \in 1..Len(offset_list) :
              IF j < k THEN End(offset_list[j]) <= GapStart(k)
                       ELSE GapStart(k) + buffers[b].size <= Off(offset_list[j])
<1> DEFINE l == offset_list
           n == Len(offset_list)
           x == buffers[b].size
<1>1. n \in Nat /\ x \in Nat /\ k \in 1..n + 1 /\ PoolSize \in Nat
  BY BufferNumbers, ConstantsOK DEF TypeOK, FittingGaps
<1>2. GapEnd(k) - GapStart(k) >= x
  BY DEF FittingGaps
<1>3. \A j \in 1..n : l[j] \in BufId /\ InPool(l[j])
  BY DEF TypeOK, LayoutOK, InList
<1>4. \A j \in 1..n : /\ Off(l[j]) \in Nat /\ End(l[j]) \in Nat
                      /\ Off(l[j]) <= End(l[j]) /\ End(l[j]) <= PoolSize
  BY <1>3, BufferNumbers DEF LayoutOK, InPool
<1>5. \A j, m \in 1..n : j < m => End(l[j]) <= Off(l[m])
  BY <1>3 DEF LayoutOK, Before
<1>6. GapStart(k) = IF k = 1 THEN 0 ELSE End(l[k - 1])
  BY DEF GapStart
<1>7. GapEnd(k) = IF k = n + 1 THEN PoolSize ELSE Off(l[k])
  BY DEF GapEnd
<1> HIDE DEF l, n, x
<1>8. GapStart(k) \in Nat
  BY <1>1, <1>4, <1>6
<1>9. GapEnd(k) \in Nat /\ GapEnd(k) <= PoolSize
  <2>1. CASE k = n + 1
    BY <2>1, <1>1, <1>7
  <2>2. CASE k # n + 1
    <3>1. k \in 1..n
      BY <2>2, <1>1
    <3>2. Off(l[k]) \in Nat /\ End(l[k]) \in Nat
          /\ Off(l[k]) <= End(l[k]) /\ End(l[k]) <= PoolSize
      BY <3>1, <1>4
    <3> QED BY <2>2, <3>2, <1>1, <1>7
  <2> QED BY <2>1, <2>2
<1>10. GapStart(k) + x <= GapEnd(k)
  BY <1>1, <1>2, <1>8, <1>9
<1>11. ASSUME NEW j \in 1..n
       PROVE  IF j < k THEN End(l[j]) <= GapStart(k) ELSE GapStart(k) + x <= Off(l[j])
  <2>1. CASE j < k
    <3>1. k - 1 \in 1..n /\ (j = k - 1 \/ j < k - 1) /\ k # 1
      BY <2>1, <1>1
    <3>2. GapStart(k) = End(l[k - 1])
      BY <3>1, <1>6
    <3>3. j < k - 1 => End(l[j]) <= Off(l[k - 1])
      BY <3>1, <1>5
    <3>4. /\ Off(l[k - 1]) \in Nat /\ End(l[k - 1]) \in Nat /\ End(l[j]) \in Nat
          /\ Off(l[k - 1]) <= End(l[k - 1])
      BY <3>1, <1>4
    <3> QED BY <2>1, <3>1, <3>2, <3>3, <3>4
  <2>2. CASE ~(j < k)
    <3>1. k \in 1..n /\ k # n + 1 /\ (j = k \/ k < j)
      BY <2>2, <1>1
    <3>2. GapEnd(k) = Off(l[k])
      BY <3>1, <1>7
    <3>3. k < j => End(l[k]) <= Off(l[j])
      BY <3>1, <1>5
    <3>4. /\ Off(l[k]) \in Nat /\ End(l[k]) \in Nat /\ Off(l[j]) \in Nat
          /\ Off(l[k]) <= End(l[k])
      BY <3>1, <1>4
    <3> QED BY <2>2, <3>1, <3>2, <3>3, <3>4, <1>1, <1>8, <1>10
  <2> QED BY <2>1, <2>2
<1>12. GapStart(k) + x <= PoolSize
  BY <1>1, <1>8, <1>9, <1>10
<1> QED BY <1>1, <1>8, <1>11, <1>12 DEF l, n, x

(* A buffer goes into a gap that first-fit has found for it.               *)
LEMMA ListsInsert ==
  ASSUME TypeOK, LayoutOK, ListsAgree,
         NEW b \in Live, ~PagedIn(b), NEW k \in FittingGaps(b), InsertBufferAt(k, b)
  PROVE  /\ LayoutOK' /\ ListsAgree'
         /\ offset_list' \in Seq(BufId) /\ mru_list' \in Seq(BufId)
<1>1. b \in BufId /\ ~InPool(b) /\ b \in DOMAIN buffers
  BY DEF TypeOK, InPool, Live
<1>2. DOMAIN buffers' = DOMAIN buffers
  BY DEF InsertBufferAt
<1>3. /\ k \in 1..Len(offset_list) + 1
      /\ GapStart(k) \in Nat
      /\ GapStart(k) + buffers[b].size <= PoolSize
      /\ \A j \in 1..Len(offset_list) :
           IF j < k THEN End(offset_list[j]) <= GapStart(k)
                    ELSE GapStart(k) + buffers[b].size <= Off(offset_list[j])
  BY GapHasRoom
<1>4. buffers[b] \in Buffer
  BY DEF TypeOK
<1>5. /\ Off(b)' = GapStart(k)
      /\ End(b)' = GapStart(k) + buffers[b].size
  BY <1>1, <1>4 DEF InsertBufferAt, Off, End, Buffer
<1>6. \A c \in BufId : c # b /\ c \in Live =>
        buffers'[c] = buffers[c] /\ End(c)' = End(c) /\ Off(c)' = Off(c)
  BY DEF InsertBufferAt, Off, End
<1>7. InPool(b)'
  BY <1>1, <1>2, <1>3, <1>5, ConstantsOK DEF InPool, PagedIn, Off, Live
<1>8. \A c \in BufId : c # b => (InPool(c)' <=> InPool(c))
  BY <1>2, <1>6 DEF InPool, PagedIn, Live
<1>9. /\ offset_list' \in Seq(BufId)
      /\ Distinct(offset_list')
      /\ \A c : InList(offset_list', c) <=> InList(offset_list, c) \/ c = b
      /\ \A c, d : Before(offset_list', c, d) =>
           \/ Before(offset_list, c, d)
           \/ c = b /\ \E j \in 1..Len(offset_list) : k <= j /\ offset_list[j] = d
           \/ d = b /\ \E j \in 1..Len(offset_list) : j < k /\ offset_list[j] = c
  <2>1. offset_list \in Seq(BufId) /\ Distinct(offset_list) /\ ~InList(offset_list, b)
    BY <1>1 DEF TypeOK, LayoutOK
  <2>2. offset_list' = InsertAt(offset_list, k, b)
    BY DEF InsertBufferAt
  <2>3. k \in 1..Len(offset_list) + 1 /\ b \in BufId
    BY <1>1, <1>3
  <2> QED BY <2>1, <2>2, <2>3, InsertAtOrder
<1>10. /\ mru_list' \in Seq(BufId)
       /\ Distinct(mru_list')
       /\ \A c : InList(mru_list', c) <=> InList(mru_list, c) \/ c = b
  <2>1. mru_list \in Seq(BufId) /\ Distinct(mru_list) /\ ~InList(mru_list, b)
    BY <1>1 DEF TypeOK, LayoutOK, ListsAgree
  <2>2. mru_list' = ListPrepend(mru_list, b)
    BY DEF InsertBufferAt
  <2> QED BY <1>1, <2>1, <2>2, ListPrependOrder, Zenon
<1>11. Distinct(offset_list)' /\ Distinct(mru_list)'
  BY <1>9, <1>10 DEF Distinct
<1>12. \A c \in BufId : InList(offset_list, c)' <=> InList(offset_list, c) \/ c = b
  BY <1>9 DEF InList
<1>13. \A c \in BufId : InList(mru_list, c)' <=> InList(mru_list, c) \/ c = b
  BY <1>10 DEF InList
<1>14. \A c \in BufId : InPool(c)' <=> InList(offset_list, c)'
  BY <1>7, <1>8, <1>12 DEF LayoutOK
<1>15. \A c \in BufId : InPool(c)' => End(c)' <= PoolSize
  BY <1>3, <1>5, <1>6, <1>8 DEF LayoutOK, InPool
<1>16. ASSUME NEW c \in BufId, NEW d \in BufId, Before(offset_list, c, d)'
       PROVE  End(c)' <= Off(d)'
  <2>1. Before(offset_list', c, d)
    BY <1>16 DEF Before
  <2>2. CASE Before(offset_list, c, d)
    <3>1. InPool(c) /\ InPool(d) /\ c # b /\ d # b
      BY <1>1, <2>2, Zenon DEF LayoutOK, Before, InList
    <3> QED BY <2>2, <3>1, <1>6 DEF LayoutOK, InPool
  <2>3. CASE c = b /\ \E j \in 1..Len(offset_list) : k <= j /\ offset_list[j] = d
    <3>1. PICK j \in 1..Len(offset_list) : k <= j /\ offset_list[j] = d
      BY <2>3
    <3>2. ~(j < k)
      BY <3>1, <1>3
    <3>3. InPool(d) /\ d # b
      BY <1>1, <3>1, Zenon DEF LayoutOK, InList
    <3> QED BY <2>3, <3>1, <3>2, <3>3, <1>3, <1>5, <1>6 DEF InPool
  <2>4. CASE d = b /\ \E j \in 1..Len(offset_list) : j < k /\ offset_list[j] = c
    <3>1. PICK j \in 1..Len(offset_list) : j < k /\ offset_list[j] = c
      BY <2>4
    <3>2. InPool(c) /\ c # b
      BY <1>1, <3>1, Zenon DEF LayoutOK, InList
    <3> QED BY <2>4, <3>1, <3>2, <1>3, <1>5, <1>6 DEF InPool
  <2> QED BY <2>1, <2>2, <2>3, <2>4, <1>9, Zenon
<1> QED BY <1>9, <1>10, <1>11, <1>12, <1>13, <1>14, <1>15, <1>16
        DEF LayoutOK, ListsAgree

(* When compaction moves a buffer, its loop has passed every buffer below: *)
(* the place it finds is above the end of each of them.                    *)
LEMMA LowerEndIsAbove ==
  ASSUME TypeOK, LayoutOK, EmptyAtBottom, NEW b \in BufId, InPool(b),
         LowerEnd(b) < Off(b)
  PROVE  /\ LowerEnd(b) \in Nat
         /\ \A c \in BufId : Before(offset_list, c, b) => End(c) <= LowerEnd(b)
<1> DEFINE l == offset_list
           n == Len(offset_list)
           S == {k \in 1..n : \A j \in 1..k : Off(l[j]) < Off(b)}
<1>1. n \in Nat
  BY DEF TypeOK
<1>2. \A j \in 1..n : l[j] \in BufId /\ InPool(l[j])
  BY DEF TypeOK, LayoutOK, InList
<1>3. \A j \in 1..n : /\ Off(l[j]) \in Nat /\ End(l[j]) \in Nat
                      /\ buffers[l[j]].size \in Nat
                      /\ End(l[j]) = Off(l[j]) + buffers[l[j]].size
                      /\ buffers[l[j]].size = 0 => Off(l[j]) = 0
  BY <1>2, BufferNumbers DEF InPool, EmptyAtBottom
<1>4. \A j, m \in 1..n : j < m => End(l[j]) <= Off(l[m])
  BY <1>2 DEF LayoutOK, Before
<1>5. PICK m \in 1..n : l[m] = b
  BY DEF LayoutOK, InList
<1>6. \A j \in 1..n : l[j] = b => j = m
  BY <1>5 DEF LayoutOK, Distinct
<1>7. LowerEnd(b) = IF S = {} THEN 0 ELSE End(l[Max(S)])
  BY DEF LowerEnd
<1>8. Off(b) \in Nat
  BY <1>3, <1>5
<1>9. Off(b) # 0
  <2> SUFFICES ASSUME Off(b) = 0 PROVE FALSE
    OBVIOUS
  <2>1. ASSUME NEW k \in S PROVE FALSE
    <3>1. k \in 1..k /\ Off(l[k]) < 0 /\ Off(l[k]) \in Nat
      BY <1>1, <1>3
    <3> QED BY <3>1
  <2>2. S = {}
    BY <2>1
  <2> QED BY <2>2, <1>7
<1>10. \A j \in 1..n : j < m => Off(l[j]) < Off(b)
  <2> TAKE j \in 1..n
  <2> HAVE j < m
  <2>1. End(l[j]) <= Off(b)
    BY <1>4, <1>5
  <2>2. /\ Off(l[j]) \in Nat /\ End(l[j]) \in Nat /\ buffers[l[j]].size \in Nat
        /\ End(l[j]) = Off(l[j]) + buffers[l[j]].size
        /\ buffers[l[j]].size = 0 => Off(l[j]) = 0
    BY <1>3
  <2> HIDE DEF l
  <2> QED BY <2>1, <2>2, <1>8, <1>9
<1>11. S = 1..m - 1
  <2>1. ASSUME NEW k \in S PROVE k \in 1..m - 1
    <3>1. ~(m \in 1..k)
      BY <1>5, <1>8
    <3> QED BY <3>1, <1>1
  <2>2. ASSUME NEW k \in 1..m - 1 PROVE k \in S
    BY <1>1, <1>10
  <2> QED BY <2>1, <2>2
<1> HIDE DEF l, n, S
<1>12. CASE m = 1
  <2>1. LowerEnd(b) = 0
    BY <1>7, <1>11, <1>12
  <2>2. \A c \in BufId : ~Before(offset_list, c, b)
    BY <1>6, <1>12 DEF Before, l, n
  <2> QED BY <2>1, <2>2
<1>13. CASE m # 1
  <2>1. m - 1 \in S /\ \A k \in S : k <= m - 1
    BY <1>1, <1>11, <1>13
  <2>2. S # {} /\ \A k \in S : (\A j \in S : k >= j) => k = m - 1
    <3>1. S # {}
      BY <2>1
    <3>2. ASSUME NEW k \in S, \A j \in S : k >= j PROVE k = m - 1
      <4>1. k >= m - 1 /\ k <= m - 1
        BY <2>1, <3>2
      <4>2. k \in Int /\ m - 1 \in Int
        BY <1>11, <1>1
      <4> QED BY <4>1, <4>2
    <3> QED BY <3>1, <3>2
  <2>3. Max(S) = m - 1
    <3>1. m - 1 \in S /\ \A j \in S : m - 1 >= j
      BY <2>1, <1>11, <1>1
    <3> QED BY <3>1, <2>2 DEF Max
  <2>4. LowerEnd(b) = End(l[m - 1])
    BY <2>2, <2>3, <1>7
  <2>5. m - 1 \in 1..n
    BY <1>1, <1>13
  <2>6. ASSUME NEW c \in BufId, Before(offset_list, c, b)
        PROVE  End(c) <= LowerEnd(b)
    <3>1. PICK j \in 1..n : j < m /\ l[j] = c
      BY <2>6, <1>6 DEF Before, l, n
    <3>2. j = m - 1 \/ j < m - 1
      BY <3>1, <1>1
    <3>3. j < m - 1 => End(l[j]) <= Off(l[m - 1])
      BY <2>5, <1>4
    <3> QED BY <3>1, <3>2, <3>3, <2>4, <2>5, <1>3
  <2> QED BY <2>4, <2>5, <2>6, <1>3
<1> QED BY <1>12, <1>13

(* A buffer moves down to the end of the one below it.                     *)
LEMMA ListsCompact ==
  ASSUME TypeOK, LayoutOK, ListsAgree, EmptyAtBottom, NEW b \in BufId, InPool(b),
         UNCHANGED <<offset_list, mru_list>>,
         LowerEnd(b) < Off(b), Off(b)' = LowerEnd(b),
         buffers'[b].size = buffers[b].size,
         \A c \in BufId : c # b /\ InPool(c) => Kept(c),
         \A c \in BufId : InPool(c)' <=> InPool(c)
  PROVE  LayoutOK' /\ ListsAgree'
<1>1. /\ LowerEnd(b) \in Nat
      /\ \A c \in BufId : Before(offset_list, c, b) => End(c) <= LowerEnd(b)
  BY LowerEndIsAbove
<1>2. \A c \in BufId : InPool(c) =>
        Off(c) \in Nat /\ End(c) \in Nat /\ End(c) = Off(c) + buffers[c].size
        /\ buffers[c].size \in Nat
  BY BufferNumbers DEF InPool
<1>3. \A c \in BufId : InPool(c) /\ c # b => End(c)' = End(c) /\ Off(c)' = Off(c)
  BY DEF Kept, End, Off
<1>4. End(b)' = LowerEnd(b) + buffers[b].size
  BY DEF End, Off
<1>5. PoolSize \in Nat
  BY ConstantsOK
<1>6. ListsAgree'
  BY DEF ListsAgree, InList
<1>7. Distinct(offset_list)' /\ \A c \in BufId : InPool(c)' <=> InList(offset_list, c)'
  BY DEF LayoutOK, InList
<1>8. \A c \in BufId : InPool(c)' => End(c)' <= End(c) /\ End(c)' \in Nat
  BY <1>1, <1>2, <1>3, <1>4
<1>9. \A c \in BufId : InPool(c)' => End(c)' <= PoolSize
  BY <1>2, <1>5, <1>8 DEF LayoutOK
<1>10. ASSUME NEW c \in BufId, NEW d \in BufId, Before(offset_list, c, d)'
       PROVE  End(c)' <= Off(d)'
  <2>1. Before(offset_list, c, d) /\ InPool(c) /\ InPool(d)
    BY <1>10, Zenon DEF Before, LayoutOK, InList
  <2>2. End(c) <= Off(d)
    BY <2>1 DEF LayoutOK
  <2>3. CASE d = b
    <3>1. c # b
      <4>1. PICK j, k \in 1..Len(offset_list) :
              j < k /\ offset_list[j] = c /\ offset_list[k] = d
        BY <2>1 DEF Before
      <4>2. j # k
        BY <4>1
      <4> QED BY <4>1, <4>2, <2>3, Zenon DEF LayoutOK, Distinct
    <3> QED BY <3>1, <2>1, <2>3, <1>1, <1>3
  <2>4. CASE d # b
    BY <2>1, <2>2, <2>4, <1>2, <1>3, <1>8
  <2> QED BY <2>3, <2>4
<1> QED BY <1>6, <1>7, <1>9, <1>10 DEF LayoutOK

(* All that _remove_from_pool does to the pool.                            *)
LEMMA RemoveFromPoolKeeps ==
  ASSUME TypeOK, LayoutOK, ListsAgree, EmptyAtBottom,
         NEW b \in BufId, InPool(b), RemoveFromPool(b)
  PROVE  /\ LayoutOK' /\ ListsAgree' /\ EmptyAtBottom'
         /\ offset_list' \in Seq(BufId) /\ mru_list' \in Seq(BufId)
         /\ overflow' \in Int
         /\ Live' = Live
         /\ \A c \in Live : buffers'[c] \in Buffer
         /\ \A c \in Live : c # b => buffers'[c] = buffers[c]
         /\ ~PagedIn(b)'
<1>1. b \in Live /\ DOMAIN buffers' = DOMAIN buffers
  BY DEF InPool, RemoveFromPool
<1>2. \A c \in Live : c # b => buffers'[c] = buffers[c]
  BY DEF RemoveFromPool, Live
<1>3. buffers[b] \in Buffer
  BY <1>1 DEF TypeOK
<1>4. buffers'[b] = [buffers[b] EXCEPT !.offset = None]
  BY <1>1 DEF RemoveFromPool, Live
<1>5. buffers'[b] \in Buffer /\ buffers'[b].offset = None
  BY <1>3, <1>4 DEF Buffer
<1>6. \A c \in Live : buffers'[c] \in Buffer
  BY <1>2, <1>5 DEF TypeOK
<1>7. \A c \in BufId : InPool(c)' <=> InPool(c) /\ c # b
  BY <1>1, <1>2, <1>5 DEF InPool, PagedIn, Live
<1>8. \A c \in BufId : InPool(c)' => Kept(c)
  BY <1>2, <1>7 DEF InPool, Kept, Off
<1>9. /\ LayoutOK' /\ ListsAgree'
      /\ offset_list' \in Seq(BufId) /\ mru_list' \in Seq(BufId)
  BY <1>7, <1>8, ListsRemove DEF RemoveFromPool
<1>10. overflow' \in Int
  BY <1>1, BufferNumbers DEF RemoveFromPool, TypeOK
<1>11. EmptyAtBottom'
  BY <1>1, <1>2, <1>5 DEF EmptyAtBottom, PagedIn, Off, Live
<1> QED BY <1>1, <1>2, <1>5, <1>6, <1>9, <1>10, <1>11 DEF Live, PagedIn

(* A step that changes no buffer keeps the lists, or only turns them over. *)
LEMMA SameBuffers ==
  ASSUME IInv, UNCHANGED <<buffers, mru_list, offset_list>>
  PROVE  /\ LayoutOK' /\ ListsAgree' /\ EmptyAtBottom'
         /\ Live' = Live /\ (\A b \in Live : buffers'[b] \in Buffer)
<1>1. LayoutOK' /\ ListsAgree'
  BY ListsFrame DEF IInv, InPool, PagedIn, Live, Kept, Off
<1> QED BY <1>1 DEF IInv, EmptyAtBottom, PagedIn, Off, Live, TypeOK

(* A step that changes neither the offset nor the size of a buffer.        *)
LEMMA SamePlaces ==
  ASSUME IInv, UNCHANGED <<mru_list, offset_list>>,
         Live' = Live,
         \A b \in Live : Kept(b)
  PROVE  LayoutOK' /\ ListsAgree' /\ EmptyAtBottom'
<1>1. \A b \in BufId : InPool(b)' <=> InPool(b)
  BY DEF InPool, PagedIn, Kept, Off
<1>2. LayoutOK' /\ ListsAgree'
  BY <1>1, ListsFrame DEF IInv, InPool
<1>3. EmptyAtBottom'
  BY DEF IInv, EmptyAtBottom, PagedIn, Off, Kept
<1> QED BY <1>2, <1>3

-----------------------------------------------------------------------------
(* The invariant holds at first, and every action keeps it.                *)

(* The empty pool.                                                         *)
LEMMA InitInv == Init => IInv
<1> SUFFICES ASSUME Init PROVE IInv
  OBVIOUS
<1>1. Live = {}
  BY DEF Init, Live
<1>2. /\ mru_list \in Seq(BufId) /\ offset_list \in Seq(BufId)
      /\ Len(offset_list) = 0 /\ Len(mru_list) = 0
  BY DEF Init
<1>3. TypeOK
  BY <1>1, <1>2 DEF Init, TypeOK
<1>4. LayoutOK /\ ListsAgree
  BY <1>1, <1>2 DEF LayoutOK, ListsAgree, Distinct, InList, Before, InPool
<1>5. SearchState /\ EmptyAtBottom
  BY <1>1 DEF Init, SearchState, EmptyAtBottom
<1> QED BY <1>3, <1>4, <1>5 DEF IInv

(* A command that raises an exception has changed nothing.                 *)
LEMMA RaiseInv ==
  ASSUME IInv, UNCHANGED pool, Idle,
         raised' \in {"KeyError", "AssertionError", "TypeError", "Exception"}
  PROVE  IInv'
<1>1. /\ LayoutOK' /\ ListsAgree' /\ EmptyAtBottom'
      /\ Live' = Live /\ (\A b \in Live : buffers'[b] \in Buffer)
  BY SameBuffers DEF pool
<1> QED BY <1>1 DEF IInv, TypeOK, Idle, pool, SearchState

(* create_buffer, up to page-in.                                           *)
LEMMA CreateInv ==
  ASSUME IInv, NEW b \in BufId, NEW s \in Sizes, NEW u \in BOOLEAN, Create(b, s, u)
  PROVE  IInv'
<1>1. Live' = Live \cup {b} /\ b \notin Live
  BY DEF Create, Live
<1>2. \A c \in Live : buffers'[c] = buffers[c]
  BY <1>1 DEF Create
<1>3. buffers'[b] = [size |-> s, unmoveable |-> u, offset |-> None,
                     in_use |-> FALSE, madv |-> "willneed"]
  BY DEF Create
<1>4. buffers'[b] \in Buffer /\ ~PagedIn(b)'
  BY <1>3 DEF Buffer, PagedIn
<1>5. LayoutOK' /\ ListsAgree'
  <2>1. \A c \in BufId : InPool(c)' <=> InPool(c)
    BY <1>1, <1>2, <1>4 DEF InPool, PagedIn
  <2>2. \A c \in BufId : InPool(c) => Kept(c)
    BY <1>2 DEF InPool, Kept, Off
  <2> QED BY <2>1, <2>2, ListsFrame DEF IInv, Create
<1>6. EmptyAtBottom'
  BY <1>1, <1>2, <1>4 DEF IInv, EmptyAtBottom, PagedIn, Off
<1>7. TypeOK'
  <2>1. overflow' \in Int
    BY ConstantsOK DEF Create, IInv, TypeOK
  <2>2. \A c \in Live' : buffers'[c] \in Buffer
    BY <1>1, <1>2, <1>4 DEF IInv, TypeOK
  <2>3. /\ pc' = "first" /\ op' = "create" /\ cur' = b /\ i' = 1
        /\ UNCHANGED <<mru_list, offset_list, raised>>
    BY DEF Create, Start
  <2> HIDE DEF Create
  <2> QED BY <1>1, <2>1, <2>2, <2>3 DEF IInv, TypeOK
<1>8. SearchState'
  BY <1>4 DEF SearchState, Create, Start, PagedIn
<1> QED BY <1>5, <1>6, <1>7, <1>8 DEF IInv

(* destroy_buffer.                                                         *)
LEMMA DestroyInv ==
  ASSUME IInv, NEW b \in BufId, Destroy(b)
  PROVE  IInv'
<1>1. Live' = Live \ {b} /\ b \in Live
  BY DEF Destroy, Live
<1>2. \A c \in Live' : buffers'[c] = buffers[c]
  BY <1>1 DEF Destroy
<1>3. \A c \in BufId : InPool(c)' <=> InPool(c) /\ c # b
  BY <1>1, <1>2 DEF InPool, PagedIn
<1>4. \A c \in BufId : InPool(c)' => Kept(c)
  BY <1>2, <1>3 DEF InPool, Kept, Off
<1>5. /\ LayoutOK' /\ ListsAgree'
      /\ mru_list' \in Seq(BufId) /\ offset_list' \in Seq(BufId)
  <2>1. CASE PagedIn(b)
    BY <2>1, <1>1, <1>3, <1>4, ListsRemove DEF IInv, InPool, Destroy
  <2>2. CASE ~PagedIn(b)
    <3>1. \A c \in BufId : InPool(c)' <=> InPool(c)
      BY <2>2, <1>3 DEF InPool
    <3>2. UNCHANGED <<mru_list, offset_list>>
      BY <2>2 DEF Destroy
    <3> QED BY <3>1, <3>2, <1>4, ListsFrame DEF IInv, TypeOK
  <2> QED BY <2>1, <2>2
<1>6. EmptyAtBottom'
  BY <1>1, <1>2 DEF IInv, EmptyAtBottom, PagedIn, Off
<1>7. TypeOK'
  <2>1. overflow' \in Int
    BY <1>1, BufferNumbers DEF IInv, Destroy, TypeOK
  <2>2. \A c \in Live' : buffers'[c] \in Buffer
    BY <1>1, <1>2 DEF IInv, TypeOK
  <2> QED BY <1>1, <1>5, <2>1, <2>2 DEF Destroy, AtCommand, IInv, TypeOK
<1>8. SearchState'
  BY DEF SearchState, Destroy, AtCommand
<1> QED BY <1>5, <1>6, <1>7, <1>8 DEF IInv

(* buf_add_usecnt.                                                         *)
LEMMA AddUsecntInv ==
  ASSUME IInv, NEW b \in BufId, AddUsecnt(b)
  PROVE  IInv'
<1>1. CASE buffers[b].in_use
  <2>1. UNCHANGED pool /\ Idle /\ raised' = "AssertionError"
    BY <1>1 DEF AddUsecnt, Raise, pool
  <2> QED BY <2>1, RaiseInv
<1>2. CASE ~buffers[b].in_use
  <2>1. /\ b \in Live /\ Live' = Live
        /\ buffers' = [buffers EXCEPT ![b].in_use = TRUE]
        /\ UNCHANGED <<pc, op, cur, i, raised, mru_list, offset_list, overflow>>
        /\ pc = "idle"
    BY <1>2 DEF AddUsecnt, AtCommand, Live
  <2>2. \A c \in Live : buffers'[c] \in Buffer /\ Kept(c)
    BY <2>1 DEF IInv, TypeOK, Buffer, Kept, Off, Live
  <2>3. LayoutOK' /\ ListsAgree' /\ EmptyAtBottom'
    BY <2>1, <2>2, SamePlaces
  <2> QED BY <2>1, <2>2, <2>3 DEF IInv, TypeOK, SearchState
<1> QED BY <1>1, <1>2

(* buf_madv.                                                               *)
LEMMA MadvInv ==
  ASSUME IInv, NEW b \in BufId, NEW m \in {"willneed", "dontneed"}, Madv(b, m)
  PROVE  IInv'
<1>1. /\ b \in Live /\ Live' = Live
      /\ buffers' = [buffers EXCEPT ![b].madv = m]
      /\ UNCHANGED <<pc, op, cur, i, raised, mru_list, offset_list, overflow>>
      /\ pc = "idle"
  BY DEF Madv, AtCommand, Live
<1>2. \A c \in Live : buffers'[c] \in Buffer /\ Kept(c)
  BY <1>1 DEF IInv, TypeOK, Buffer, Kept, Off, Live
<1>3. LayoutOK' /\ ListsAgree' /\ EmptyAtBottom'
  BY <1>1, <1>2, SamePlaces
<1> QED BY <1>1, <1>2, <1>3 DEF IInv, TypeOK, SearchState

(* use_buffer, up to page-in.                                              *)
LEMMA UseInv ==
  ASSUME IInv, NEW b \in BufId, Use(b)
  PROVE  IInv'
<1>1. CASE buffers[b].madv # "willneed"
  <2>1. UNCHANGED pool /\ Idle /\ raised' = "AssertionError"
    BY <1>1 DEF Use, Raise
  <2> QED BY <2>1, RaiseInv
<1>2. CASE buffers[b].madv = "willneed"
  <2>1. /\ b \in Live /\ UNCHANGED <<pool, raised>>
        /\ pc' = IF PagedIn(b) THEN "touch" ELSE "first"
        /\ op' = "use" /\ cur' = b /\ i' = 1
    BY <1>2 DEF Use, Start
  <2>2. /\ LayoutOK' /\ ListsAgree' /\ EmptyAtBottom'
        /\ Live' = Live /\ (\A c \in Live : buffers'[c] \in Buffer)
    BY <2>1, SameBuffers DEF pool
  <2>3. SearchState'
    BY <2>1 DEF SearchState, PagedIn, pool
  <2> QED BY <2>1, <2>2, <2>3 DEF IInv, TypeOK, pool
<1> QED BY <1>1, <1>2

(* Taking the last usecnt off a buffer: it keeps its place, or is moved by *)
(* compaction, or the program ends on a buffer that has none.              *)
LEMMA RemoveUsecntInv ==
  ASSUME IInv, NEW b \in BufId, RemoveUsecnt(b)
  PROVE  IInv'
<1>1. CASE ~buffers[b].in_use
  <2>1. UNCHANGED pool /\ Idle /\ raised' = "AssertionError"
    BY <1>1 DEF RemoveUsecnt, Raise, pool
  <2> QED BY <2>1, RaiseInv
<1>2. CASE buffers[b].in_use /\ Compact /\ ~PagedIn(b)
  <2>1. /\ b \in Live /\ Live' = Live
        /\ buffers' = [buffers EXCEPT ![b].in_use = FALSE]
        /\ UNCHANGED <<mru_list, offset_list, overflow>>
        /\ Idle /\ raised' = "TypeError"
    BY <1>2 DEF RemoveUsecnt, Raise, Live
  <2>2. \A c \in Live : buffers'[c] \in Buffer /\ Kept(c)
    BY <2>1 DEF IInv, TypeOK, Buffer, Kept, Off, Live
  <2>3. LayoutOK' /\ ListsAgree' /\ EmptyAtBottom'
    BY <2>1, <2>2, SamePlaces
  <2>4. /\ pc' = "idle" /\ op' = None /\ cur' = None /\ i' = 1
        /\ raised' = "TypeError"
        /\ UNCHANGED <<mru_list, offset_list, overflow>> /\ Live' = Live
    BY <2>1 DEF Idle
  <2>5. TypeOK'
    BY <2>2, <2>4 DEF IInv, TypeOK
  <2>6. SearchState'
    BY <2>4 DEF SearchState
  <2> QED BY <2>3, <2>5, <2>6 DEF IInv
<1>3. CASE buffers[b].in_use /\ (Compact => PagedIn(b))
  <2> DEFINE o == IF Compact /\ LowerEnd(b) < Off(b) THEN LowerEnd(b) ELSE Off(b)
  <2>1. /\ b \in Live /\ Live' = Live
        /\ buffers' = [buffers EXCEPT ![b].in_use = FALSE, ![b].offset = o]
        /\ UNCHANGED <<pc, op, cur, i, raised, mru_list, offset_list, overflow>>
        /\ pc = "idle"
    BY <1>3 DEF RemoveUsecnt, AtCommand, Live
  <2>2. \A c \in Live : c # b => buffers'[c] = buffers[c]
    BY <2>1 DEF Live
  <2>3. buffers[b] \in Buffer
    BY <2>1 DEF IInv, TypeOK
  <2> HIDE DEF o
  <2>4. /\ buffers'[b].offset = o /\ buffers'[b].size = buffers[b].size
        /\ o \in Nat \cup {None} => buffers'[b] \in Buffer
    BY <2>1, <2>3 DEF Buffer, Live
  <2>5. CASE o = Off(b)
    <3>1. o \in Nat \cup {None}
      BY <2>3, <2>5 DEF Buffer, Off
    <3>2. \A c \in Live : buffers'[c] \in Buffer /\ Kept(c)
      BY <2>1, <2>2, <2>4, <2>5, <3>1 DEF IInv, TypeOK, Kept, Off
    <3>3. LayoutOK' /\ ListsAgree' /\ EmptyAtBottom'
      BY <2>1, <3>2, SamePlaces
    <3> QED BY <2>1, <3>2, <3>3 DEF IInv, TypeOK, SearchState
  <2>6. CASE o # Off(b)
    <3>1. InPool(b) /\ LowerEnd(b) < Off(b) /\ o = LowerEnd(b)
      BY <1>3, <2>1, <2>6 DEF o, InPool
    <3>2. /\ LowerEnd(b) \in Nat
          /\ Off(b) \in Nat
      BY <3>1, LowerEndIsAbove, BufferNumbers DEF IInv
    <3>3. \A c \in Live : buffers'[c] \in Buffer
      BY <2>2, <2>4, <3>1, <3>2 DEF IInv, TypeOK
    <3>4. \A c \in BufId : InPool(c)' <=> InPool(c)
      <4>1. PagedIn(b)'
        BY <2>4, <3>1, <3>2, ConstantsOK DEF PagedIn
      <4> QED BY <2>1, <2>2, <3>1, <4>1 DEF InPool, PagedIn
    <3>5. \A c \in BufId : c # b /\ InPool(c) => Kept(c)
      BY <2>2 DEF InPool, Kept, Off
    <3>6. LayoutOK' /\ ListsAgree'
      <4>1. Off(b)' = LowerEnd(b)
        BY <2>4, <3>1 DEF Off
      <4> QED BY <2>1, <2>4, <3>1, <3>4, <3>5, <4>1, ListsCompact DEF IInv
    <3>7. EmptyAtBottom'
      <4>1. buffers[b].size # 0
        <5>1. b \in Live /\ PagedIn(b)
          BY <3>1 DEF InPool
        <5>2. buffers[b].size = 0 => Off(b) = 0
          BY <5>1 DEF IInv, EmptyAtBottom
        <5> QED BY <3>1, <3>2, <5>2
      <4> QED BY <2>1, <2>2, <2>4, <4>1 DEF IInv, EmptyAtBottom, PagedIn, Off
    <3> QED BY <2>1, <3>3, <3>6, <3>7 DEF IInv, TypeOK, SearchState
  <2> QED BY <2>5, <2>6
<1> QED BY <1>1, <1>2, <1>3 DEF RemoveUsecnt

(* First-fit puts a buffer into a gap with room for it, and one of size 0  *)
(* into the first gap.                                                     *)
LEMMA InsertInv ==
  ASSUME IInv, Insert
  PROVE  IInv'
<1> DEFINE k == Min(FittingGaps(cur))
<1>1. /\ pc \in {"first", "retry"} /\ cur \in Live /\ op \in {"create", "use"}
      /\ ~PagedIn(cur) /\ cur \in BufId
  BY DEF Insert, IInv, TypeOK, SearchState
<1>2. FittingGaps(cur) \in SUBSET Nat /\ FittingGaps(cur) # {}
  BY DEF Insert, FittingGaps, IInv, TypeOK
<1>3. k \in FittingGaps(cur) /\ \A y \in FittingGaps(cur) : k <= y
  BY <1>2, LeastElement
<1>4. InsertBufferAt(k, cur)
  BY DEF Insert
<1> HIDE DEF k
<1>5. /\ LayoutOK' /\ ListsAgree'
      /\ offset_list' \in Seq(BufId) /\ mru_list' \in Seq(BufId)
  BY <1>1, <1>3, <1>4, ListsInsert DEF IInv
<1>6. GapStart(k) \in Nat
  BY <1>1, <1>3, GapHasRoom DEF IInv
<1>7. buffers[cur] \in Buffer /\ overflow' \in Int
  BY <1>1, <1>4, BufferNumbers DEF IInv, TypeOK, InsertBufferAt
<1>8. /\ Live' = Live
      /\ \A c \in Live : c # cur => buffers'[c] = buffers[c]
      /\ buffers'[cur] = [buffers[cur] EXCEPT !.offset = GapStart(k)]
  BY <1>1, <1>4 DEF InsertBufferAt, Live
<1>9. /\ buffers'[cur] \in Buffer /\ buffers'[cur].offset = GapStart(k)
      /\ buffers'[cur].size = buffers[cur].size
  BY <1>6, <1>7, <1>8 DEF Buffer
<1>10. TypeOK' /\ SearchState'
  <2>1. \/ pc' = "touch" /\ i' = 1 /\ UNCHANGED <<op, cur, raised>>
        \/ pc' = "idle" /\ op' = None /\ cur' = None /\ i' = 1 /\ UNCHANGED raised
    BY DEF Insert, Goto, Idle
  <2>2. \A c \in Live : buffers'[c] \in Buffer
    BY <1>8, <1>9 DEF IInv, TypeOK
  <2>3. TypeOK'
    BY <1>1, <1>5, <1>7, <1>8, <2>1, <2>2 DEF IInv, TypeOK
  <2>4. GapStart(k) # None
    BY <1>6, ConstantsOK
  <2>5. SearchState'
    BY <1>9, <2>1, <2>4 DEF SearchState, PagedIn
  <2> QED BY <2>3, <2>5
<1>11. EmptyAtBottom'
  <2>1. buffers[cur].size = 0 => GapStart(k) = 0
    <3> SUFFICES ASSUME buffers[cur].size = 0 PROVE k = 1
      BY DEF GapStart
    <3>1. 1 \in 1..Len(offset_list) + 1 /\ GapStart(1) = 0
      BY DEF IInv, TypeOK, GapStart
    <3>2. GapEnd(1) \in Nat
      <4>1. CASE 1 = Len(offset_list) + 1
        BY <4>1, ConstantsOK DEF GapEnd
      <4>2. CASE 1 # Len(offset_list) + 1
        <5>1. 1 \in 1..Len(offset_list) /\ offset_list[1] \in BufId
          BY <4>2 DEF IInv, TypeOK
        <5>2. InPool(offset_list[1])
          BY <5>1, Zenon DEF IInv, LayoutOK, InList
        <5> QED BY <4>2, <5>1, <5>2, BufferNumbers DEF GapEnd, IInv
      <4> QED BY <4>1, <4>2
    <3>3. 1 \in FittingGaps(cur)
      BY <3>1, <3>2 DEF FittingGaps
    <3>4. k \in Nat /\ k >= 1 /\ k <= 1
      BY <1>3, <3>1, <3>3 DEF FittingGaps, IInv, TypeOK
    <3> QED BY <3>4
  <2> QED BY <1>1, <1>8, <1>9, <2>1 DEF IInv, EmptyAtBottom, PagedIn, Off
<1> QED BY <1>5, <1>10, <1>11 DEF IInv

(* Moving on in the loops of page-in.                                      *)
LEMMA GotoInv ==
  ASSUME IInv, UNCHANGED <<pool, raised, op, cur>>, pc # "idle", pc # "touch",
         pc' \in {"first", "purge", "retry"}, i' \in Nat \ {0}
  PROVE  IInv'
<1>1. /\ LayoutOK' /\ ListsAgree' /\ EmptyAtBottom'
      /\ Live' = Live /\ (\A b \in Live : buffers'[b] \in Buffer)
  BY SameBuffers DEF pool
<1>2. ~PagedIn(cur)
  BY DEF IInv, SearchState, TypeOK
<1>3. SearchState'
  BY <1>2 DEF SearchState, PagedIn, pool
<1> QED BY <1>1, <1>3 DEF IInv, TypeOK, pool

(* The search from the end of mru_list ends at a buffer that nothing pins. *)
LEMMA LruPlaceFound ==
  ASSUME TypeOK, Unpinned # {}
  PROVE  LruPlace \in 1..Len(mru_list) /\ ~Pinned(mru_list[LruPlace])
<1>1. Len(mru_list) \in Nat /\ Unpinned \in SUBSET (1..Len(mru_list))
  BY DEF TypeOK, Unpinned
<1>2. LruPlace \in Unpinned
  BY <1>1, GreatestPlace DEF LruPlace
<1> QED BY <1>2 DEF Unpinned

(* Paging a buffer out for the one that page-in works for.                 *)
LEMMA PageOutInv ==
  ASSUME IInv, NEW b \in BufId, InPool(b), RemoveFromPool(b),
         UNCHANGED <<pc, op, cur, i, raised>>,
         pc \in {"purge", "retry"}
  PROVE  IInv'
<1>1. /\ LayoutOK' /\ ListsAgree' /\ EmptyAtBottom'
      /\ offset_list' \in Seq(BufId) /\ mru_list' \in Seq(BufId)
      /\ overflow' \in Int
      /\ Live' = Live
      /\ \A c \in Live : buffers'[c] \in Buffer
      /\ \A c \in Live : c # b => buffers'[c] = buffers[c]
      /\ ~PagedIn(b)'
  BY RemoveFromPoolKeeps DEF IInv
<1>2. cur \in Live /\ ~PagedIn(cur)
  BY DEF IInv, TypeOK, SearchState
<1>3. SearchState'
  BY <1>1, <1>2 DEF SearchState, PagedIn
<1> QED BY <1>1, <1>3 DEF IInv, TypeOK

(* The end of page-in, when the buffer moves to the head of mru_list.      *)
LEMMA TouchInv ==
  ASSUME IInv, Touch
  PROVE  IInv'
<1>1. cur \in Live /\ PagedIn(cur) /\ cur \in BufId
  BY DEF Touch, IInv, TypeOK, SearchState
<1>2. mru_list \in Seq(BufId) /\ Distinct(mru_list) /\ InList(mru_list, cur)
  BY <1>1 DEF IInv, TypeOK, LayoutOK, ListsAgree, InPool
<1> DEFINE rest == ListRemove(mru_list, cur)
<1>3. /\ rest \in Seq(BufId) /\ Distinct(rest)
      /\ \A c : InList(rest, c) <=> InList(mru_list, c) /\ c # cur
  BY <1>2, ListRemoveOrder, Zenon
<1>4. mru_list' = ListPrepend(rest, cur)
  BY DEF Touch
<1> HIDE DEF rest
<1>5. /\ mru_list' \in Seq(BufId) /\ Distinct(mru_list')
      /\ \A c : InList(mru_list', c) <=> InList(mru_list, c)
  BY <1>1, <1>2, <1>3, <1>4, ListPrependOrder, Zenon
<1>6. /\ UNCHANGED <<buffers, offset_list, overflow, raised>>
      /\ pc' = "idle" /\ op' = None /\ cur' = None /\ i' = 1
  BY DEF Touch, Idle
<1>7. ListsAgree'
  <2>1. Distinct(mru_list)'
    BY <1>5 DEF Distinct
  <2>2. \A b \in BufId : InList(mru_list, b)' <=> InList(offset_list, b)'
    BY <1>5, <1>6 DEF InList, IInv, ListsAgree
  <2> QED BY <2>1, <2>2 DEF ListsAgree
<1>8. LayoutOK'
  BY <1>6 DEF IInv, LayoutOK, Distinct, InList, Before, InPool, PagedIn, Live, Off, End
<1>9. TypeOK'
  BY <1>5, <1>6 DEF IInv, TypeOK, Live
<1>10. SearchState' /\ EmptyAtBottom'
  BY <1>6 DEF IInv, SearchState, EmptyAtBottom, PagedIn, Live, Off
<1> QED BY <1>7, <1>8, <1>9, <1>10 DEF IInv

-----------------------------------------------------------------------------
(* Every step keeps the invariant.                                         *)
LEMMA NextInv == IInv /\ [Next]_vars => IInv'
<1> SUFFICES ASSUME IInv, [Next]_vars PROVE IInv'
  OBVIOUS
<1>1. ASSUME NEW b \in BufId, UnknownId(b) PROVE IInv'
  BY <1>1, RaiseInv DEF UnknownId, Raise
<1>2. ASSUME NEW b \in BufId, NEW s \in Sizes, NEW u \in BOOLEAN, Create(b, s, u)
      PROVE  IInv'
  BY <1>2, CreateInv
<1>3. ASSUME NEW b \in BufId, CreateExisting(b) PROVE IInv'
  BY <1>3, RaiseInv DEF CreateExisting, Raise
<1>4. ASSUME NEW b \in BufId, Destroy(b) PROVE IInv'
  BY <1>4, DestroyInv
<1>5. ASSUME NEW b \in BufId, AddUsecnt(b) PROVE IInv'
  BY <1>5, AddUsecntInv
<1>6. ASSUME NEW b \in BufId, RemoveUsecnt(b) PROVE IInv'
  BY <1>6, RemoveUsecntInv
<1>7. ASSUME NEW b \in BufId, NEW m \in {"willneed", "dontneed"}, Madv(b, m)
      PROVE  IInv'
  BY <1>7, MadvInv
<1>8. ASSUME NEW b \in BufId, Use(b) PROVE IInv'
  BY <1>8, UseInv
<1>9. CASE Insert
  BY <1>9, InsertInv
<1>10. CASE StartPurge
  BY <1>10, GotoInv DEF StartPurge, Goto
<1>11. CASE PurgeOne
  <2>1. /\ pc = "purge" /\ UNCHANGED <<pc, op, cur, raised>>
        /\ i \in 1..Len(offset_list)
    BY <1>11 DEF PurgeOne, IInv, TypeOK
  <2>2. CASE Purgeable(offset_list[i])
    <3>1. RemoveFromPool(offset_list[i]) /\ UNCHANGED i
      BY <1>11, <2>2 DEF PurgeOne
    <3>2. offset_list[i] \in BufId /\ InPool(offset_list[i])
      BY <2>1 DEF IInv, TypeOK, LayoutOK, InList
    <3> QED BY <2>1, <3>1, <3>2, PageOutInv
  <2>3. CASE ~Purgeable(offset_list[i])
    <3>1. i' = i + 1 /\ UNCHANGED pool
      BY <1>11, <2>3 DEF PurgeOne
    <3>2. i' \in Nat \ {0}
      BY <3>1 DEF IInv, TypeOK
    <3> QED BY <2>1, <3>1, <3>2, GotoInv
  <2> QED BY <2>2, <2>3
<1>12. CASE EndPurge
  BY <1>12, GotoInv DEF EndPurge, Goto
<1>13. CASE PageOutLru
  <2>1. CASE UNCHANGED pool /\ Raise("Exception")
    BY <2>1, RaiseInv DEF Raise
  <2>2. CASE /\ Unpinned # {} /\ RemoveFromPool(mru_list[LruPlace])
             /\ UNCHANGED <<pc, op, cur, i, raised>>
    <3>1. LruPlace \in 1..Len(mru_list)
      BY <2>2, LruPlaceFound DEF IInv
    <3>2. mru_list[LruPlace] \in BufId /\ InPool(mru_list[LruPlace])
      BY <3>1 DEF IInv, TypeOK, LayoutOK, ListsAgree, InList
    <3>3. pc = "retry"
      BY <1>13 DEF PageOutLru
    <3> QED BY <2>2, <3>2, <3>3, PageOutInv
  <2> QED BY <1>13, <2>1, <2>2 DEF PageOutLru
<1>14. CASE Touch
  BY <1>14, TouchInv
<1>15. CASE UNCHANGED vars
  <2>1. /\ LayoutOK' /\ ListsAgree' /\ EmptyAtBottom'
        /\ Live' = Live /\ (\A b \in Live : buffers'[b] \in Buffer)
    BY <1>15, SameBuffers DEF vars
  <2> QED BY <1>15, <2>1 DEF vars, IInv, TypeOK, SearchState, PagedIn
<1> QED
  BY <1>1, <1>2, <1>3, <1>4, <1>5, <1>6, <1>7, <1>8, <1>9, <1>10, <1>11, <1>12,
     <1>13, <1>14, <1>15 DEF Next, Command, PageIn

-----------------------------------------------------------------------------
(* The invariant of the pool, from which the others follow.                *)
THEOREM PoolInvariant == Spec => []IInv
<1> QED BY InitInv, NextInv, PTL DEF Spec

(* Every variable keeps its type, for any log and with any pool: page-in   *)
(* only ever works for a buffer that exists.                               *)
THEOREM TypeCorrect == Spec => []TypeOK
<1>1. IInv => TypeOK
  BY DEF IInv
<1> QED BY <1>1, PoolInvariant, PTL

(* First-fit, paging out, destroying and compacting keep the layout: no    *)
(* two buffers of the pool overlap, none leaves it, and offset_list has    *)
(* them in the order of their offsets.                                     *)
THEOREM LayoutCorrect == Spec => []LayoutOK
<1>1. IInv => LayoutOK
  BY DEF IInv
<1> QED BY <1>1, PoolInvariant, PTL

(* Compaction can rely on it: no buffer of size 0 lies above the bottom.   *)
THEOREM EmptyAtBottomCorrect == Spec => []EmptyAtBottom
<1>1. IInv => EmptyAtBottom
  BY DEF IInv
<1> QED BY <1>1, PoolInvariant, PTL

(* Whatever moves a buffer into the pool or out of it keeps both of its    *)
(* lists.                                                                  *)
THEOREM ListsCorrect == Spec => []ListsAgree
<1>1. IInv => ListsAgree
  BY DEF IInv
<1> QED BY <1>1, PoolInvariant, PTL

-----------------------------------------------------------------------------
(* What a step may do to a buffer that is there before and after it: leave *)
(* it where it is, put it into the pool, page it out if nothing pins it,   *)
(* or compact it when it loses its last usecnt.                            *)
Handled(b) ==
  \/ buffers'[b].offset = Off(b)
  \/ ~PagedIn(b)
  \/ ~Pinned(b) /\ buffers'[b].offset = None
  \/ Compact /\ ~buffers'[b].in_use /\ buffers'[b].offset # None

(* Every step treats the buffers that survive it in one of these ways.     *)
LEMMA StepHandles == IInv /\ [Next]_vars => \A b \in Live \cap DOMAIN buffers' : Handled(b)
<1> SUFFICES ASSUME IInv, [Next]_vars, NEW b \in Live, b \in DOMAIN buffers'
             PROVE  Handled(b)
  OBVIOUS
<1>1. CASE UNCHANGED buffers
  BY <1>1 DEF Handled, Off
<1>2. ASSUME NEW c \in BufId, NEW s \in Sizes, NEW u \in BOOLEAN, Create(c, s, u)
      PROVE  Handled(b)
  <2>1. buffers'[b] = buffers[b]
    BY <1>2 DEF Create
  <2> QED BY <2>1 DEF Handled, Off
<1>3. ASSUME NEW c \in BufId, Destroy(c) PROVE Handled(b)
  <2>1. buffers'[b] = buffers[b]
    BY <1>3 DEF Destroy
  <2> QED BY <2>1 DEF Handled, Off
<1>4. ASSUME NEW c \in BufId, AddUsecnt(c) \/ \E m \in {"willneed", "dontneed"} : Madv(c, m)
      PROVE  Handled(b)
  <2>1. \/ buffers' = buffers
        \/ buffers' = [buffers EXCEPT ![c].in_use = TRUE]
        \/ \E m \in {"willneed", "dontneed"} : buffers' = [buffers EXCEPT ![c].madv = m]
    BY <1>4 DEF AddUsecnt, Madv
  <2>2. buffers'[b].offset = buffers[b].offset
    BY <2>1 DEF IInv, TypeOK, Buffer, Live
  <2> QED BY <2>2 DEF Handled, Off
<1>5. ASSUME NEW c \in BufId, RemoveUsecnt(c) PROVE Handled(b)
  <2> DEFINE o == IF Compact /\ LowerEnd(c) < Off(c) THEN LowerEnd(c) ELSE Off(c)
  <2>1. \/ buffers' = buffers
        \/ buffers' = [buffers EXCEPT ![c].in_use = FALSE]
        \/ (Compact => PagedIn(c)) /\ buffers' = [buffers EXCEPT ![c].in_use = FALSE,
                                                                ![c].offset = o]
    BY <1>5 DEF RemoveUsecnt
  <2>2. buffers[b] \in Buffer /\ b \in DOMAIN buffers
    BY DEF IInv, TypeOK, Live
  <2>3. CASE o = Off(c)
    <3> HIDE DEF o
    <3>1. buffers'[b].offset = Off(b)
      BY <2>1, <2>2, <2>3 DEF Off, Buffer
    <3> QED BY <3>1 DEF Handled
  <2>4. CASE /\ o # Off(c)
             /\ Compact => PagedIn(c)
             /\ buffers' = [buffers EXCEPT ![c].in_use = FALSE, ![c].offset = o]
    <3>1. c # b => buffers'[b] = buffers[b]
      BY <2>2, <2>4
    <3>2. CASE c = b
      <4>1. InPool(c) /\ LowerEnd(c) < Off(c) /\ o = LowerEnd(c) /\ Compact
        BY <2>4, <3>2 DEF InPool
      <4>2. o # None
        BY <4>1, LowerEndIsAbove, ConstantsOK DEF IInv
      <4> HIDE DEF o
      <4>3. buffers'[b].offset = o /\ buffers'[b].in_use = FALSE
        BY <2>2, <2>4, <3>2 DEF Buffer
      <4> QED BY <4>1, <4>2, <4>3 DEF Handled
    <3> QED BY <3>1, <3>2 DEF Handled, Off
  <2>5. CASE buffers' = buffers \/ buffers' = [buffers EXCEPT ![c].in_use = FALSE]
    <3>1. buffers'[b].offset = Off(b)
      BY <2>2, <2>5 DEF Off, Buffer
    <3> QED BY <3>1 DEF Handled
  <2> QED BY <2>1, <2>3, <2>4, <2>5
<1>6. CASE Insert
  <2>1. ~PagedIn(cur)
    BY <1>6 DEF Insert, IInv, SearchState
  <2>2. b # cur => buffers'[b] = buffers[b]
    BY <1>6 DEF Insert, InsertBufferAt
  <2> QED BY <2>1, <2>2 DEF Handled, Off
<1>7. ASSUME NEW c, RemoveFromPool(c), ~Pinned(c) PROVE Handled(b)
  <2>1. buffers' = [buffers EXCEPT ![c].offset = None]
    BY <1>7 DEF RemoveFromPool
  <2>2. b # c => buffers'[b] = buffers[b]
    BY <2>1
  <2>3. b = c => buffers'[b].offset = None
    BY <2>1 DEF IInv, TypeOK, Buffer, Live
  <2> QED BY <1>7, <2>2, <2>3 DEF Handled, Off
<1>8. CASE PurgeOne
  <2>1. CASE Purgeable(offset_list[i])
    BY <1>7, <1>8, <2>1 DEF PurgeOne, Purgeable
  <2>2. CASE ~Purgeable(offset_list[i])
    BY <1>1, <1>8, <2>2 DEF PurgeOne, pool
  <2> QED BY <2>1, <2>2
<1>9. CASE PageOutLru
  <2>1. CASE UNCHANGED pool
    BY <1>1, <2>1 DEF pool
  <2>2. CASE Unpinned # {} /\ RemoveFromPool(mru_list[LruPlace])
    BY <1>7, <2>2, LruPlaceFound DEF IInv
  <2> QED BY <1>9, <2>1, <2>2 DEF PageOutLru
<1>10. ASSUME NEW c \in BufId, UnknownId(c) \/ CreateExisting(c) \/ Use(c)
       PROVE  UNCHANGED buffers
  BY <1>10 DEF UnknownId, CreateExisting, Use, pool
<1>11. StartPurge \/ EndPurge \/ Touch \/ UNCHANGED vars => UNCHANGED buffers
  BY DEF StartPurge, EndPurge, Touch, pool, vars
<1> QED
  BY <1>1, <1>2, <1>3, <1>4, <1>5, <1>6, <1>8, <1>9, <1>10, <1>11
     DEF Next, Command, PageIn

(* Neither purging nor paging out nor compaction takes a buffer that is in *)
(* use or unmoveable out of the pool.                                      *)
THEOREM PinnedStayCorrect == Spec => PinnedStay
<1>1. IInv /\ [Next]_vars =>
        [\A b \in Live \cap DOMAIN buffers' :
           Pinned(b) /\ PagedIn(b) => buffers'[b].offset # None]_vars
  BY StepHandles DEF Handled, PagedIn, Off
<1> QED BY <1>1, PoolInvariant, PTL DEF Spec, PinnedStay

(* Only the command that makes a buffer idle may move it.                  *)
THEOREM InUseStillCorrect == Spec => InUseStill
<1>1. IInv /\ [Next]_vars =>
        [\A b \in Live \cap DOMAIN buffers' :
           buffers[b].in_use /\ buffers'[b].in_use /\ PagedIn(b)
           => buffers'[b].offset = Off(b)]_vars
  BY StepHandles DEF Handled, Pinned
<1> QED BY <1>1, PoolInvariant, PTL DEF Spec, InUseStill

(* Without compaction, an unmoveable buffer keeps its place for as long as *)
(* it exists.  (With it, it does not: see the run CmaPoolUnmoveable.)      *)
THEOREM UnmoveableStillCorrect == ASSUME Compact = FALSE PROVE Spec => UnmoveableStill
<1>1. IInv /\ [Next]_vars =>
        [\A b \in Live \cap DOMAIN buffers' :
           buffers[b].unmoveable /\ PagedIn(b) => buffers'[b].offset = Off(b)]_vars
  BY StepHandles DEF Handled, Pinned
<1> QED BY <1>1, PoolInvariant, PTL DEF Spec, UnmoveableStill

-----------------------------------------------------------------------------
(* The account of what is paged out                                        *)

SizeOf == [b \in Live |-> buffers[b].size]
Out == {b \in Live : ~PagedIn(b)}

Accounted == IsFiniteSet(Live) /\ OverflowExact

(* The account is a Total; unfolding the fold is kept to this one step.    *)
LEMMA OverflowIsTotal == OverflowExact <=> overflow = Total(SizeOf, Out)
BY Zenon DEF OverflowExact, SizeOf, Out, Total

(* What is paged out is finitely many sizes.                               *)
LEMMA OutTypes ==
  ASSUME TypeOK, Accounted
  PROVE  /\ IsFiniteSet(Out) /\ Out \subseteq Live
         /\ \A b \in Live : SizeOf[b] = buffers[b].size /\ SizeOf[b] \in Int
         /\ overflow = Total(SizeOf, Out)
<1>1. Out \subseteq Live /\ IsFiniteSet(Out)
  <2>1. Out \in SUBSET Live
    BY DEF Out
  <2> QED BY <2>1, FS_Subset DEF Accounted
<1>2. \A b \in Live : SizeOf[b] = buffers[b].size /\ buffers[b].size \in Nat
  BY BufferNumbers DEF SizeOf
<1>3. overflow = Total(SizeOf, Out)
  BY OverflowIsTotal DEF Accounted
<1> QED BY <1>1, <1>2, <1>3

(* As many are paged out as before, a buffer more, or one less.            *)
LEMMA AccountSame ==
  ASSUME TypeOK, Accounted, IsFiniteSet(Live'), Out' = Out, overflow' = overflow,
         \A c \in Out : buffers'[c].size = buffers[c].size
  PROVE  Accounted'
<1>1. /\ IsFiniteSet(Out) /\ Out \subseteq Live
      /\ \A c \in Live : SizeOf[c] = buffers[c].size /\ SizeOf[c] \in Int
      /\ overflow = Total(SizeOf, Out)
  BY OutTypes
<1>2. \A c \in Out : SizeOf'[c] = SizeOf[c] /\ SizeOf[c] \in Int
  <2>1. Out' \subseteq Live'
    BY DEF Out
  <2> QED BY <1>1, <2>1 DEF SizeOf
<1>3. Total(SizeOf', Out) = Total(SizeOf, Out)
  BY <1>1, <1>2, TotalOfSame
<1>4. overflow' = Total(SizeOf', Out')
  BY <1>1, <1>3
<1>5. (OverflowExact <=> overflow = Total(SizeOf, Out))'
  BY OverflowIsTotal, PTL
<1> QED BY <1>4, <1>5 DEF Accounted

(* A buffer more: it has been created or paged out.                        *)
LEMMA AccountMore ==
  ASSUME TypeOK, Accounted, IsFiniteSet(Live'), NEW b, b \notin Out, Out' = Out \cup {b},
         buffers'[b].size \in Int, overflow' = overflow + buffers'[b].size,
         \A c \in Out : buffers'[c].size = buffers[c].size
  PROVE  Accounted'
<1>1. /\ IsFiniteSet(Out) /\ Out \subseteq Live
      /\ \A c \in Live : SizeOf[c] = buffers[c].size /\ SizeOf[c] \in Int
      /\ overflow = Total(SizeOf, Out)
  BY OutTypes
<1>2. SizeOf'[b] = buffers'[b].size /\ \A c \in Out : SizeOf'[c] = SizeOf[c] /\ SizeOf[c] \in Int
  <2>1. Out' \subseteq Live'
    BY DEF Out
  <2> QED BY <1>1, <2>1 DEF SizeOf
<1>3. Total(SizeOf', Out \cup {b})
        = Total(SizeOf, Out) + SizeOf'[b]
  <2> DEFINE f == SizeOf
             g == SizeOf'
             S == Out
  <2>1. IsFiniteSet(S) /\ b \notin S /\ (\A y \in S : f[y] \in Int /\ g[y] = f[y]) /\ g[b] \in Int
    BY <1>1, <1>2
  <2> HIDE DEF f, g, S
  <2>2. Total(g, S \cup {b}) = Total(f, S) + g[b]
    BY <2>1, TotalGains
  <2> QED BY <2>2 DEF f, g, S
<1>4. overflow' = Total(SizeOf', Out')
  BY <1>1, <1>2, <1>3
<1>5. (OverflowExact <=> overflow = Total(SizeOf, Out))'
  BY OverflowIsTotal, PTL
<1> QED BY <1>4, <1>5 DEF Accounted

(* One less: it has been destroyed or paged in.                            *)
LEMMA AccountLess ==
  ASSUME TypeOK, Accounted, IsFiniteSet(Live'), NEW b, b \in Out, Out' = Out \ {b},
         overflow' = overflow - buffers[b].size,
         \A c \in Out \ {b} : buffers'[c].size = buffers[c].size
  PROVE  Accounted'
<1>1. /\ IsFiniteSet(Out) /\ Out \subseteq Live
      /\ \A c \in Live : SizeOf[c] = buffers[c].size /\ SizeOf[c] \in Int
      /\ overflow = Total(SizeOf, Out)
  BY OutTypes
<1>2. \A c \in Out \ {b} : SizeOf'[c] = SizeOf[c]
  <2>1. Out' \subseteq Live'
    BY DEF Out
  <2> QED BY <1>1, <2>1 DEF SizeOf
<1>3. Total(SizeOf', Out \ {b})
        = Total(SizeOf, Out) - SizeOf[b]
  <2> DEFINE f == SizeOf
             g == SizeOf'
             S == Out
             T == Out \ {b}
  <2>1. IsFiniteSet(S) /\ b \in S
    BY <1>1
  <2>3. \A y \in S : f[y] \in Int
    BY <1>1
  <2>4. T = S \ {b} /\ \A y \in T : g[y] = f[y]
    BY <1>2
  <2> HIDE DEF f, g, S, T
  <2>2. Total(g, T) = Total(f, S) - f[b]
    BY <2>1, <2>3, <2>4, TotalLoses
  <2> QED BY <2>2 DEF f, g, S, T
<1>4. overflow' = Total(SizeOf', Out')
  BY <1>1, <1>3
<1>5. (OverflowExact <=> overflow = Total(SizeOf, Out))'
  BY OverflowIsTotal, PTL
<1> QED BY <1>4, <1>5 DEF Accounted

(* A step that changes neither the sizes nor the places of the buffers     *)
(* leaves the account alone.                                               *)
LEMMA AccountLeft ==
  ASSUME TypeOK, Accounted, UNCHANGED overflow, Live' = Live,
         \A c \in Live : /\ buffers'[c].size = buffers[c].size
                         /\ buffers'[c].offset = None <=> buffers[c].offset = None
  PROVE  Accounted'
<1>1. Out' = Out /\ \A c \in Out : buffers'[c].size = buffers[c].size
  BY DEF Out, PagedIn
<1>2. IsFiniteSet(Live')
  BY DEF Accounted
<1> QED BY <1>1, <1>2, AccountSame

(* Paging out counts a buffer, whichever loop does it.                     *)
LEMMA PageOutAccounts ==
  ASSUME TypeOK, Accounted, NEW b \in BufId, InPool(b), RemoveFromPool(b)
  PROVE  Accounted'
<1>1. /\ b \in Live /\ buffers[b].offset # None /\ buffers[b].size \in Nat
      /\ buffers' = [buffers EXCEPT ![b].offset = None]
      /\ overflow' = overflow + buffers[b].size
  BY BufferNumbers DEF InPool, PagedIn, RemoveFromPool
<1>2. \A c \in Live : buffers[c] \in Buffer
  BY DEF TypeOK
<1>3. Live' = Live /\ \A c \in Live : /\ buffers'[c].size = buffers[c].size
                                      /\ c # b => buffers'[c].offset = buffers[c].offset
                                      /\ buffers'[b].offset = None
  BY <1>1, <1>2 DEF Live, Buffer
<1>4. b \notin Out /\ Out' = Out \cup {b} /\ \A c \in Out : buffers'[c].size = buffers[c].size
  BY <1>1, <1>3 DEF Out, PagedIn
<1>5. IsFiniteSet(Live')
  BY <1>3 DEF Accounted
<1> QED BY <1>1, <1>3, <1>4, <1>5, AccountMore

(* Every step keeps the account.                                           *)
LEMMA NextAccounts ==
  ASSUME IInv, Accounted, [Next]_vars
  PROVE  Accounted'
<1>1. TypeOK /\ \A c \in Live : buffers[c] \in Buffer
  BY DEF IInv, TypeOK
<1>2. CASE UNCHANGED pool
  BY <1>1, <1>2, AccountLeft DEF pool, Live
<1>3. ASSUME NEW b \in BufId, NEW s \in Sizes, NEW u \in BOOLEAN, Create(b, s, u)
      PROVE  Accounted'
  <2> DEFINE new == [size |-> s, unmoveable |-> u, offset |-> None,
                     in_use |-> FALSE, madv |-> "willneed"]
  <2>1. /\ b \notin Live /\ overflow' = overflow + s /\ s \in Int
        /\ buffers' = [c \in Live \cup {b} |-> IF c = b THEN new ELSE buffers[c]]
    BY <1>3, ConstantsOK DEF Create
  <2>2. /\ Live' = Live \cup {b} /\ buffers'[b].size = s /\ buffers'[b].offset = None
        /\ \A c \in Live : buffers'[c] = buffers[c]
    BY <2>1 DEF Live
  <2>3. IsFiniteSet(Live')
    BY <2>2, FS_AddElement DEF Accounted
  <2>4. b \notin Out /\ Out' = Out \cup {b} /\ \A c \in Out : buffers'[c].size = buffers[c].size
    BY <2>1, <2>2 DEF Out, PagedIn
  <2> QED BY <1>1, <2>1, <2>2, <2>3, <2>4, AccountMore
<1>4. ASSUME NEW b \in BufId, Destroy(b) PROVE Accounted'
  <2>1. b \in Live /\ buffers' = [c \in Live \ {b} |-> buffers[c]]
    BY <1>4 DEF Destroy
  <2>2. Live' = Live \ {b} /\ \A c \in Live \ {b} : buffers'[c] = buffers[c]
    BY <2>1 DEF Live
  <2>3. IsFiniteSet(Live')
    BY <2>2, FS_RemoveElement DEF Accounted
  <2>4. CASE PagedIn(b)
    <3>1. overflow' = overflow
      BY <1>4, <2>4 DEF Destroy
    <3>2. Out' = Out /\ \A c \in Out : buffers'[c].size = buffers[c].size
      BY <2>2, <2>4 DEF Out, PagedIn
    <3> QED BY <1>1, <2>3, <3>1, <3>2, AccountSame
  <2>5. CASE ~PagedIn(b)
    <3>1. overflow' = overflow - buffers[b].size
      BY <1>4, <2>5 DEF Destroy
    <3>2. b \in Out /\ Out' = Out \ {b} /\ \A c \in Out \ {b} : buffers'[c].size = buffers[c].size
      BY <2>1, <2>2, <2>5 DEF Out, PagedIn
    <3> QED BY <1>1, <2>3, <3>1, <3>2, AccountLess
  <2> QED BY <2>4, <2>5
<1>5. ASSUME NEW b \in BufId, AddUsecnt(b) PROVE Accounted'
  <2>1. /\ overflow' = overflow
        /\ buffers' = buffers \/ buffers' = [buffers EXCEPT ![b].in_use = TRUE]
    BY <1>5 DEF AddUsecnt
  <2>2. Live' = Live /\ \A c \in Live : buffers'[c].size = buffers[c].size
                                        /\ buffers'[c].offset = buffers[c].offset
    BY <1>1, <2>1 DEF Live, Buffer
  <2> QED BY <1>1, <2>1, <2>2, AccountLeft
<1>6. ASSUME NEW b \in BufId, NEW m \in {"willneed", "dontneed"}, Madv(b, m)
      PROVE  Accounted'
  <2>1. overflow' = overflow /\ buffers' = [buffers EXCEPT ![b].madv = m]
    BY <1>6 DEF Madv
  <2>2. Live' = Live /\ \A c \in Live : buffers'[c].size = buffers[c].size
                                        /\ buffers'[c].offset = buffers[c].offset
    BY <1>1, <2>1 DEF Live, Buffer
  <2> QED BY <1>1, <2>1, <2>2, AccountLeft
<1>7. ASSUME NEW b \in BufId, RemoveUsecnt(b) PROVE Accounted'
  <2> DEFINE low == IF Compact /\ LowerEnd(b) < Off(b) THEN LowerEnd(b) ELSE Off(b)
  <2>1. /\ overflow' = overflow /\ b \in Live
        /\ \/ buffers' = buffers
           \/ buffers' = [buffers EXCEPT ![b].in_use = FALSE]
           \/ /\ Compact => PagedIn(b)
              /\ buffers' = [buffers EXCEPT ![b].in_use = FALSE, ![b].offset = low]
    BY <1>7 DEF RemoveUsecnt
  <2>2. Compact /\ LowerEnd(b) < Off(b) /\ PagedIn(b) => LowerEnd(b) # None
    BY <1>1, <2>1, LowerEndIsAbove, ConstantsOK DEF IInv, InPool
  <2>3. (Compact => PagedIn(b)) => (low = None <=> buffers[b].offset = None)
    BY <2>2 DEF PagedIn, Off
  <2> HIDE DEF low
  <2>4. Live' = Live /\ \A c \in Live : buffers'[c].size = buffers[c].size
                                        /\ (c # b => buffers'[c].offset = buffers[c].offset)
    BY <1>1, <2>1 DEF Live, Buffer
  <2>5. buffers'[b].offset = None <=> buffers[b].offset = None
    BY <1>1, <2>1, <2>3 DEF Buffer, Live
  <2> QED BY <1>1, <2>1, <2>4, <2>5, AccountLeft
<1>8. CASE Insert
  <2> DEFINE k == Min(FittingGaps(cur))
  <2>1. /\ pc \in {"first", "retry"} /\ FittingGaps(cur) # {} /\ InsertBufferAt(k, cur)
    BY <1>8 DEF Insert
  <2>2. cur \in Live /\ ~PagedIn(cur)
    BY <1>1, <2>1 DEF IInv, SearchState, TypeOK
  <2>3. k \in FittingGaps(cur)
    <3>1. FittingGaps(cur) \in SUBSET Nat
      BY <1>1 DEF FittingGaps, TypeOK
    <3> QED BY <2>1, <3>1, LeastElement
  <2>4. GapStart(k) # None
    BY <1>1, <2>2, <2>3, GapHasRoom, ConstantsOK DEF IInv
  <2> HIDE DEF k
  <2>5. /\ buffers' = [buffers EXCEPT ![cur].offset = GapStart(k)]
        /\ overflow' = overflow - buffers[cur].size
    BY <2>1 DEF InsertBufferAt
  <2>6. Live' = Live /\ \A c \in Live : /\ buffers'[c].size = buffers[c].size
                                        /\ c # cur => buffers'[c].offset = buffers[c].offset
                                        /\ buffers'[cur].offset # None
    BY <1>1, <2>2, <2>4, <2>5 DEF Live, Buffer
  <2>7. /\ cur \in Out /\ Out' = Out \ {cur}
        /\ \A c \in Out \ {cur} : buffers'[c].size = buffers[c].size
    BY <2>2, <2>6 DEF Out, PagedIn
  <2>8. IsFiniteSet(Live')
    BY <2>6 DEF Accounted
  <2> QED BY <1>1, <2>5, <2>7, <2>8, AccountLess
<1>9. CASE PurgeOne
  <2>1. CASE Purgeable(offset_list[i])
    <3>1. i \in 1..Len(offset_list) /\ RemoveFromPool(offset_list[i])
      BY <1>1, <1>9, <2>1 DEF PurgeOne, TypeOK
    <3>2. offset_list[i] \in BufId /\ InPool(offset_list[i])
      BY <3>1 DEF IInv, TypeOK, LayoutOK, InList
    <3> QED BY <1>1, <3>1, <3>2, PageOutAccounts
  <2>2. CASE ~Purgeable(offset_list[i])
    BY <1>2, <1>9, <2>2 DEF PurgeOne
  <2> QED BY <2>1, <2>2
<1>10. CASE PageOutLru
  <2>1. CASE UNCHANGED pool
    BY <1>2, <2>1
  <2>2. CASE Unpinned # {} /\ RemoveFromPool(mru_list[LruPlace])
    <3>1. LruPlace \in 1..Len(mru_list)
      BY <1>1, <2>2, LruPlaceFound
    <3>2. mru_list[LruPlace] \in BufId /\ InPool(mru_list[LruPlace])
      BY <3>1 DEF IInv, TypeOK, LayoutOK, ListsAgree, InList
    <3> QED BY <1>1, <2>2, <3>2, PageOutAccounts
  <2> QED BY <1>10, <2>1, <2>2 DEF PageOutLru
<1>11. CASE Touch
  BY <1>1, <1>11, AccountLeft DEF Touch, Live
<1>12. CASE UNCHANGED vars
  BY <1>2, <1>12 DEF vars, pool
<1> QED BY <1>2, <1>3, <1>4, <1>5, <1>6, <1>7, <1>8, <1>9, <1>10, <1>11, <1>12
        DEF Next, Command, PageIn, UnknownId, CreateExisting, Use, StartPurge, EndPurge

(* Whatever create, destroy, page-in and page-out have added to the        *)
(* overflow and taken off it, it is the total size of what is paged out.   *)
THEOREM OverflowCorrect == Spec => []OverflowExact
<1>1. Init => Accounted
  <2> SUFFICES ASSUME Init PROVE Accounted
    OBVIOUS
  <2>1. Live = {} /\ overflow = 0
    BY DEF Init, Live
  <2>2. Out = {} /\ IsFiniteSet(Live)
    BY <2>1, FS_EmptySet DEF Out
  <2>3. OverflowExact
    BY <2>1, <2>2, TotalOfNone, OverflowIsTotal
  <2> QED BY <2>2, <2>3 DEF Accounted
<1>2. IInv /\ Accounted /\ [Next]_vars => Accounted'
  BY NextAccounts
<1>3. Accounted => OverflowExact
  BY DEF Accounted
<1> QED BY <1>1, <1>2, <1>3, PoolInvariant, PTL DEF Spec

-----------------------------------------------------------------------------
(* The order of page-in, and when it gives up                              *)

(* A place that no buffer of the pool has a part of lies in a gap that     *)
(* first-fit looks at.                                                     *)
LEMMA FreePlaceIsInGap ==
  ASSUME TypeOK, LayoutOK, NEW b \in Live,
         NEW p \in Nat, p + buffers[b].size <= PoolSize,
         \A c \in BufId : InPool(c) => End(c) <= p \/ p + buffers[b].size <= Off(c)
  PROVE  FittingGaps(b) # {}
<1> DEFINE l == offset_list
           n == Len(offset_list)
           x == buffers[b].size
           S == {k \in 1..n + 1 : k = n + 1 \/ p + x <= Off(l[k])}
           k == Min(S)
<1>1. n \in Nat /\ x \in Nat /\ PoolSize \in Nat
  BY BufferNumbers, ConstantsOK DEF TypeOK
<1>2. \A j \in 1..n : l[j] \in BufId /\ InPool(l[j])
  BY DEF TypeOK, LayoutOK, InList
<1>3. \A j \in 1..n : /\ Off(l[j]) \in Nat /\ End(l[j]) \in Nat
                      /\ End(l[j]) <= p \/ p + x <= Off(l[j])
  BY <1>2, BufferNumbers
<1>4. GapStart(k) = IF k = 1 THEN 0 ELSE End(l[k - 1])
  BY DEF GapStart
<1>5. GapEnd(k) = IF k = n + 1 THEN PoolSize ELSE Off(l[k])
  BY DEF GapEnd
<1>6. S \in SUBSET Nat /\ n + 1 \in S
  BY <1>1
<1>7. k \in S /\ \A j \in S : k <= j
  BY <1>6, LeastElement
<1> HIDE DEF k
<1>8. k \in 1..n + 1 /\ (k = n + 1 \/ p + x <= Off(l[k]))
  BY <1>7
<1>9. \A j \in 1..n : j < k => End(l[j]) <= p
  <2> TAKE j \in 1..n
  <2> HAVE j < k
  <2>1. j \notin S
    BY <1>1, <1>7, <1>8
  <2> QED BY <2>1, <1>1, <1>3
<1> HIDE DEF l, n, x, S
<1>10. GapStart(k) \in Nat /\ GapStart(k) <= p
  <2>1. CASE k = 1
    BY <2>1, <1>4
  <2>2. CASE k # 1
    <3>1. k - 1 \in 1..n /\ k - 1 < k
      BY <2>2, <1>1, <1>8
    <3> QED BY <2>2, <3>1, <1>3, <1>4, <1>9
  <2> QED BY <2>1, <2>2
<1>11. GapEnd(k) \in Nat /\ p + x <= GapEnd(k)
  <2>1. CASE k = n + 1
    BY <2>1, <1>1, <1>5 DEF x
  <2>2. CASE k # n + 1
    <3>1. k \in 1..n
      BY <2>2, <1>1, <1>8
    <3> QED BY <2>2, <3>1, <1>3, <1>5, <1>8
  <2> QED BY <2>1, <2>2
<1>12. GapEnd(k) - GapStart(k) >= x
  BY <1>1, <1>10, <1>11
<1> QED BY <1>8, <1>12 DEF FittingGaps, n, x

-----------------------------------------------------------------------------
(* recency has exactly the buffers that exist, and starts with the one     *)
(* that page-in works for.                                                 *)
RecencyOK ==
  /\ recency \in Seq(BufId)
  /\ Distinct(recency)
  /\ \A b \in BufId : InList(recency, b) <=> b \in Live
  /\ pc # "idle" => recency # <<>> /\ Head(recency) = cur

(* The order of uses changes only with the buffers there are.              *)
LEMMA RecencyFrame ==
  ASSUME RecencyOK, UNCHANGED recency, Live' = Live,
         pc' = "idle" \/ (pc # "idle" /\ cur' = cur)
  PROVE  RecencyOK'
<1>1. Distinct(recency)' /\ \A b \in BufId : InList(recency, b)' <=> InList(recency, b)
  BY DEF RecencyOK, Distinct, InList
<1> QED BY <1>1 DEF RecencyOK

(* The buffer that is created or used goes to the front of the others.     *)
LEMMA RecencyPrepend ==
  ASSUME NEW b \in BufId, NEW rest \in Seq(BufId), Distinct(rest), ~InList(rest, b),
         \A c \in BufId : c \in Live' <=> InList(rest, c) \/ c = b,
         recency' = ListPrepend(rest, b), cur' = b
  PROVE  RecencyOK'
<1>1. /\ recency' \in Seq(BufId)
      /\ Distinct(recency')
      /\ \A c : InList(recency', c) <=> InList(rest, c) \/ c = b
  <2>1. /\ ListPrepend(rest, b) \in Seq(BufId)
        /\ Distinct(ListPrepend(rest, b))
        /\ \A c : InList(ListPrepend(rest, b), c) <=> InList(rest, c) \/ c = b
    BY ListPrependOrder
  <2> QED BY <2>1, Zenon
<1>2. Distinct(recency)' /\ \A c \in BufId : InList(recency, c)' <=> c \in Live'
  BY <1>1 DEF Distinct, InList
<1>3. Len(recency') = Len(rest) + 1 /\ recency'[1] = b
  <2>1. /\ Len(ListPrepend(rest, b)) = Len(rest) + 1
        /\ \A j \in 1..Len(rest) + 1 :
             ListPrepend(rest, b)[j] = IF j = 1 THEN b ELSE rest[j - 1]
    BY DEF ListPrepend
  <2>2. 1 \in 1..Len(rest) + 1
    OBVIOUS
  <2> QED BY <2>1, <2>2
<1>4. recency' # <<>> /\ Head(recency') = b
  BY <1>1, <1>3
<1> QED BY <1>1, <1>2, <1>4 DEF RecencyOK

(* A buffer enters the order when it is created, and moves up when it is   *)
(* used.                                                                   *)
LEMMA RecencyInv == IInv /\ RecencyOK /\ [Next]_vars => RecencyOK'
<1> SUFFICES ASSUME IInv, RecencyOK, [Next]_vars PROVE RecencyOK'
  OBVIOUS
<1>1. ASSUME NEW b \in BufId, UnknownId(b) \/ CreateExisting(b) PROVE RecencyOK'
  BY <1>1, RecencyFrame DEF UnknownId, CreateExisting, Raise, Idle, pool, Live
<1>2. ASSUME NEW b \in BufId, NEW s \in Sizes, NEW u \in BOOLEAN, Create(b, s, u)
      PROVE  RecencyOK'
  <2>1. Live' = Live \cup {b} /\ b \notin Live
    BY <1>2 DEF Create, Live
  <2>2. recency' = ListPrepend(recency, b) /\ cur' = b
    BY <1>2 DEF Create, Start
  <2>3. \A c \in BufId : c \in Live' <=> InList(recency, c) \/ c = b
    BY <2>1 DEF RecencyOK
  <2>4. ~InList(recency, b)
    BY <2>1 DEF RecencyOK
  <2> QED BY <2>2, <2>3, <2>4, RecencyPrepend DEF RecencyOK
<1>3. ASSUME NEW b \in BufId, Destroy(b) PROVE RecencyOK'
  <2>1. /\ Live' = Live \ {b} /\ b \in Live
        /\ recency' = ListRemove(recency, b) /\ pc' = "idle"
    BY <1>3 DEF Destroy, Live, AtCommand
  <2>2. InList(recency, b)
    BY <2>1 DEF RecencyOK
  <2>3. /\ recency' \in Seq(BufId)
        /\ Distinct(recency')
        /\ \A c : InList(recency', c) <=> InList(recency, c) /\ c # b
    BY <2>1, <2>2, ListRemoveOrder, Zenon DEF RecencyOK
  <2>4. Distinct(recency)' /\ \A c \in BufId : InList(recency, c)' <=> c \in Live'
    BY <2>1, <2>3 DEF Distinct, InList, RecencyOK
  <2> QED BY <2>1, <2>3, <2>4 DEF RecencyOK
<1>4. ASSUME NEW b \in BufId,
             \/ AddUsecnt(b) \/ RemoveUsecnt(b)
             \/ \E m \in {"willneed", "dontneed"} : Madv(b, m)
      PROVE  RecencyOK'
  <2>1. Live' = Live /\ UNCHANGED recency
    BY <1>4 DEF AddUsecnt, RemoveUsecnt, Madv, Live
  <2>2. pc' = "idle"
    BY <1>4 DEF AddUsecnt, RemoveUsecnt, Madv, AtCommand, Raise, Idle
  <2> QED BY <2>1, <2>2, RecencyFrame
<1>5. ASSUME NEW b \in BufId, Use(b) PROVE RecencyOK'
  <2>1. b \in Live /\ Live' = Live
    BY <1>5 DEF Use, pool, Live
  <2>2. CASE buffers[b].madv # "willneed"
    BY <1>5, <2>1, <2>2, RecencyFrame DEF Use, Raise, Idle
  <2>3. CASE buffers[b].madv = "willneed"
    <3> DEFINE rest == ListRemove(recency, b)
    <3>1. recency' = ListPrepend(rest, b) /\ cur' = b
      BY <1>5, <2>3 DEF Use, Start
    <3>2. InList(recency, b)
      BY <2>1 DEF RecencyOK
    <3>3. /\ rest \in Seq(BufId) /\ Distinct(rest)
          /\ \A c : InList(rest, c) <=> InList(recency, c) /\ c # b
      BY <3>2, ListRemoveOrder, Zenon DEF RecencyOK
    <3> HIDE DEF rest
    <3>4. \A c \in BufId : c \in Live' <=> InList(rest, c) \/ c = b
      BY <2>1, <3>3 DEF RecencyOK
    <3> QED BY <3>1, <3>3, <3>4, RecencyPrepend
  <2> QED BY <2>2, <2>3
<1>6. CASE PageIn
  <2>1. UNCHANGED recency /\ pc # "idle"
    BY <1>6 DEF PageIn, Insert, StartPurge, PurgeOne, EndPurge, PageOutLru, Touch
  <2>2. DOMAIN buffers' = DOMAIN buffers
    BY <1>6 DEF PageIn, Insert, InsertBufferAt, StartPurge, PurgeOne, EndPurge,
                PageOutLru, RemoveFromPool, Touch, pool
  <2>3. pc' = "idle" \/ cur' = cur
    BY <1>6 DEF PageIn, Insert, StartPurge, PurgeOne, EndPurge, PageOutLru, Touch,
                Goto, Idle, Raise
  <2> QED BY <2>1, <2>2, <2>3, RecencyFrame DEF Live
<1>7. CASE UNCHANGED vars
  <2>1. \A c \in BufId : InList(recency, c)' <=> InList(recency, c)
    BY <1>7 DEF vars, InList
  <2> QED BY <1>7, <2>1 DEF vars, RecencyOK, Distinct, Live
<1> QED BY <1>1, <1>2, <1>3, <1>4, <1>5, <1>6, <1>7 DEF Next, Command

-----------------------------------------------------------------------------
(* What the purge loop has passed has been looked at, and stays so while   *)
(* others are taken out of the list; when the loop is over, that is all.   *)
Past(k) == pc = "retry" \/ (pc = "purge" /\ k < i)
PurgePast == \A k \in 1..Len(offset_list) : Past(k) => ~Purgeable(offset_list[k])

(* Taking a buffer out of the pool leaves those in front of its place in   *)
(* offset_list where they were, and brings no others.                      *)
LEMMA RemovedFromOffsetList ==
  ASSUME IInv, NEW m \in 1..Len(offset_list), RemoveFromPool(offset_list[m])
  PROVE  /\ Len(offset_list') = Len(offset_list) - 1
         /\ \A k \in 1..Len(offset_list') :
              /\ k < m => /\ offset_list'[k] = offset_list[k]
                          /\ Purgeable(offset_list[k])' = Purgeable(offset_list[k])
              /\ \E j \in 1..Len(offset_list) :
                   /\ offset_list'[k] = offset_list[j]
                   /\ Purgeable(offset_list[k])' = Purgeable(offset_list[j])
<1> DEFINE l == offset_list
           b == l[m]
<1>1. /\ l \in Seq(BufId) /\ b \in BufId /\ InPool(b)
      /\ \A j \in 1..Len(l) : l[j] \in Live
  BY DEF IInv, TypeOK, LayoutOK, InList, InPool
<1>2. \A j, k \in 1..Len(l) : j # k => l[j] # l[k]
  BY DEF IInv, LayoutOK, Distinct
<1>3. l' = ListRemove(l, b)
  BY DEF RemoveFromPool
<1>4. \A c \in Live : c # b => buffers'[c] = buffers[c]
  BY <1>1, RemoveFromPoolKeeps DEF IInv
<1> HIDE DEF b
<1>5. \E k \in 1..Len(l) : l[k] = b
  BY DEF b
<1>6. PICK k \in 1..Len(l) :
        /\ l[k] = b
        /\ l' \in Seq(BufId) /\ Len(l') = Len(l) - 1
        /\ \A j \in 1..Len(l) - 1 : l'[j] = IF j < k THEN l[j] ELSE l[j + 1]
  <2>1. \E k \in 1..Len(l) :
          /\ l[k] = b
          /\ ListRemove(l, b) \in Seq(BufId)
          /\ Len(ListRemove(l, b)) = Len(l) - 1
          /\ \A j \in 1..Len(l) - 1 :
               ListRemove(l, b)[j] = IF j < k THEN l[j] ELSE l[j + 1]
    BY <1>1, <1>5, ListRemoveItems
  <2> QED BY <2>1, <1>3
<1>7. k = m
  BY <1>2, <1>6 DEF b
<1>8. ASSUME NEW j \in 1..Len(l') PROVE
        LET q == IF j < m THEN j ELSE j + 1
        IN  q \in 1..Len(l) /\ l'[j] = l[q] /\ l[q] # b
  <2>1. Len(l) \in Nat /\ j \in 1..Len(l) - 1
    BY <1>1, <1>6
  <2> DEFINE q == IF j < m THEN j ELSE j + 1
  <2>2. q \in 1..Len(l) /\ q # m
    BY <2>1
  <2> QED BY <2>1, <2>2, <1>2, <1>6, <1>7 DEF b
<1>9. ASSUME NEW j \in 1..Len(l), NEW q \in 1..Len(l'), l'[q] = l[j], l[j] # b
      PROVE  Purgeable(offset_list[q])' = Purgeable(offset_list[j])
  BY <1>1, <1>4, <1>9 DEF Purgeable, Pinned
<1> HIDE DEF l
<1>10. ASSUME NEW q \in 1..Len(l')
       PROVE  /\ q < m => l'[q] = l[q] /\ q \in 1..Len(l) /\ l[q] # b
              /\ \E j \in 1..Len(l) : l'[q] = l[j] /\ l[j] # b
  BY <1>8
<1> QED BY <1>6, <1>9, <1>10 DEF l

(* What the purge loop has passed stays unpurgeable while it goes on.      *)
LEMMA PurgePastInv == IInv /\ PurgePast /\ [Next]_vars => PurgePast'
<1> SUFFICES ASSUME IInv, PurgePast, [Next]_vars PROVE PurgePast'
  OBVIOUS
<1>1. ASSUME pc' \notin {"purge", "retry"} PROVE PurgePast'
  BY <1>1 DEF PurgePast, Past
<1>2. ASSUME NEW b \in BufId, Command(b) PROVE pc' \notin {"purge", "retry"}
  BY <1>2 DEF Command, UnknownId, Create, CreateExisting, Destroy, AddUsecnt,
              RemoveUsecnt, Madv, Use, Raise, Idle, Start, AtCommand
<1>3. Insert \/ Touch => pc' \notin {"purge", "retry"}
  BY DEF Insert, Touch, Goto, Idle
<1>4. CASE StartPurge
  <2>1. pc' = "purge" /\ i' = 1 /\ UNCHANGED offset_list
    BY <1>4 DEF StartPurge, Goto, pool
  <2> QED BY <2>1 DEF PurgePast, Past
<1>5. CASE EndPurge
  <2>1. /\ pc = "purge" /\ i > Len(offset_list)
        /\ UNCHANGED <<offset_list, buffers>>
    BY <1>5 DEF EndPurge, pool
  <2>2. \A k \in 1..Len(offset_list) : Past(k)
    BY <2>1 DEF Past, IInv, TypeOK
  <2> QED BY <2>1, <2>2 DEF PurgePast, Purgeable, Pinned
<1>6. CASE PurgeOne
  <2>1. pc = "purge" /\ pc' = "purge" /\ i \in 1..Len(offset_list)
    BY <1>6 DEF PurgeOne, IInv, TypeOK
  <2>2. CASE Purgeable(offset_list[i])
    <3>1. RemoveFromPool(offset_list[i]) /\ i' = i
      BY <1>6, <2>2 DEF PurgeOne
    <3>2. /\ Len(offset_list') = Len(offset_list) - 1
          /\ \A k \in 1..Len(offset_list') :
               k < i => /\ offset_list'[k] = offset_list[k]
                        /\ Purgeable(offset_list[k])' = Purgeable(offset_list[k])
      BY <2>1, <3>1, RemovedFromOffsetList
    <3>3. \A k \in 1..Len(offset_list') : Past(k)' => k \in 1..Len(offset_list) /\ Past(k) /\ k < i
      BY <2>1, <3>1, <3>2 DEF Past, IInv, TypeOK
    <3> QED BY <3>2, <3>3 DEF PurgePast
  <2>3. CASE ~Purgeable(offset_list[i])
    <3>1. i' = i + 1 /\ UNCHANGED <<offset_list, buffers>>
      BY <1>6, <2>3 DEF PurgeOne, pool
    <3>2. \A k \in 1..Len(offset_list) : Past(k)' => Past(k) \/ k = i
      BY <2>1, <3>1 DEF Past
    <3> QED BY <2>3, <3>1, <3>2 DEF PurgePast, Purgeable, Pinned
  <2> QED BY <2>2, <2>3
<1>7. CASE PageOutLru
  <2>1. CASE Raise("Exception")
    BY <1>1, <2>1 DEF Raise, Idle
  <2>2. CASE Unpinned # {} /\ RemoveFromPool(mru_list[LruPlace])
    <3>1. pc = "retry"
      BY <1>7 DEF PageOutLru
    <3>2. LruPlace \in 1..Len(mru_list)
      BY <2>2, LruPlaceFound DEF IInv
    <3>3. PICK m \in 1..Len(offset_list) : offset_list[m] = mru_list[LruPlace]
      BY <3>2 DEF IInv, TypeOK, ListsAgree, InList
    <3>4. \A k \in 1..Len(offset_list') : \E j \in 1..Len(offset_list) :
            Purgeable(offset_list[k])' = Purgeable(offset_list[j])
      BY <2>2, <3>3, RemovedFromOffsetList
    <3> QED BY <3>1, <3>4 DEF PurgePast, Past
  <2> QED BY <1>7, <2>1, <2>2 DEF PageOutLru
<1>8. CASE UNCHANGED vars
  BY <1>8 DEF vars, PurgePast, Past, Purgeable, Pinned
<1> QED BY <1>1, <1>2, <1>3, <1>4, <1>5, <1>6, <1>7, <1>8 DEF Next, PageIn

-----------------------------------------------------------------------------
(* mru_list is in the order of recency, but for a buffer of the pool that  *)
(* has been used and not yet been moved to the front.                      *)
Moved(b) == pc = "touch" => b # cur
MruOrder ==
  \A v, w \in BufId :
    Before(mru_list, v, w) /\ Moved(v) /\ Moved(w) => Before(recency, v, w)

(* Only items of a list come before each other.                            *)
LEMMA BeforeInList == \A s, v, w : Before(s, v, w) => InList(s, v) /\ InList(s, w)
BY Zenon DEF Before, InList

(* The same relation in the next state.                                    *)
LEMMA BeforePrimed ==
  /\ \A v, w : Before(recency, v, w)' <=> Before(recency', v, w)
  /\ \A v, w : Before(mru_list, v, w)' <=> Before(mru_list', v, w)
BY Zenon DEF Before

(* mru_list holds buffers of the pool, and recency starts with cur.        *)
LEMMA MruFacts ==
  ASSUME IInv, RecencyOK
  PROVE  /\ \A b \in BufId : InList(mru_list, b) <=> InPool(b)
         /\ mru_list \in Seq(BufId) /\ Distinct(mru_list)
         /\ \A w \in BufId : /\ pc # "idle" /\ w \in Live /\ w # cur
                             => Before(recency, cur, w)
<1>1. /\ \A b \in BufId : InList(mru_list, b) <=> InPool(b)
      /\ mru_list \in Seq(BufId) /\ Distinct(mru_list)
  BY DEF IInv, TypeOK, ListsAgree, LayoutOK
<1>2. ASSUME NEW w \in BufId, pc # "idle", w \in Live, w # cur
      PROVE  Before(recency, cur, w)
  <2>1. recency \in Seq(BufId) /\ recency # <<>> /\ Head(recency) = cur
    BY <1>2 DEF RecencyOK
  <2>2. 1 \in 1..Len(recency) /\ recency[1] = cur
    BY <2>1
  <2>3. PICK k \in 1..Len(recency) : recency[k] = w
    BY <1>2, Zenon DEF RecencyOK, InList
  <2>4. k # 1
    BY <1>2, <2>2, <2>3
  <2>5. 1 < k
    BY <2>1, <2>4
  <2> QED BY <2>2, <2>3, <2>5, Zenon DEF Before
<1> QED BY <1>1, <1>2

(* A list that only loses items keeps the order of uses.                   *)
LEMMA MruOrderFrame ==
  ASSUME MruOrder, pc # "touch",
         \A v, w \in BufId : Before(mru_list, v, w)' => Before(mru_list, v, w),
         \A v, w \in BufId :
           Before(mru_list, v, w)' /\ Before(recency, v, w) => Before(recency, v, w)'
  PROVE  MruOrder'
BY DEF MruOrder, Moved

(* Commands move a buffer in both orders or in none.                       *)
LEMMA MruOrderCommand ==
  ASSUME IInv, RecencyOK, MruOrder, NEW b \in BufId, Command(b)
  PROVE  MruOrder'
<1>1. pc = "idle"
  BY DEF Command, UnknownId, Create, CreateExisting, Destroy, AddUsecnt,
         RemoveUsecnt, Madv, Use, AtCommand
<1>2. CASE UNCHANGED <<mru_list, recency>>
  BY <1>1, <1>2, MruOrderFrame DEF Before
<1>3. ASSUME NEW s \in Sizes, NEW u \in BOOLEAN, Create(b, s, u) PROVE MruOrder'
  <2>1. b \notin Live /\ recency' = ListPrepend(recency, b) /\ UNCHANGED mru_list
    BY <1>3 DEF Create
  <2>2. ~InList(recency, b)
    BY <2>1 DEF RecencyOK
  <2>3. \A v, w : Before(recency, v, w) => Before(ListPrepend(recency, b), v, w)
    BY <2>2, ListPrependOrder DEF RecencyOK
  <2>4. \A v, w : Before(recency, v, w) => Before(recency, v, w)'
    BY <2>1, <2>3, BeforePrimed
  <2>5. \A v, w : Before(mru_list, v, w)' => Before(mru_list, v, w)
    BY <2>1 DEF Before
  <2> QED BY <1>1, <2>4, <2>5, MruOrderFrame
<1>4. CASE Destroy(b)
  <2>1. b \in Live /\ recency' = ListRemove(recency, b)
    BY <1>4 DEF Destroy
  <2>2. InList(recency, b)
    BY <2>1 DEF RecencyOK
  <2>3. \A v, w : Before(recency, v, w) /\ v # b /\ w # b
                  => Before(ListRemove(recency, b), v, w)
    BY <2>2, ListRemoveOrder, Zenon DEF RecencyOK
  <2>4. \A v, w : Before(recency, v, w) /\ v # b /\ w # b => Before(recency, v, w)'
    BY <2>1, <2>3, BeforePrimed
  <2>5. \A v, w \in BufId : Before(mru_list, v, w)' =>
          Before(mru_list, v, w) /\ v # b /\ w # b
    <3>1. CASE PagedIn(b)
      <4>1. mru_list' = ListRemove(mru_list, b) /\ InList(mru_list, b)
        BY <1>4, <2>1, <3>1, MruFacts DEF Destroy, InPool
      <4>2. \A v, w : Before(ListRemove(mru_list, b), v, w) =>
              Before(mru_list, v, w) /\ v # b /\ w # b
        BY <4>1, MruFacts, ListRemoveOrder, Zenon
      <4> QED BY <4>1, <4>2, BeforePrimed
    <3>2. CASE ~PagedIn(b)
      <4>1. UNCHANGED mru_list /\ ~InList(mru_list, b)
        BY <1>4, <3>2, MruFacts DEF Destroy, InPool
      <4>2. \A v, w : Before(mru_list, v, w)' => Before(mru_list, v, w)
        BY <4>1 DEF Before
      <4>3. \A v, w : Before(mru_list, v, w) => v # b /\ w # b
        BY <4>1, BeforeInList, Zenon
      <4> QED BY <4>2, <4>3
    <3> QED BY <3>1, <3>2
  <2> QED BY <1>1, <2>4, <2>5, MruOrderFrame
<1>5. CASE Use(b) /\ buffers[b].madv = "willneed"
  <2> DEFINE rest == ListRemove(recency, b)
  <2>1. /\ b \in Live /\ UNCHANGED mru_list
        /\ recency' = ListPrepend(rest, b)
        /\ cur' = b /\ pc' = IF PagedIn(b) THEN "touch" ELSE "first"
    BY <1>5 DEF Use, Start, pool
  <2>2. InList(recency, b)
    BY <2>1 DEF RecencyOK
  <2>3. /\ rest \in Seq(BufId) /\ Distinct(rest) /\ ~InList(rest, b)
        /\ \A v, w : Before(recency, v, w) /\ v # b /\ w # b => Before(rest, v, w)
    BY <2>2, ListRemoveOrder, Zenon DEF RecencyOK
  <2>4. \A v, w : Before(rest, v, w) => Before(ListPrepend(rest, b), v, w)
    BY <2>3, ListPrependOrder
  <2> HIDE DEF rest
  <2>5. \A v, w : Before(recency, v, w) /\ v # b /\ w # b => Before(recency, v, w)'
    BY <2>1, <2>3, <2>4, BeforePrimed
  <2>6. \A v, w : Before(mru_list, v, w)' => Before(mru_list, v, w)
    BY <2>1 DEF Before
  <2>7. \A v, w : Before(mru_list, v, w) /\ Moved(v)' /\ Moved(w)' => v # b /\ w # b
    <3>1. CASE PagedIn(b)
      BY <2>1, <3>1 DEF Moved
    <3>2. CASE ~PagedIn(b)
      <4>1. ~InList(mru_list, b)
        BY <3>2, MruFacts DEF InPool
      <4> QED BY <4>1, BeforeInList, Zenon
    <3> QED BY <3>1, <3>2
  <2> QED BY <1>1, <2>5, <2>6, <2>7 DEF MruOrder, Moved
<1>6. ASSUME \/ UnknownId(b) \/ CreateExisting(b) \/ AddUsecnt(b) \/ RemoveUsecnt(b)
             \/ \E m \in {"willneed", "dontneed"} : Madv(b, m)
             \/ Use(b) /\ buffers[b].madv # "willneed"
      PROVE  UNCHANGED <<mru_list, recency>>
  BY <1>6 DEF UnknownId, CreateExisting, AddUsecnt, RemoveUsecnt, Madv, Use, pool
<1> QED BY <1>2, <1>3, <1>4, <1>5, <1>6 DEF Command

(* mru_list stays in the order of uses.                                    *)
LEMMA MruOrderInv == IInv /\ RecencyOK /\ MruOrder /\ [Next]_vars => MruOrder'
<1> SUFFICES ASSUME IInv, RecencyOK, MruOrder, [Next]_vars PROVE MruOrder'
  OBVIOUS
<1>1. CASE UNCHANGED vars
  BY <1>1 DEF vars, MruOrder, Moved, Before
<1>2. CASE UNCHANGED <<mru_list, recency>> /\ pc # "touch"
  BY <1>2, MruOrderFrame DEF Before
<1>3. CASE Insert
  <2>1. /\ pc \in {"first", "retry"} /\ cur \in BufId /\ cur \in Live /\ ~PagedIn(cur)
        /\ UNCHANGED recency /\ mru_list' = ListPrepend(mru_list, cur)
    BY <1>3 DEF Insert, InsertBufferAt, IInv, TypeOK, SearchState
  <2>2. ~InList(mru_list, cur)
    BY <2>1, MruFacts DEF InPool
  <2>3. \A v, w : Before(ListPrepend(mru_list, cur), v, w) =>
          Before(mru_list, v, w) \/ (v = cur /\ InList(mru_list, w))
    BY <2>1, <2>2, MruFacts, ListPrependOrder
  <2>4. \A v, w : Before(mru_list, v, w)' =>
          Before(mru_list, v, w) \/ (v = cur /\ InList(mru_list, w))
    BY <2>1, <2>3, BeforePrimed
  <2>5. \A w \in BufId : InList(mru_list, w) => Before(recency, cur, w)
    BY <2>1, <2>2, MruFacts DEF InPool
  <2>6. \A v, w : Before(recency, v, w) => Before(recency, v, w)'
    BY <2>1 DEF Before
  <2> QED BY <2>1, <2>4, <2>5, <2>6 DEF MruOrder, Moved
<1>4. ASSUME NEW b \in BufId, InPool(b), RemoveFromPool(b), UNCHANGED recency, pc # "touch"
      PROVE  MruOrder'
  <2>1. mru_list' = ListRemove(mru_list, b) /\ InList(mru_list, b)
    BY <1>4, MruFacts DEF RemoveFromPool
  <2>2. \A v, w : Before(ListRemove(mru_list, b), v, w) => Before(mru_list, v, w)
    BY <2>1, MruFacts, ListRemoveOrder, Zenon
  <2>3. \A v, w : Before(mru_list, v, w)' => Before(mru_list, v, w)
    BY <2>1, <2>2, BeforePrimed
  <2> QED BY <1>4, <2>3, MruOrderFrame DEF Before
<1>5. CASE PurgeOne
  <2>1. pc # "touch" /\ UNCHANGED recency /\ i \in 1..Len(offset_list)
    BY <1>5 DEF PurgeOne, IInv, TypeOK
  <2>2. CASE Purgeable(offset_list[i])
    <3>1. offset_list[i] \in BufId /\ InPool(offset_list[i])
      BY <2>1 DEF IInv, TypeOK, LayoutOK, InList
    <3> QED BY <1>4, <1>5, <2>1, <2>2, <3>1 DEF PurgeOne
  <2>3. CASE ~Purgeable(offset_list[i])
    BY <1>2, <1>5, <2>1, <2>3 DEF PurgeOne, pool
  <2> QED BY <2>2, <2>3
<1>6. CASE PageOutLru
  <2>1. pc # "touch" /\ UNCHANGED recency
    BY <1>6 DEF PageOutLru
  <2>2. CASE UNCHANGED pool
    BY <1>2, <2>1, <2>2 DEF pool
  <2>3. CASE Unpinned # {} /\ RemoveFromPool(mru_list[LruPlace])
    <3>1. LruPlace \in 1..Len(mru_list)
      BY <2>3, LruPlaceFound DEF IInv
    <3>2. mru_list[LruPlace] \in BufId /\ InPool(mru_list[LruPlace])
      BY <3>1 DEF IInv, TypeOK, LayoutOK, ListsAgree, InList
    <3> QED BY <1>4, <2>1, <2>3, <3>2
  <2> QED BY <1>6, <2>2, <2>3 DEF PageOutLru
<1>7. CASE Touch
  <2> DEFINE rest == ListRemove(mru_list, cur)
  <2>1. /\ pc = "touch" /\ pc' = "idle" /\ cur \in BufId /\ cur \in Live /\ PagedIn(cur)
        /\ UNCHANGED recency /\ mru_list' = ListPrepend(rest, cur)
    BY <1>7 DEF Touch, Idle, IInv, TypeOK, SearchState
  <2>2. InList(mru_list, cur)
    BY <2>1, MruFacts DEF InPool
  <2>3. /\ rest \in Seq(BufId) /\ Distinct(rest)
        /\ \A w : InList(rest, w) <=> InList(mru_list, w) /\ w # cur
        /\ \A v, w : Before(rest, v, w) => Before(mru_list, v, w) /\ v # cur /\ w # cur
    BY <2>2, MruFacts, ListRemoveOrder, Zenon
  <2> HIDE DEF rest
  <2>4. \A v, w : Before(ListPrepend(rest, cur), v, w) =>
          Before(rest, v, w) \/ (v = cur /\ InList(rest, w))
    BY <2>1, <2>3, ListPrependOrder
  <2>5. \A v, w : Before(mru_list, v, w)' =>
          Before(rest, v, w) \/ (v = cur /\ InList(rest, w))
    BY <2>1, <2>4, BeforePrimed
  <2>6. \A w \in BufId : InList(rest, w) => Before(recency, cur, w)
    BY <2>1, <2>3, MruFacts DEF InPool
  <2>7. \A v, w : Before(recency, v, w) => Before(recency, v, w)'
    BY <2>1 DEF Before
  <2> QED BY <2>1, <2>3, <2>5, <2>6, <2>7 DEF MruOrder, Moved
<1>8. StartPurge \/ EndPurge => UNCHANGED <<mru_list, recency>> /\ pc # "touch"
  BY DEF StartPurge, EndPurge, pool
<1> QED BY <1>1, <1>2, <1>3, <1>5, <1>6, <1>7, <1>8, MruOrderCommand DEF Next, PageIn

-----------------------------------------------------------------------------
(* The empty pool.                                                         *)
LEMMA InitPageIn == Init => RecencyOK /\ PurgePast /\ MruOrder /\ GivesUpOnlyWhenPinned
<1> SUFFICES ASSUME Init PROVE RecencyOK /\ PurgePast /\ MruOrder /\ GivesUpOnlyWhenPinned
  OBVIOUS
<1>1. /\ Live = {} /\ pc = "idle" /\ raised = "none"
      /\ recency \in Seq(BufId) /\ Len(recency) = 0 /\ Len(mru_list) = 0
  BY DEF Init, Live
<1>2. RecencyOK
  BY <1>1 DEF RecencyOK, Distinct, InList
<1>3. PurgePast /\ GivesUpOnlyWhenPinned
  BY <1>1 DEF PurgePast, Past, GivesUpOnlyWhenPinned
<1>4. MruOrder
  BY <1>1 DEF MruOrder, Before
<1> QED BY <1>2, <1>3, <1>4

(* After the exception nothing moves; at it, no buffer could have gone and *)
(* there is no gap, hence no place, for the one wanted.                    *)
LEMMA GivesUpInv ==
  IInv /\ RecencyOK /\ GivesUpOnlyWhenPinned /\ [Next]_vars => GivesUpOnlyWhenPinned'
<1> SUFFICES ASSUME IInv, RecencyOK, GivesUpOnlyWhenPinned, [Next]_vars,
                    raised' = "Exception"
             PROVE  GivesUpOnlyWhenPinned'
  BY DEF GivesUpOnlyWhenPinned
<1>1. CASE UNCHANGED vars
  BY <1>1 DEF vars, GivesUpOnlyWhenPinned, Live, PagedIn, Pinned, Off, End
<1>2. ASSUME NEW b \in BufId, Command(b) PROVE FALSE
  BY <1>2 DEF Command, UnknownId, Create, CreateExisting, Destroy, AddUsecnt,
              RemoveUsecnt, Madv, Use, Raise, AtCommand
<1>3. ~(Insert \/ StartPurge \/ PurgeOne \/ EndPurge \/ Touch)
  BY DEF Insert, StartPurge, PurgeOne, EndPurge, Touch
<1>4. CASE PageOutLru
  <2>1. /\ Unpinned = {} /\ FittingGaps(cur) = {} /\ pc = "retry"
        /\ UNCHANGED <<buffers, recency>>
    BY <1>4 DEF PageOutLru, pool
  <2>2. /\ cur \in Live /\ cur \in BufId /\ ~PagedIn(cur) /\ Head(recency) = cur
    BY <2>1 DEF IInv, TypeOK, SearchState, RecencyOK
  <2>3. \A b \in Live : PagedIn(b) => Pinned(b)
    <3> SUFFICES ASSUME NEW b \in Live, PagedIn(b) PROVE Pinned(b)
      OBVIOUS
    <3>1. b \in BufId
      BY DEF IInv, TypeOK
    <3>2. InList(mru_list, b)
      BY <3>1, MruFacts DEF InPool
    <3>3. PICK k \in 1..Len(mru_list) : mru_list[k] = b
      BY <3>2, Zenon DEF InList
    <3> QED BY <2>1, <3>3 DEF Unpinned
  <2>4. ASSUME NEW p \in 0..PoolSize - buffers[cur].size
        PROVE  \E c \in Live : PagedIn(c) /\ Off(c) < p + buffers[cur].size /\ p < End(c)
    <3> SUFFICES ASSUME \A c \in Live : PagedIn(c) =>
                          ~(Off(c) < p + buffers[cur].size /\ p < End(c))
                 PROVE  FALSE
      OBVIOUS
    <3>1. buffers[cur].size \in Nat /\ PoolSize \in Nat
      BY <2>2, BufferNumbers, ConstantsOK DEF IInv
    <3>2. p \in Nat /\ p + buffers[cur].size <= PoolSize
      BY <3>1
    <3>3. ASSUME NEW c \in BufId, InPool(c)
          PROVE  End(c) <= p \/ p + buffers[cur].size <= Off(c)
      <4>1. Off(c) \in Nat /\ End(c) \in Nat
        BY <3>3, BufferNumbers DEF IInv
      <4> QED BY <3>1, <3>3, <4>1 DEF InPool
    <3> QED BY <2>1, <2>2, <3>2, <3>3, FreePlaceIsInGap DEF IInv
  <2>5. /\ \A b \in Live : PagedIn(b) => Pinned(b)
        /\ \E b \in Live :
             /\ b = Head(recency) /\ ~PagedIn(b)
             /\ \A p \in 0..PoolSize - buffers[b].size : \E c \in Live :
                  PagedIn(c) /\ Off(c) < p + buffers[b].size /\ p < End(c)
    BY <2>2, <2>3, <2>4
  <2> QED BY <2>1, <2>5 DEF GivesUpOnlyWhenPinned, Live, PagedIn, Pinned, Off, End
<1> QED BY <1>1, <1>2, <1>3, <1>4 DEF Next, PageIn

(* The invariant of page-in. *)
PInv == IInv /\ RecencyOK /\ PurgePast /\ MruOrder /\ GivesUpOnlyWhenPinned

(* In every state of page-in the history of uses is that of mru_list, what *)
(* the purge loop has passed needs no purging, and a failure is justified. *)
THEOREM PageInInvariant == Spec => []PInv
<1>1. Init => PInv
  BY InitInv, InitPageIn DEF PInv
<1>2. PInv /\ [Next]_vars => PInv'
  BY NextInv, RecencyInv, PurgePastInv, MruOrderInv, GivesUpInv DEF PInv
<1> QED BY <1>1, <1>2, PTL DEF Spec

(* The purge loop misses no purgeable buffer, although it removes from the *)
(* list it walks.                                                          *)
THEOREM PurgeFirstCorrect == Spec => []PurgeFirst
<1>1. PInv => PurgeFirst
  <2> SUFFICES ASSUME PInv, pc = "retry", NEW b \in Live, PagedIn(b)
               PROVE  ~Purgeable(b)
    BY DEF PurgeFirst
  <2>1. b \in BufId /\ InPool(b)
    BY DEF PInv, IInv, TypeOK, InPool
  <2>2. PICK k \in 1..Len(offset_list) : offset_list[k] = b
    BY <2>1, Zenon DEF PInv, IInv, LayoutOK, InList
  <2> QED BY <2>2 DEF PInv, PurgePast, Past
<1> QED BY <1>1, PageInInvariant, PTL

(* The exception of _page_in_buffer is raised only when no buffer of the   *)
(* pool may leave it and first-fit has overlooked no place.                *)
THEOREM GivesUpCorrect == Spec => []GivesUpOnlyWhenPinned
<1>1. PInv => GivesUpOnlyWhenPinned
  BY DEF PInv
<1> QED BY <1>1, PageInInvariant, PTL

(* The buffer that is paged out is, of those that may be, the one that was *)
(* created or used longest ago.                                            *)
THEOREM EvictsLruCorrect == Spec => EvictsLru
<1>1. PInv /\ [Next]_vars =>
        [pc = "retry" =>
           \A v, w \in Live \cap DOMAIN buffers' :
             /\ PagedIn(v) /\ buffers'[v].offset = None
             /\ PagedIn(w) /\ ~Pinned(w) /\ w # v
             => Before(recency, w, v)]_vars
  <2> SUFFICES ASSUME PInv, Next, pc = "retry",
                      NEW v \in Live, NEW w \in Live,
                      PagedIn(v), buffers'[v].offset = None,
                      PagedIn(w), ~Pinned(w), w # v
               PROVE  Before(recency, w, v)
    OBVIOUS
  <2>1. v \in BufId /\ w \in BufId /\ InPool(v) /\ InPool(w)
    BY DEF PInv, IInv, TypeOK, InPool
  <2>2. buffers' # buffers
    BY DEF PagedIn
  <2>3. \A b \in BufId : ~Command(b)
    BY DEF Command, UnknownId, Create, CreateExisting, Destroy, AddUsecnt,
           RemoveUsecnt, Madv, Use, AtCommand
  <2>4. ~(StartPurge \/ PurgeOne \/ EndPurge \/ Touch)
    BY DEF StartPurge, PurgeOne, EndPurge, Touch
  <2>5. ~Insert
    <3> SUFFICES ASSUME Insert PROVE FALSE
      OBVIOUS
    <3>1. ~PagedIn(cur)
      BY DEF PInv, IInv, SearchState
    <3>2. buffers'[v] = buffers[v]
      BY <3>1 DEF Insert, InsertBufferAt
    <3> QED BY <3>2 DEF PagedIn
  <2>6. /\ Unpinned # {} /\ RemoveFromPool(mru_list[LruPlace])
    BY <2>2, <2>3, <2>4, <2>5 DEF Next, PageIn, PageOutLru, pool
  <2>7. mru_list[LruPlace] = v
    <3>1. v # mru_list[LruPlace] => buffers'[v] = buffers[v]
      BY <2>6 DEF RemoveFromPool
    <3> QED BY <3>1 DEF PagedIn
  <2>8. PICK k \in 1..Len(mru_list) : mru_list[k] = w
    <3>1. InList(mru_list, w)
      BY <2>1, MruFacts DEF PInv
    <3> QED BY <3>1, Zenon DEF InList
  <2>9. k <= LruPlace /\ LruPlace \in 1..Len(mru_list)
    <3>1. Len(mru_list) \in Nat /\ Unpinned \in SUBSET (1..Len(mru_list))
      BY DEF PInv, IInv, TypeOK, Unpinned
    <3>2. k \in Unpinned
      BY <2>8 DEF Unpinned
    <3> QED BY <3>1, <3>2, GreatestPlace DEF LruPlace
  <2>10. k < LruPlace
    <3>1. k # LruPlace
      BY <2>7, <2>8
    <3>2. k \in Nat /\ LruPlace \in Nat
      BY <2>9
    <3> QED BY <2>9, <3>1, <3>2
  <2>11. Before(mru_list, w, v)
    BY <2>7, <2>8, <2>9, <2>10, Zenon DEF Before
  <2> QED BY <2>1, <2>11 DEF PInv, MruOrder, Moved
<1> QED BY <1>1, PageInInvariant, PTL DEF Spec, EvictsLru

-----------------------------------------------------------------------------
(* What compaction and the driver's logs add, and BufferPool               *)

(* What a step may do to in_use: only the two commands for it change it.   *)
LEMMA InUseChanges ==
  ASSUME IInv, [Next]_vars, NEW b \in Live'
  PROVE  \/ b \notin Live /\ ~buffers'[b].in_use
         \/ b \in Live /\ buffers'[b].in_use = buffers[b].in_use
         \/ AddUsecnt(b) /\ ~buffers[b].in_use
         \/ RemoveUsecnt(b)
<1> DEFINE P == \/ b \notin Live /\ ~buffers'[b].in_use
                \/ b \in Live /\ buffers'[b].in_use = buffers[b].in_use
                \/ AddUsecnt(b) /\ ~buffers[b].in_use
                \/ RemoveUsecnt(b)
<1> SUFFICES P
  OBVIOUS
<1>0. \A c \in Live : buffers[c] \in Buffer
  BY DEF IInv, TypeOK
<1>1. CASE UNCHANGED buffers
  BY <1>1 DEF Live
<1>2. ASSUME NEW c \in BufId, NEW s \in Sizes, NEW u \in BOOLEAN, Create(c, s, u)
      PROVE  P
  BY <1>2 DEF Create, Live
<1>3. ASSUME NEW c \in BufId, Destroy(c) PROVE P
  BY <1>3 DEF Destroy, Live
<1>4. ASSUME NEW c \in BufId, NEW m \in {"willneed", "dontneed"}, Madv(c, m) PROVE P
  BY <1>0, <1>4 DEF Madv, Live, Buffer
<1>5. ASSUME NEW c \in BufId, AddUsecnt(c) PROVE P
  <2>1. CASE c = b /\ ~buffers[b].in_use
    BY <1>5, <2>1
  <2>2. CASE c # b \/ buffers[c].in_use
    BY <1>5, <2>2 DEF AddUsecnt, Live
  <2> QED BY <2>1, <2>2
<1>6. ASSUME NEW c \in BufId, RemoveUsecnt(c) PROVE P
  <2>1. CASE c # b
    BY <1>6, <2>1 DEF RemoveUsecnt, Live
  <2> QED BY <1>6, <2>1
<1>7. CASE Insert
  <2>1. buffers' = [buffers EXCEPT ![cur].offset = GapStart(Min(FittingGaps(cur)))]
    BY <1>7 DEF Insert, InsertBufferAt
  <2> QED BY <1>0, <2>1 DEF Live, Buffer
<1>8. ASSUME NEW c, RemoveFromPool(c) PROVE P
  BY <1>0, <1>8 DEF RemoveFromPool, Live, Buffer
<1>9. PurgeOne \/ PageOutLru => (\E c : RemoveFromPool(c)) \/ UNCHANGED buffers
  BY DEF PurgeOne, PageOutLru, pool
<1>10. ASSUME NEW c \in BufId, UnknownId(c) \/ CreateExisting(c) \/ Use(c)
       PROVE  UNCHANGED buffers
  BY <1>10 DEF UnknownId, CreateExisting, Use, pool
<1>11. StartPurge \/ EndPurge \/ Touch \/ UNCHANGED vars => UNCHANGED buffers
  BY DEF StartPurge, EndPurge, Touch, pool, vars
<1> HIDE DEF P
<1>12. ASSUME NEW c \in BufId, Command(c) PROVE P
  BY <1>1, <1>2, <1>3, <1>4, <1>5, <1>6, <1>10, <1>12 DEF Command
<1>13. PageIn \/ UNCHANGED vars => P
  BY <1>1, <1>7, <1>8, <1>9, <1>11 DEF PageIn
<1> QED BY <1>12, <1>13, Zenon DEF Next

(* With the driver's logs, what is in use is in the pool: add_usecnt comes *)
(* for a buffer that is there, and nothing takes it away while it is in    *)
(* use; so compaction has an offset to compare.                            *)
THEOREM InUseInPoolCorrect == ASSUME DriverLog PROVE Spec => []InUseInPool
<1>1. Init => InUseInPool
  BY DEF Init, InUseInPool, Live
<1>2. IInv /\ InUseInPool /\ [Next]_vars => InUseInPool'
  <2> SUFFICES ASSUME IInv, InUseInPool, [Next]_vars PROVE InUseInPool'
    OBVIOUS
  <2>1. ASSUME NEW b \in Live', buffers'[b].in_use PROVE PagedIn(b)'
    <3>1. CASE AddUsecnt(b) /\ ~buffers[b].in_use
      <4>1. b \in Live /\ PagedIn(b) /\ buffers[b] \in Buffer
            /\ buffers' = [buffers EXCEPT ![b].in_use = TRUE]
        BY <3>1 DEF AddUsecnt, IInv, TypeOK
      <4> QED BY <4>1 DEF PagedIn, Live, Buffer
    <3>2. CASE RemoveUsecnt(b)
      <4>1. b \in Live /\ buffers[b] \in Buffer
        BY <3>2 DEF RemoveUsecnt, IInv, TypeOK
      <4>2. ~buffers[b].in_use => UNCHANGED buffers
        BY <3>2 DEF RemoveUsecnt
      <4>3. buffers[b].in_use => ~buffers'[b].in_use
        BY <3>2, <4>1 DEF RemoveUsecnt, Live, Buffer
      <4> QED BY <2>1, <4>2, <4>3
    <3>3. CASE b \in Live /\ buffers'[b].in_use = buffers[b].in_use
      <4>1. PagedIn(b) /\ Pinned(b) /\ b \in DOMAIN buffers'
        BY <2>1, <3>3 DEF InUseInPool, Pinned, Live
      <4> QED BY <2>1, <3>3, <4>1, StepHandles DEF Handled, PagedIn, Off
    <3> QED BY <2>1, <3>1, <3>2, <3>3, InUseChanges
  <2>2. raised' # "TypeError"
    <3>1. ASSUME NEW b \in BufId, RemoveUsecnt(b) PROVE raised' # "TypeError"
      BY <3>1 DEF RemoveUsecnt, InUseInPool, Raise
    <3>2. ASSUME NEW b \in BufId, Command(b), ~RemoveUsecnt(b)
          PROVE  raised' # "TypeError"
      BY <3>2 DEF Command, UnknownId, Create, CreateExisting, Destroy, AddUsecnt,
                  Madv, Use, Raise, AtCommand
    <3>3. PageIn => raised' # "TypeError"
      BY DEF PageIn, Insert, StartPurge, PurgeOne, EndPurge, PageOutLru, Touch, Raise
    <3> QED BY <3>1, <3>2, <3>3 DEF Next, vars, InUseInPool
  <2> QED BY <2>1, <2>2 DEF InUseInPool
<1> QED BY <1>1, <1>2, PoolInvariant, PTL DEF Spec

-----------------------------------------------------------------------------
(* Where compaction leaves a buffer is the bottom of the pool or the end   *)
(* of another, also if the buffer stays where it is.                       *)
LEMMA LowerEndTouches ==
  ASSUME TypeOK, LayoutOK, NEW b \in BufId, InPool(b),
         NEW p, p = IF LowerEnd(b) < Off(b) THEN LowerEnd(b) ELSE Off(b)
  PROVE  p = 0 \/ \E c \in Live \ {b} : PagedIn(c) /\ End(c) = p
<1> DEFINE l == offset_list
           n == Len(offset_list)
           S == {k \in 1..n : \A j \in 1..k : Off(l[j]) < Off(b)}
           m == Max(S)
<1>1. n \in Nat
  BY DEF TypeOK
<1>2. \A j \in 1..n : l[j] \in BufId /\ InPool(l[j])
  BY DEF TypeOK, LayoutOK, InList
<1>3. LowerEnd(b) = IF S = {} THEN 0 ELSE End(l[m])
  BY DEF LowerEnd
<1>4. Off(b) \in Nat /\ End(b) \in Nat /\ Off(b) <= End(b)
  BY BufferNumbers DEF InPool
<1>5. CASE S = {}
  BY <1>3, <1>4, <1>5
<1>6. CASE S # {}
  <2>1. m \in S
    BY <1>1, <1>6, GreatestPlace
  <2> HIDE DEF m
  <2>2. m \in 1..n /\ Off(l[m]) < Off(b)
    BY <1>1, <2>1
  <2>3. l[m] \in Live /\ l[m] # b /\ PagedIn(l[m]) /\ l[m] \in BufId /\ InPool(l[m])
    BY <1>2, <1>4, <2>2 DEF InPool
  <2>4. End(l[m]) \in Nat /\ Off(l[m]) \in Nat
    BY <2>3, BufferNumbers
  <2>5. PICK q \in 1..n : l[q] = b
    BY DEF LayoutOK, InList
  <2>6. End(l[m]) <= Off(b)
    <3>1. q < m => End(b) <= Off(l[m])
      BY <2>2, <2>3, <2>5 DEF LayoutOK, Before
    <3>2. m < q => End(l[m]) <= Off(b)
      BY <2>2, <2>3, <2>5 DEF LayoutOK, Before
    <3>3. m < q \/ q < m
      BY <2>2, <2>3, <2>5
    <3> QED BY <1>4, <2>2, <2>4, <3>1, <3>2, <3>3
  <2>7. p = End(l[m])
    BY <1>3, <1>4, <1>6, <2>4, <2>6
  <2> QED BY <2>3, <2>7
<1> QED BY <1>5, <1>6

(* The walk of _compact_buffer goes as far as it can: a buffer that loses  *)
(* its last usecnt has no gap below it afterwards.                         *)
THEOREM CompactsSnuglyCorrect == ASSUME Compact PROVE Spec => CompactsSnugly
<1>1. IInv /\ [Next]_vars =>
        [\A b \in Live \cap DOMAIN buffers' :
           /\ buffers[b].in_use /\ ~buffers'[b].in_use /\ PagedIn(b)
           => \/ buffers'[b].offset = 0
              \/ \E c \in Live \ {b} : PagedIn(c) /\ End(c) = buffers'[b].offset]_vars
  <2> SUFFICES ASSUME IInv, [Next]_vars, NEW b \in Live, b \in DOMAIN buffers',
                      buffers[b].in_use, ~buffers'[b].in_use, PagedIn(b)
               PROVE  \/ buffers'[b].offset = 0
                      \/ \E c \in Live \ {b} : PagedIn(c) /\ End(c) = buffers'[b].offset
    OBVIOUS
  <2>1. RemoveUsecnt(b)
    BY InUseChanges DEF Live
  <2>2. b \in BufId /\ InPool(b) /\ buffers[b] \in Buffer
    BY DEF IInv, TypeOK, InPool
  <2> DEFINE p == IF LowerEnd(b) < Off(b) THEN LowerEnd(b) ELSE Off(b)
  <2>3. buffers' = [buffers EXCEPT ![b].in_use = FALSE, ![b].offset = p]
    BY <2>1 DEF RemoveUsecnt
  <2>4. p = 0 \/ \E c \in Live \ {b} : PagedIn(c) /\ End(c) = p
    BY <2>2, LowerEndTouches DEF IInv
  <2> HIDE DEF p
  <2>5. buffers'[b].offset = p
    BY <2>2, <2>3 DEF Live, Buffer
  <2> QED BY <2>4, <2>5
<1> QED BY <1>1, PoolInvariant, PTL DEF Spec, CompactsSnugly

-----------------------------------------------------------------------------
(* The refinement: what BufferPool sees of a buffer and of page-in.        *)
Seen(b) == [size |-> buffers[b].size, start |-> buffers[b].offset,
            in_use |-> buffers[b].in_use, unmoveable |-> buffers[b].unmoveable]
View == [b \in Live |-> Seen(b)]
Wanted == IF pc \in {"first", "purge", "retry"} THEN cur ELSE None
Crowded == pc \in {"purge", "retry"}

(* What the abstract pool sees of this one.                                *)
LEMMA ViewFacts ==
  /\ DOMAIN View = Live
  /\ \A b \in Live : View[b] = Seen(b)
  /\ Abstract!Live = Live
  /\ Abstract!Placed = {b \in Live : PagedIn(b)}
  /\ \A b \in Live : Abstract!Pinned(b) <=> Pinned(b)
BY DEF View, Seen, Abstract!Live, Abstract!Placed, Abstract!Pinned, PagedIn, Pinned

(* It does not see lists, and offsets only as places.                      *)
LEMMA ViewSame ==
  ASSUME Live' = Live, \A b \in Live : Seen(b)' = Seen(b)
  PROVE  View' = View
BY DEF View

(* A step of page-in or of a command that the abstract pool does not see.  *)
LEMMA Stutters ==
  ASSUME View' = View, Wanted' = Wanted, Crowded' = Crowded
  PROVE  UNCHANGED Abstract!vars
BY DEF Abstract!vars, View, Seen, Wanted, Crowded

(* A place is free in the abstract pool if no buffer of the pool has a     *)
(* part of it.                                                             *)
LEMMA FreeMeans ==
  ASSUME TypeOK, NEW b \in Live, NEW p \in Nat, NEW others \in SUBSET Live
  PROVE  Abstract!Free(p, buffers[b].size, others) <=>
           /\ p + buffers[b].size <= PoolSize
           /\ \A c \in others : End(c) <= p \/ p + buffers[b].size <= Off(c)
<1>1. p % 1 = 0
  OBVIOUS
<1>2. \A c \in others : View[c].start = Off(c) /\ View[c].start + View[c].size = End(c)
  BY DEF View, Seen, Off, End
<1> QED BY <1>1, <1>2 DEF Abstract!Free, View, Seen

(* When first-fit fails there is no free place of the size.                *)
LEMMA NoRoomMeans ==
  ASSUME TypeOK, LayoutOK, NEW b \in Live, FittingGaps(b) = {}
  PROVE  ~Abstract!HasRoom(b, {c \in Live : PagedIn(c)})
<1> SUFFICES ASSUME NEW p \in 0..PoolSize,
                    Abstract!Free(p, View[b].size, {c \in Live : PagedIn(c)})
             PROVE  FALSE
  BY DEF Abstract!HasRoom, View, Seen
<1>1. View[b].size = buffers[b].size /\ p \in Nat
  BY ConstantsOK DEF View, Seen
<1>2. /\ p + buffers[b].size <= PoolSize
      /\ \A c \in {c \in Live : PagedIn(c)} : End(c) <= p \/ p + buffers[b].size <= Off(c)
  BY <1>1, FreeMeans
<1>3. FittingGaps(b) # {}
  BY <1>1, <1>2, FreePlaceIsInGap DEF InPool
<1> QED BY <1>3

-----------------------------------------------------------------------------
(* Every command, and every step of page-in, is a step of the abstract     *)
(* pool or none.                                                           *)
AbstractStep == Abstract!Next \/ UNCHANGED Abstract!vars

(* A step that it does not see at all.                                     *)
LEMMA QuietStep ==
  ASSUME UNCHANGED buffers, Wanted' = Wanted, Crowded' = Crowded
  PROVE  AbstractStep
<1>1. View' = View
  BY DEF View, Seen, Live
<1> QED BY <1>1, Stutters DEF AbstractStep

(* Between two commands no buffer is wanted.                               *)
LEMMA BetweenCommands ==
  ASSUME pc = "idle"
  PROVE  Wanted = None /\ ~Crowded
BY DEF Wanted, Crowded

(* create_buffer is the abstract create.                                   *)
LEMMA CreateStep ==
  ASSUME IInv, NEW b \in BufId, NEW s \in Sizes, NEW u \in BOOLEAN, Create(b, s, u)
  PROVE  AbstractStep
<1>1. /\ b \notin Live /\ Live' = Live \cup {b} /\ pc = "idle"
      /\ pc' = "first" /\ cur' = b
  BY DEF Create, Start, AtCommand, Live
<1>2. \A c \in Live' : buffers'[c] =
        IF c = b THEN [size |-> s, unmoveable |-> u, offset |-> None,
                       in_use |-> FALSE, madv |-> "willneed"]
                 ELSE buffers[c]
  BY <1>1 DEF Create
<1>3. View' = [c \in Live \cup {b} |->
                 IF c = b THEN [size |-> s, start |-> None, in_use |-> FALSE,
                                unmoveable |-> u]
                          ELSE View[c]]
  <2>1. \A c \in Live : c # b /\ buffers'[c] = buffers[c]
    BY <1>1, <1>2
  <2>2. \A c \in Live : Seen(c)' = View[c]
    BY <2>1 DEF View, Seen
  <2>3. Seen(b)' = [size |-> s, start |-> None, in_use |-> FALSE, unmoveable |-> u]
    <3>1. buffers'[b] = [size |-> s, unmoveable |-> u, offset |-> None,
                         in_use |-> FALSE, madv |-> "willneed"]
      BY DEF Create
    <3> QED BY <3>1 DEF Seen
  <2>4. View' = [c \in Live' |-> Seen(c)']
    BY DEF View
  <2> QED BY <2>1, <2>2, <2>3, <2>4, <1>1
<1>4. Wanted = None /\ Wanted' = b /\ Crowded' = Crowded
  BY <1>1 DEF Wanted, Crowded
<1>5. Abstract!Create(b, s, u)
  BY <1>1, <1>3, <1>4 DEF Abstract!Create, Abstract!Live, View, Seen, Wanted, Crowded
<1> QED BY <1>5 DEF AbstractStep, Abstract!Next

(* destroy_buffer is the abstract destroy.                                 *)
LEMMA DestroyStep ==
  ASSUME IInv, NEW b \in BufId, Destroy(b)
  PROVE  AbstractStep
<1>1. /\ b \in Live /\ Live' = Live \ {b} /\ pc = "idle" /\ UNCHANGED <<pc, cur>>
      /\ \A c \in Live' : buffers'[c] = buffers[c]
  BY DEF Destroy, AtCommand, Live
<1>2. View' = [c \in Live \ {b} |-> View[c]]
  BY <1>1 DEF View, Seen
<1>3. Wanted = None /\ Wanted' = Wanted /\ Crowded' = Crowded
  BY <1>1 DEF Wanted, Crowded
<1>4. Abstract!Destroy(b)
  BY <1>1, <1>2, <1>3 DEF Abstract!Destroy, Abstract!Live, View, Seen, Wanted, Crowded
<1> QED BY <1>4 DEF AbstractStep, Abstract!Next

(* buf_add_usecnt is the abstract step of this name, or raises an          *)
(* exception.                                                              *)
LEMMA AddUsecntStep ==
  ASSUME IInv, NEW b \in BufId, AddUsecnt(b)
  PROVE  AbstractStep
<1>1. /\ b \in Live /\ pc = "idle" /\ pc' = "idle" /\ buffers[b] \in Buffer
      /\ \A c \in Live : buffers[c] \in Buffer
  BY DEF AddUsecnt, AtCommand, Raise, Idle, IInv, TypeOK
<1>2. Wanted = None /\ Wanted' = Wanted /\ Crowded' = Crowded
  BY <1>1 DEF Wanted, Crowded
<1>3. CASE UNCHANGED buffers
  BY <1>2, <1>3, QuietStep
<1>4. CASE buffers' = [buffers EXCEPT ![b].in_use = TRUE]
  <2>1. View' = [View EXCEPT ![b].in_use = TRUE]
    BY <1>1, <1>4 DEF View, Seen, Live, Buffer
  <2>2. Abstract!AddUsecnt(b)
    BY <1>1, <1>2, <2>1 DEF Abstract!AddUsecnt, Abstract!Live, View, Seen, Wanted, Crowded
  <2> QED BY <2>2 DEF AbstractStep, Abstract!Next
<1> QED BY <1>3, <1>4 DEF AddUsecnt

(* buf_madv likewise.                                                      *)
LEMMA MadvStep ==
  ASSUME IInv, NEW b \in BufId, NEW m \in {"willneed", "dontneed"}, Madv(b, m)
  PROVE  AbstractStep
<1>1. /\ buffers' = [buffers EXCEPT ![b].madv = m] /\ UNCHANGED <<pc, cur>>
      /\ \A c \in Live : buffers[c] \in Buffer
  BY DEF Madv, IInv, TypeOK
<1>2. View' = View
  BY <1>1 DEF View, Seen, Live, Buffer
<1>3. Wanted' = Wanted /\ Crowded' = Crowded
  BY <1>1 DEF Wanted, Crowded
<1> QED BY <1>2, <1>3, Stutters DEF AbstractStep

(* use_buffer is the abstract use.                                         *)
LEMMA UseStep ==
  ASSUME IInv, NEW b \in BufId, Use(b)
  PROVE  AbstractStep
<1>1. /\ b \in Live /\ UNCHANGED buffers /\ pc = "idle"
      /\ Wanted = None /\ ~Crowded
  BY BetweenCommands DEF Use, AtCommand, pool
<1>2. View' = View
  BY <1>1 DEF View, Seen, Live
<1>3. CASE pc' \in {"idle", "touch"}
  <2>1. Wanted' = None /\ Crowded' = Crowded
    BY <1>1, <1>3 DEF Wanted, Crowded
  <2> QED BY <1>1, <2>1, QuietStep
<1>4. CASE pc' = "first" /\ cur' = b /\ ~PagedIn(b)
  <2>1. Wanted' = b /\ Crowded' = Crowded
    BY <1>1, <1>4 DEF Wanted, Crowded
  <2>2. b \in Abstract!Live \ Abstract!Placed
    BY <1>1, <1>4, ViewFacts
  <2>3. Abstract!Use(b)
    BY <1>1, <1>2, <2>1, <2>2 DEF Abstract!Use, View, Seen, Wanted, Crowded
  <2> QED BY <2>3 DEF AbstractStep, Abstract!Next
<1> QED BY <1>3, <1>4 DEF Use, Raise, Idle, Start

(* Where compaction moves a buffer is free but for the buffer itself.      *)
LEMMA CompactionIsFree ==
  ASSUME IInv, NEW b \in Live, PagedIn(b), LowerEnd(b) < Off(b)
  PROVE  /\ LowerEnd(b) \in 0..PoolSize
         /\ Abstract!Free(LowerEnd(b), buffers[b].size, {c \in Live : PagedIn(c)} \ {b})
<1>1. b \in BufId /\ InPool(b)
  BY DEF IInv, TypeOK, InPool
<1>2. /\ LowerEnd(b) \in Nat
      /\ \A c \in BufId : Before(offset_list, c, b) => End(c) <= LowerEnd(b)
  BY <1>1, LowerEndIsAbove DEF IInv
<1>3. /\ buffers[b].size \in Nat /\ Off(b) \in Nat /\ End(b) = Off(b) + buffers[b].size
      /\ End(b) <= PoolSize /\ PoolSize \in Nat
  BY <1>1, BufferNumbers, ConstantsOK DEF IInv, LayoutOK
<1>4. ASSUME NEW c \in Live, PagedIn(c), c # b
      PROVE  End(c) <= LowerEnd(b) \/ LowerEnd(b) + buffers[b].size <= Off(c)
  <2>1. c \in BufId /\ InPool(c) /\ Off(c) \in Nat
    BY <1>4, BufferNumbers DEF IInv, TypeOK, InPool
  <2>2. PICK j \in 1..Len(offset_list), k \in 1..Len(offset_list) :
          offset_list[j] = b /\ offset_list[k] = c
    BY <1>1, <2>1, Zenon DEF IInv, LayoutOK, InList
  <2>3. j # k
    BY <1>4, <2>2
  <2>4. j < k \/ k < j
    BY <2>3
  <2>5. Before(offset_list, b, c) \/ Before(offset_list, c, b)
    BY <2>2, <2>4, Zenon DEF Before
  <2>6. Before(offset_list, b, c) => End(b) <= Off(c)
    BY <1>1, <2>1 DEF IInv, LayoutOK
  <2> QED BY SMTT(30), <1>2, <1>3, <2>1, <2>5, <2>6
<1>5. LowerEnd(b) + buffers[b].size <= PoolSize /\ LowerEnd(b) <= PoolSize
  BY <1>2, <1>3
<1>6. Abstract!Free(LowerEnd(b), buffers[b].size, {c \in Live : PagedIn(c)} \ {b})
  BY <1>2, <1>4, <1>5, FreeMeans DEF IInv
<1> QED BY <1>2, <1>3, <1>5, <1>6

(* buf_remove_usecnt, which may also compact.                              *)
LEMMA RemoveUsecntStep ==
  ASSUME IInv, NEW b \in BufId, RemoveUsecnt(b)
  PROVE  AbstractStep
<1>1. /\ b \in Live /\ pc = "idle" /\ pc' = "idle"
      /\ \A c \in Live : buffers[c] \in Buffer
  BY DEF RemoveUsecnt, AtCommand, Raise, Idle, IInv, TypeOK
<1>2. Wanted = None /\ Wanted' = Wanted /\ Crowded' = Crowded
  BY <1>1 DEF Wanted, Crowded
<1>3. CASE UNCHANGED buffers
  BY <1>2, <1>3, QuietStep
<1>4. CASE View' = [View EXCEPT ![b].in_use = FALSE]
  <2>1. Abstract!RemoveUsecnt(b)
    BY <1>1, <1>2, <1>4 DEF Abstract!RemoveUsecnt, Abstract!Live, View, Seen, Wanted, Crowded
  <2> QED BY <2>1 DEF AbstractStep, Abstract!Next
<1>5. CASE buffers' = [buffers EXCEPT ![b].in_use = FALSE]
  <2>1. View' = [View EXCEPT ![b].in_use = FALSE]
    BY <1>1, <1>5 DEF View, Seen, Live, Buffer
  <2> QED BY <1>4, <2>1
<1>6. ASSUME NEW o, buffers' = [buffers EXCEPT ![b].in_use = FALSE, ![b].offset = o]
      PROVE  View' = [View EXCEPT ![b].in_use = FALSE, ![b].start = o]
  BY <1>1, <1>6 DEF View, Seen, Live, Buffer
<1>7. CASE buffers' = [buffers EXCEPT ![b].in_use = FALSE, ![b].offset = Off(b)]
  <2>1. View' = [View EXCEPT ![b].in_use = FALSE]
    BY <1>1, <1>7 DEF View, Seen, Live, Buffer, Off
  <2> QED BY <1>4, <2>1
<1>8. CASE /\ Compact /\ PagedIn(b) /\ LowerEnd(b) < Off(b)
           /\ buffers' = [buffers EXCEPT ![b].in_use = FALSE, ![b].offset = LowerEnd(b)]
  <2> DEFINE placed == {c \in Live : PagedIn(c)}
  <2>0. PICK p \in 0..PoolSize : p = LowerEnd(b)
    BY <1>1, <1>8, CompactionIsFree
  <2>1. View' = [View EXCEPT ![b].in_use = FALSE, ![b].start = p]
    BY <1>6, <1>8, <2>0
  <2>2. Abstract!Free(p, buffers[b].size, placed \ {b})
    BY <1>1, <1>8, <2>0, CompactionIsFree
  <2>3. p < View[b].start /\ View[b].size = buffers[b].size
    BY <1>1, <1>8, <2>0 DEF View, Seen, Off
  <2>4. b \in Abstract!Placed /\ Abstract!Placed = placed
    BY <1>1, <1>8, ViewFacts
  <2>5. Abstract!RemoveUsecntAndMove(b, p)
    BY <1>2, <1>8, <2>1, <2>2, <2>3, <2>4
       DEF Abstract!RemoveUsecntAndMove, View, Seen, Wanted, Crowded
  <2> QED BY <2>5 DEF AbstractStep, Abstract!Next
<1>9. \/ UNCHANGED buffers
      \/ buffers' = [buffers EXCEPT ![b].in_use = FALSE]
      \/ buffers' = [buffers EXCEPT ![b].in_use = FALSE, ![b].offset = Off(b)]
      \/ /\ Compact /\ PagedIn(b) /\ LowerEnd(b) < Off(b)
         /\ buffers' = [buffers EXCEPT ![b].in_use = FALSE, ![b].offset = LowerEnd(b)]
  BY DEF RemoveUsecnt
<1> QED BY <1>3, <1>5, <1>7, <1>8, <1>9

(* First-fit places the buffer where no other is. *)
LEMMA InsertStep ==
  ASSUME IInv, Insert
  PROVE  AbstractStep
<1> DEFINE k == Min(FittingGaps(cur))
           placed == {c \in Live : PagedIn(c)}
<1>1. /\ pc \in {"first", "retry"} /\ cur \in Live /\ cur \in BufId
      /\ pc' \in {"touch", "idle"} /\ buffers[cur] \in Buffer
  BY DEF Insert, IInv, TypeOK, Goto, Idle
<1>2. FittingGaps(cur) \in SUBSET Nat /\ FittingGaps(cur) # {}
  BY DEF Insert, FittingGaps, IInv, TypeOK
<1>3. k \in FittingGaps(cur)
  BY <1>2, LeastElement
<1>4. buffers' = [buffers EXCEPT ![cur].offset = GapStart(k)]
  BY DEF Insert, InsertBufferAt
<1> HIDE DEF k
<1>5. /\ GapStart(k) \in Nat
      /\ GapStart(k) + buffers[cur].size <= PoolSize
      /\ \A j \in 1..Len(offset_list) :
           IF j < k THEN End(offset_list[j]) <= GapStart(k)
                    ELSE GapStart(k) + buffers[cur].size <= Off(offset_list[j])
  BY <1>1, <1>3, GapHasRoom DEF IInv
<1>6. PICK p \in 0..PoolSize : p = GapStart(k)
  <2>1. buffers[cur].size \in Nat /\ PoolSize \in Nat
    BY <1>1, BufferNumbers, ConstantsOK DEF IInv
  <2> QED BY <1>5, <2>1
<1>7. \A c \in placed : End(c) <= p \/ p + buffers[cur].size <= Off(c)
  <2> SUFFICES ASSUME NEW c \in Live, PagedIn(c)
               PROVE  End(c) <= p \/ p + buffers[cur].size <= Off(c)
    OBVIOUS
  <2>1. c \in BufId /\ InPool(c)
    BY DEF IInv, TypeOK, InPool
  <2>2. PICK j \in 1..Len(offset_list) : offset_list[j] = c
    BY <2>1, Zenon DEF IInv, LayoutOK, InList
  <2> QED BY <1>5, <1>6, <2>2
<1>8. Abstract!Free(p, buffers[cur].size, placed)
  BY <1>1, <1>5, <1>6, <1>7, FreeMeans DEF IInv
<1> HIDE DEF placed
<1>9. View' = [View EXCEPT ![cur].start = p]
  BY <1>1, <1>4, <1>6 DEF View, Seen, Live, Buffer
<1>10. Wanted = cur /\ cur # None /\ Wanted' = None /\ Crowded' = FALSE
  BY <1>1, ConstantsOK DEF Wanted, Crowded
<1>11. Abstract!Placed = placed /\ View[cur].size = buffers[cur].size
  BY <1>1, ViewFacts DEF placed, Seen
<1>12. Abstract!Place(p)
  BY <1>8, <1>9, <1>10, <1>11 DEF Abstract!Place, View, Seen, Wanted, Crowded
<1> QED BY <1>12 DEF AbstractStep, Abstract!Next

(* Nothing is purged before the attempt without it has failed. *)
LEMMA StartPurgeStep ==
  ASSUME IInv, StartPurge
  PROVE  AbstractStep
<1>1. /\ pc = "first" /\ pc' = "purge" /\ cur' = cur /\ UNCHANGED buffers
      /\ cur \in Live /\ cur \in BufId /\ FittingGaps(cur) = {}
  BY DEF StartPurge, Goto, pool, IInv, TypeOK
<1>2. View' = View
  BY <1>1 DEF View, Seen, Live
<1>3. Wanted = cur /\ cur # None /\ Wanted' = Wanted /\ Crowded' = TRUE
  BY <1>1, ConstantsOK DEF Wanted, Crowded
<1>4. ~Abstract!HasRoom(cur, Abstract!Placed)
  BY <1>1, NoRoomMeans, ViewFacts DEF IInv
<1>5. Abstract!Crowd
  BY <1>2, <1>3, <1>4 DEF Abstract!Crowd, View, Seen, Wanted, Crowded
<1> QED BY <1>5 DEF AbstractStep, Abstract!Next

(* Paging out one buffer is the abstract eviction of it.                   *)
LEMMA PageOutStep ==
  ASSUME IInv, NEW b \in Live, PagedIn(b), ~Pinned(b), RemoveFromPool(b),
         pc \in {"purge", "retry"}, UNCHANGED <<pc, cur>>
  PROVE  AbstractStep
<1>1. /\ buffers' = [buffers EXCEPT ![b].offset = None] /\ b \in BufId
      /\ buffers[b] \in Buffer
  BY DEF RemoveFromPool, IInv, TypeOK
<1>2. View' = [View EXCEPT ![b].start = None]
  BY <1>1 DEF View, Seen, Live, Buffer
<1>3. Crowded = TRUE /\ Wanted' = Wanted /\ Crowded' = Crowded
  BY DEF Wanted, Crowded
<1>4. b \in Abstract!Placed /\ ~Abstract!Pinned(b)
  BY ViewFacts
<1>5. Abstract!PageOut(b)
  BY <1>2, <1>3, <1>4 DEF Abstract!PageOut, View, Seen, Wanted, Crowded
<1> QED BY <1>1, <1>5 DEF AbstractStep, Abstract!Next

(* One round of the purge loop pages out a buffer or does nothing.         *)
LEMMA PurgeOneStep ==
  ASSUME IInv, PurgeOne
  PROVE  AbstractStep
<1>1. pc = "purge" /\ UNCHANGED <<pc, cur>> /\ i \in 1..Len(offset_list)
  BY DEF PurgeOne, IInv, TypeOK
<1>2. CASE Purgeable(offset_list[i])
  <2>1. offset_list[i] \in BufId /\ InPool(offset_list[i])
    BY <1>1 DEF IInv, TypeOK, LayoutOK, InList
  <2> QED BY <1>1, <1>2, <2>1, PageOutStep DEF PurgeOne, Purgeable, InPool
<1>3. CASE ~Purgeable(offset_list[i])
  <2>1. UNCHANGED buffers /\ Wanted' = Wanted /\ Crowded' = Crowded
    BY <1>1, <1>3 DEF PurgeOne, pool, Wanted, Crowded
  <2> QED BY <2>1, QuietStep
<1> QED BY <1>2, <1>3

(* The program gives up only if the pinned buffers leave no room, since    *)
(* there are no others.                                                    *)
LEMMA PageOutLruStep ==
  ASSUME IInv, PageOutLru
  PROVE  AbstractStep
<1>1. /\ pc = "retry" /\ cur \in Live /\ cur \in BufId /\ FittingGaps(cur) = {}
  BY DEF PageOutLru, IInv, TypeOK
<1>2. CASE Unpinned # {} /\ RemoveFromPool(mru_list[LruPlace]) /\ UNCHANGED <<pc, cur>>
  <2>1. LruPlace \in 1..Len(mru_list) /\ ~Pinned(mru_list[LruPlace])
    BY <1>2, LruPlaceFound DEF IInv
  <2>2. InPool(mru_list[LruPlace])
    BY <2>1 DEF IInv, TypeOK, LayoutOK, ListsAgree, InList
  <2> QED BY <1>1, <1>2, <2>1, <2>2, PageOutStep DEF InPool
<1>3. CASE Unpinned = {} /\ UNCHANGED buffers /\ pc' = "idle"
  <2>1. View' = View
    BY <1>3 DEF View, Seen, Live
  <2>2. Wanted = cur /\ Wanted' = None /\ Crowded = TRUE /\ Crowded' = FALSE
    BY <1>1, <1>3 DEF Wanted, Crowded
  <2>3. ~Abstract!HasRoom(cur, Abstract!Placed)
    BY <1>1, NoRoomMeans, ViewFacts DEF IInv
  <2>4. \A c \in Live : PagedIn(c) => Pinned(c)
    <3> SUFFICES ASSUME NEW c \in Live, PagedIn(c) PROVE Pinned(c)
      OBVIOUS
    <3>1. c \in BufId /\ InPool(c)
      BY DEF IInv, TypeOK, InPool
    <3>2. PICK k \in 1..Len(mru_list) : mru_list[k] = c
      BY <3>1 DEF IInv, LayoutOK, ListsAgree, InList
    <3> QED BY <1>3, <3>2 DEF Unpinned
  <2>5. {c \in Abstract!Placed : Abstract!Pinned(c)} = Abstract!Placed
    BY <2>4, ViewFacts
  <2>6. Abstract!GiveUp
    BY <2>1, <2>2, <2>3, <2>5 DEF Abstract!GiveUp, View, Seen, Wanted, Crowded
  <2> QED BY <2>6 DEF AbstractStep, Abstract!Next
<1> QED BY <1>2, <1>3 DEF PageOutLru, Raise, Idle, pool

(* Every step is an abstract one or a stutter.                             *)
LEMMA NextStep == IInv /\ [Next]_vars => AbstractStep
<1> SUFFICES ASSUME IInv, [Next]_vars PROVE AbstractStep
  OBVIOUS
<1>1. ASSUME NEW b \in BufId, UnknownId(b) \/ CreateExisting(b) PROVE AbstractStep
  <2>1. UNCHANGED buffers /\ pc = "idle" /\ pc' = "idle"
    BY <1>1 DEF UnknownId, CreateExisting, AtCommand, Raise, Idle, pool
  <2>2. Wanted' = Wanted /\ Crowded' = Crowded
    BY <2>1 DEF Wanted, Crowded
  <2> QED BY <2>1, <2>2, QuietStep
<1>2. EndPurge \/ Touch \/ UNCHANGED vars => AbstractStep
  <2>1. EndPurge \/ Touch \/ UNCHANGED vars =>
          UNCHANGED buffers /\ Wanted' = Wanted /\ Crowded' = Crowded
    BY DEF EndPurge, Touch, Goto, Idle, pool, vars, Wanted, Crowded
  <2> QED BY <2>1, QuietStep
<1>3. ASSUME NEW b \in BufId, Command(b) PROVE AbstractStep
  BY <1>1, <1>3, CreateStep, DestroyStep, AddUsecntStep, RemoveUsecntStep, MadvStep, UseStep
     DEF Command
<1> QED BY <1>2, <1>3, InsertStep, StartPurgeStep, PurgeOneStep, PageOutLruStep
        DEF Next, PageIn

(* The pool of cma-pool-log.py is a pool as BufferPool describes it: it    *)
(* places a buffer in free space only, takes out others only for want of   *)
(* room and none that is pinned, moves a buffer only into free space, and  *)
(* gives up only if the pinned buffers alone leave no room.                *)
THEOREM RefinesBufferPool == Spec => ImplementsBufferPool
<1>1. Init => Abstract!Init
  <2> SUFFICES ASSUME Init PROVE Abstract!Init
    OBVIOUS
  <2>1. Live = {} /\ pc = "idle"
    BY DEF Init, Live
  <2> QED BY <2>1 DEF Abstract!Init
<1>2. IInv /\ [Next]_vars => [Abstract!Next]_(Abstract!vars)
  BY NextStep DEF AbstractStep
<1> QED BY <1>1, <1>2, PoolInvariant, PTL DEF Spec, ImplementsBufferPool, Abstract!Spec
=============================================================================
