-------------------------- MODULE TestDrmMmProofs --------------------------
(***************************************************************************)
(* For any set of buffers, sizes, page size, pool size and width of a      *)
(* size_t: main.c and drm_mm agree on what is paged in, page_in_buffer     *)
(* calls drm_mm as its assertions demand, its scan stops at the first      *)
(* buffer with which there is room, the insertion after an eviction        *)
(* succeeds, and the overflow is exact however often it has wrapped.       *)
(*                                                                         *)
(* None of this is inductive.  RunOK says, for each point page_in_buffer   *)
(* may have reached, how far the loop it is in has come: which part of the *)
(* mru list has been scanned, which part of the eviction list is still on  *)
(* drm_mm's roster or still allocated, and what is known of the place that *)
(* is looked for.                                                          *)
(***************************************************************************)
EXTENDS TestDrmMm, DrmMmProofs

Labels == {"idle", "insert1", "insert2", "insert3", "purge", "page_out", "scan",
           "giveup", "found", "evict", "eof", "exit"}

TypeOK ==
  /\ pc \in Labels /\ aborted \in BOOLEAN
  /\ Live \subseteq Node /\ IsFiniteSet(Live) /\ buffers \in [Live -> Buffer]
  /\ ~Resting => cur \in Live /\ ~buffers[cur].paged_in

(* main.c and drm_mm keep the same buffers, with the same sizes.           *)
PoolOK ==
  /\ allocated = {b \in Live : buffers[b].paged_in}
  /\ Holds(mru_buffers, allocated)
  /\ \A b \in allocated : size[b] = buffers[b].size /\ start[b] % PageSize = 0

(* Is there a place for x bytes between the given buffers?                 *)
RoomFor(x, nodes) ==
  \E p \in Int : /\ Apart(p, x, nodes, start, size)
                 /\ Asked(p, x, PageSize, 0, PoolSize)

(* A scan is for the buffer that is to be paged in.                        *)
Asking ==
  /\ Requested
  /\ scan.size = buffers[cur].size /\ scan.alignment = PageSize
  /\ scan.range_start = 0 /\ scan.range_end = PoolSize

Listed(s) == {b \in Node : InList(s, b)}

(* The mru list has been walked from its end, and what was not pinned      *)
(* taken onto the eviction list, which is drm_mm's roster.                 *)
Walked ==
  /\ InScan(eviction_list) /\ Distinct(eviction_list) /\ Listed(eviction_list) = scanned
  /\ \E front, back \in Seq(Link) :
       /\ mru_buffers = front \o back /\ at = ListLast(front, None)
       /\ \A b \in Node : b \in scanned <=> InList(back, b) /\ ~Pinned(b)
  /\ scan.hit_end = 0
  /\ ~RoomFor(buffers[cur].size, allocated \ scanned)

(* v is the part of the eviction list that is done with, r the rest.       *)
Parted(v, r) ==
  /\ v \in Seq(Node) /\ r \in Seq(Node) /\ eviction_list = v \o r
  /\ at = ListFirst(r, None) /\ Distinct(eviction_list)

Unwinding(v, r) == Parted(v, r) /\ InScan(r) /\ Listed(r) = scanned

(* The place that was found is one once the eviction list is gone.         *)
Promised ==
  /\ scan.hit_end = Hit + scan.size /\ Wanted(Hit)
  /\ Apart(Hit, scan.size, allocated \ Listed(eviction_list), start, size)

Unpinned == \A b \in Listed(eviction_list) : b \in Live /\ ~Pinned(b)

RunOK ==
  /\ ScanType
  /\ pc \notin {"scan", "giveup", "found"} => Quiet /\ scanned = {}
  /\ pc \notin {"scan", "giveup", "found", "evict", "insert3"} => eviction_list = <<>>
  /\ pc = "purge" => at = None \/ at \in allocated
  /\ pc = "page_out" /\ buffers[cur].size > 0 => ~RoomFor(buffers[cur].size, allocated)
  /\ pc \in {"scan", "giveup", "found", "evict"} => Asking /\ Unpinned
  /\ pc = "scan" => Walked
  /\ pc = "giveup" =>
       /\ scan.hit_end = 0 /\ \E v, r \in Seq(Node) : Unwinding(v, r)
       /\ ~RoomFor(buffers[cur].size, {b \in allocated : Pinned(b)})
  /\ pc = "found" =>
       /\ Promised /\ Listed(eviction_list) \subseteq allocated
       /\ \E v, r \in Seq(Node) : Unwinding(v, r)
  /\ pc = "evict" =>
       /\ Promised
       /\ \E v, r \in Seq(Node) :
            Parted(v, r) /\ Listed(eviction_list) \cap allocated = Listed(r)
  /\ pc = "insert3" => buffers[cur].size > 0 /\ RoomFor(buffers[cur].size, allocated)
  /\ pc = "exit" => Live = {}
  /\ aborted =>
       pc = "page_out" /\ (buffers[cur].size = 0 \/ buffers[cur].size > PoolSize)

IInv == TypeOK /\ PoolOK /\ RunOK

-----------------------------------------------------------------------------
(* What inserting a buffer, removing it and freeing it do to the pool      *)

(* What a buffer that exists is. *)
LEMMA BufferTypes ==
  ASSUME TypeOK, NEW b \in Live
  PROVE  /\ buffers[b] \in Buffer /\ b \in Node
         /\ buffers[b].size \in Nat /\ buffers[b].size \in Int
         /\ buffers[b].size \in 0..U64Max /\ PageSize \in Nat
<1>1. buffers[b] \in Buffer /\ b \in Node /\ Live \subseteq Node
  BY DEF TypeOK
<1>2. buffers[b].size \in Sizes
  BY <1>1 DEF Buffer
<1>3. Sizes \subseteq 0..U64Max /\ PageSize \in Nat /\ U64Max \in Nat
  BY TestDrmMmConstants, DrmMmConstants
<1>4. buffers[b].size \in 0..U64Max
  BY <1>2, <1>3
<1> HIDE DEF Live
<1> QED BY <1>1, <1>3, <1>4

(* A step that leaves drm_mm alone, and which buffers are paged in.        *)
LEMMA PoolFrame ==
  ASSUME PoolOK, UNCHANGED <<start, size, allocated>>, Holds(mru_buffers', allocated),
         \A b : b \in Live' /\ buffers'[b].paged_in <=> b \in Live /\ buffers[b].paged_in,
         \A b \in allocated : buffers'[b].size = buffers[b].size
  PROVE  PoolOK'
BY DEF PoolOK

(* Placing a buffer: a search that succeeds finds room, and the node and  *)
(* the buffer agree afterwards.                                            *)
LEMMA InsertPool ==
  ASSUME TypeOK, PoolOK, Quiet, scanned = {}, NEW b \in Live, ~buffers[b].paged_in,
         NEW mode \in SearchModes, InsertBuffer(b, mode)
  PROVE  /\ QuietNext /\ scanned' = {} /\ scan' = scan /\ PoolOK'
         /\ allocated' = allocated \cup {b}
         /\ \E p \in Int : /\ Apart(p, buffers[b].size, allocated, start, size)
                           /\ Asked(p, buffers[b].size, PageSize, 0, U64Max)
                           /\ p % PageSize = 0 /\ start' = [start EXCEPT ![b] = p]
                           /\ start'[b] = p
         /\ \A c \in allocated : start'[c] = start[c] /\ size'[c] = size[c]
<1> DEFINE x == buffers[b].size
<1>1. /\ buffers[b] \in Buffer /\ b \in Node /\ x \in Nat /\ x \in Int
      /\ PageSize \in Nat /\ PageSize \in Nat \ {0} /\ U64Max \in Int /\ 0 \in Int
  BY BufferTypes, TestDrmMmConstants, DrmMmConstants
<1>2. /\ InsertNode(b, x, PageSize, 0, U64Max, mode, FALSE)
      /\ mru_buffers' = ListPrepend(mru_buffers, b)
      /\ buffers' = [buffers EXCEPT ![b].paged_in = TRUE]
  BY DEF InsertBuffer
<1> HIDE DEF x
<1>3. b \notin allocated
  BY DEF PoolOK
<1>4. PICK r \in SearchResults(x, PageSize, 0, U64Max, mode, FALSE) :
        r # <<>> /\ Occupy(r[1], b, r[2], x)
  BY <1>2 DEF InsertNode
<1>5. FALSE \in BOOLEAN /\ mode \in {"BEST", "LOW", "HIGH", "EVICT"}
  BY DEF SearchModes
<1>6. /\ r[1] \in Behind(hole_size) /\ r[2] \in Int /\ x > 0
      /\ start[r[1]] + size[r[1]] <= r[2]
      /\ r[2] + x <= start[r[1]] + size[r[1]] + hole_size[r[1]]
  BY <1>1, <1>4, <1>5, SearchFindsRoom
<1>7. /\ Apart(r[2], x, allocated, start, size)
      /\ Asked(r[2], x, PageSize, 0, U64Max)
  BY <1>1, <1>4, <1>5, <1>6, SearchIsSound
<1>8. QuietNext
  BY <1>1, <1>3, <1>4, <1>6, OccupyKeeps
<1> DEFINE p == r[2]
           h == r[1]
<1>9. /\ p \in Int /\ allocated' = allocated \cup {b} /\ scan' = scan /\ scanned' = {}
      /\ start' = [start EXCEPT ![b] = p] /\ size' = [size EXCEPT ![b] = x]
  BY <1>4, <1>6 DEF Occupy, scanVars
<1>10. Asked(p, x, PageSize, 0, U64Max)
  BY <1>7
<1> HIDE DEF p, h
<1>11. p % PageSize = 0
  <2>1. p % PageSize \in 0..(PageSize - 1)
    BY <1>1, <1>9, Multiples
  <2>2. CASE PageSize = 1
    BY <2>1, <2>2
  <2>3. CASE PageSize > 1
    BY <1>10, <2>3 DEF Asked
  <2> QED BY <1>1, <2>2, <2>3
<1>12. /\ start \in [Link -> Int] /\ size \in [Link -> Int] /\ allocated \subseteq Link
       /\ b \in Link
  BY <1>1 DEF Quiet, Settled, Fields, Link
<1>13. /\ start'[b] = p /\ size'[b] = x
       /\ \A c \in allocated : start'[c] = start[c] /\ size'[c] = size[c]
  BY <1>3, <1>9, <1>12
<1>14. Holds(mru_buffers', allocated')
  <2>1. /\ mru_buffers \in Seq(Link) /\ Distinct(mru_buffers)
        /\ \A c : InList(mru_buffers, c) <=> c \in allocated
    BY DEF PoolOK, Holds
  <2>2. /\ ListPrepend(mru_buffers, b) \in Seq(Link) /\ Distinct(ListPrepend(mru_buffers, b))
        /\ \A c : InList(ListPrepend(mru_buffers, b), c) <=> InList(mru_buffers, c) \/ c = b
    BY <1>3, <1>12, <2>1, ListPrependOrder
  <2> QED BY <1>2, <1>9, <2>1, <2>2 DEF Holds
<1>15. /\ Live' = Live /\ \A c \in Live : /\ buffers'[c].size = buffers[c].size
                                          /\ buffers'[c].paged_in <=> c = b \/ buffers[c].paged_in
  BY <1>1, <1>2 DEF TypeOK, Live, Buffer
<1>16. PoolOK'
  <2>1. allocated = {c \in Live : buffers[c].paged_in}
        /\ \A c \in allocated : size[c] = buffers[c].size /\ start[c] % PageSize = 0
    BY DEF PoolOK
  <2>2. allocated' = {c \in Live' : buffers'[c].paged_in}
    BY <1>9, <1>15, <2>1
  <2>3. \A c \in allocated' : size'[c] = buffers'[c].size /\ start'[c] % PageSize = 0
    BY <1>9, <1>11, <1>13, <1>15, <2>1 DEF x
  <2> QED BY <1>14, <2>2, <2>3 DEF PoolOK
<1> QED BY <1>7, <1>8, <1>9, <1>11, <1>13, <1>16 DEF x, p

(* What drm_mm_remove_node does to the node and to the others.             *)
LEMMA RemoveFields ==
  ASSUME PoolOK, Quiet, scanned = {}, NEW b \in allocated, RemoveNode(b),
         mru_buffers' = ListRemove(mru_buffers, b)
  PROVE  /\ QuietNext /\ scanned' = {} /\ scan' = scan /\ allocated' = allocated \ {b}
         /\ \A c \in allocated : c # b => start'[c] = start[c] /\ size'[c] = size[c]
         /\ Holds(mru_buffers', allocated')
<1>1. /\ allocated' = allocated \ {b} /\ scanned' = scanned /\ scan' = scan
      /\ start' = [start EXCEPT ![b] = 0] /\ size' = [size EXCEPT ![b] = 0]
  BY DEF RemoveNode, scanVars
<1>2. start \in [Link -> Int] /\ size \in [Link -> Int] /\ allocated \subseteq Link
  BY DEF Quiet, Settled, Fields, Link
<1>3. \A c \in allocated : c # b => start'[c] = start[c] /\ size'[c] = size[c]
  BY <1>1, <1>2
<1>4. QuietNext
  BY RemoveKeeps
<1>5. Holds(mru_buffers', allocated')
  <2>1. Holds(mru_buffers, allocated)
    BY DEF PoolOK
  <2> QED BY <1>1, <2>1, HoldsRemoved
<1> QED BY <1>1, <1>3, <1>4, <1>5

(* remove_buffer_from_pool                                                 *)
LEMMA RemovePool ==
  ASSUME TypeOK, PoolOK, Quiet, scanned = {}, NEW b \in allocated, RemoveBufferFromPool(b)
  PROVE  /\ QuietNext /\ scanned' = {} /\ scan' = scan /\ PoolOK'
         /\ allocated' = allocated \ {b}
         /\ \A c \in allocated : c # b => start'[c] = start[c] /\ size'[c] = size[c]
         /\ Live' = Live /\ buffers' \in [Live -> Buffer]
         /\ \A c \in Live : /\ buffers'[c].size = buffers[c].size
                            /\ buffers'[c].in_use = buffers[c].in_use
                            /\ buffers'[c].unmoveable = buffers[c].unmoveable
                            /\ buffers'[c].paged_in <=> buffers[c].paged_in /\ c # b
<1>1. /\ RemoveNode(b) /\ mru_buffers' = ListRemove(mru_buffers, b)
      /\ buffers' = [buffers EXCEPT ![b].paged_in = FALSE]
  BY DEF RemoveBufferFromPool
<1>2. /\ QuietNext /\ scanned' = {} /\ scan' = scan /\ allocated' = allocated \ {b}
      /\ \A c \in allocated : c # b => start'[c] = start[c] /\ size'[c] = size[c]
      /\ Holds(mru_buffers', allocated')
  BY <1>1, RemoveFields
<1>3. b \in Live /\ buffers \in [Live -> Buffer]
  BY DEF PoolOK, TypeOK
<1>4. /\ Live' = Live /\ buffers' \in [Live -> Buffer]
      /\ \A c \in Live : /\ buffers'[c].size = buffers[c].size
                         /\ buffers'[c].in_use = buffers[c].in_use
                         /\ buffers'[c].unmoveable = buffers[c].unmoveable
                         /\ buffers'[c].paged_in <=> buffers[c].paged_in /\ c # b
  BY <1>1, <1>3 DEF Live, Buffer
<1>5. PoolOK'
  <2>1. allocated = {c \in Live : buffers[c].paged_in}
        /\ \A c \in allocated : size[c] = buffers[c].size /\ start[c] % PageSize = 0
    BY DEF PoolOK
  <2>2. allocated' = {c \in Live' : buffers'[c].paged_in}
    BY <1>2, <1>4, <2>1
  <2>3. \A c \in allocated' : size'[c] = buffers'[c].size /\ start'[c] % PageSize = 0
    BY <1>2, <1>4, <2>1
  <2> QED BY <1>2, <2>2, <2>3 DEF PoolOK
<1> QED BY <1>2, <1>4, <1>5

(* free_buffer, whether the buffer is paged in or not                      *)
LEMMA FreePool ==
  ASSUME TypeOK, PoolOK, Quiet, scanned = {}, NEW b \in Live, FreeBuffer(b)
  PROVE  /\ QuietNext /\ scanned' = {} /\ scan' = scan /\ PoolOK'
         /\ allocated' = allocated \ {b}
         /\ \A c \in allocated : c # b => start'[c] = start[c] /\ size'[c] = size[c]
         /\ Live' = Live \ {b} /\ buffers' \in [Live' -> Buffer]
         /\ \A c \in Live' : buffers'[c] = buffers[c]
<1>1. buffers' = [c \in Live \ {b} |-> buffers[c]]
  BY DEF FreeBuffer
<1>2. /\ Live' = Live \ {b} /\ buffers' \in [Live' -> Buffer]
      /\ \A c \in Live' : buffers'[c] = buffers[c]
  BY <1>1 DEF Live, TypeOK
<1>3. allocated = {c \in Live : buffers[c].paged_in}
        /\ \A c \in allocated : size[c] = buffers[c].size /\ start[c] % PageSize = 0
  BY DEF PoolOK
<1>4. /\ QuietNext /\ scanned' = {} /\ scan' = scan /\ allocated' = allocated \ {b}
      /\ \A c \in allocated : c # b => start'[c] = start[c] /\ size'[c] = size[c]
      /\ Holds(mru_buffers', allocated')
  <2>1. CASE buffers[b].paged_in
    <3>1. b \in allocated /\ RemoveNode(b) /\ mru_buffers' = ListRemove(mru_buffers, b)
      BY <1>3, <2>1 DEF FreeBuffer
    <3> QED BY <3>1, RemoveFields
  <2>2. CASE ~buffers[b].paged_in
    <3>1. UNCHANGED <<mmVars, mru_buffers>> /\ b \notin allocated
      BY <1>3, <2>2 DEF FreeBuffer
    <3>2. QuietNext /\ scanned' = {} /\ scan' = scan /\ allocated' = allocated
          /\ start' = start /\ size' = size
      BY <3>1 DEF mmVars, Quiet, QuietNext
    <3>3. Holds(mru_buffers', allocated)
      BY <3>1 DEF PoolOK
    <3>4. allocated \ {b} = allocated
      BY <3>1
    <3> QED BY <3>2, <3>3, <3>4
  <2> QED BY <2>1, <2>2
<1>5. PoolOK'
  <2>1. allocated' = {c \in Live' : buffers'[c].paged_in}
    BY <1>2, <1>3, <1>4
  <2>2. \A c \in allocated' : size'[c] = buffers'[c].size /\ start'[c] % PageSize = 0
    BY <1>2, <1>3, <1>4
  <2> QED BY <1>4, <2>1, <2>2 DEF PoolOK
<1> QED BY <1>2, <1>4, <1>5

-----------------------------------------------------------------------------
(* Where no scan is under way                                              *)

(* All that RunOK says of such a point is that drm_mm is settled.          *)
LEMMA QuietPoint ==
  ASSUME TypeOK', PoolOK', QuietNext, scanned' = {}, ScanType', eviction_list' = <<>>,
         ~aborted',
         \/ pc' \in {"idle", "insert1", "insert2", "eof"}
         \/ pc' = "purge" /\ (at' = None \/ at' \in allocated')
         \/ pc' = "exit" /\ Live' = {}
  PROVE  IInv'
<1>1. Quiet'
  BY DEF Quiet, QuietNext
<1>2. /\ pc' \notin {"page_out", "scan", "giveup", "found", "evict", "insert3"}
      /\ pc' = "purge" => at' = None \/ at' \in allocated'
      /\ pc' = "exit" => Live' = {}
  OBVIOUS
<1>3. RunOK'
  BY <1>1, <1>2 DEF RunOK
<1> QED BY <1>3 DEF IInv

(* A step that leaves the allocator alone keeps what is known of it. *)
LEMMA MmSame ==
  ASSUME UNCHANGED mmVars
  PROVE  /\ Quiet => QuietNext
         /\ scanned' = scanned /\ scan' = scan /\ allocated' = allocated
         /\ start' = start /\ size' = size /\ (ScanType => ScanType')
BY DEF mmVars, Quiet, QuietNext, ScanType

(* Before the scan, the pool and the mru list agree and nothing is scanned. *)
LEMMA AtQuietPoint ==
  ASSUME IInv, pc \in {"idle", "insert1", "insert2", "purge", "page_out", "eof"}
  PROVE  /\ TypeOK /\ PoolOK /\ ScanType /\ Quiet /\ scanned = {} /\ eviction_list = <<>>
         /\ Holds(mru_buffers, allocated)
         /\ pc # "page_out" => ~aborted
BY DEF IInv, RunOK, PoolOK

(* Nothing is paged in yet.                                                *)
LEMMA InitInv ==
  ASSUME Init
  PROVE  IInv
<1>1. Quiet /\ scanned = {} /\ allocated = {} /\ scan = NoScan
  BY InitIsQuiet DEF Init, DrmMmInit
<1>2. /\ Live = {} /\ pc = "idle" /\ eviction_list = <<>> /\ mru_buffers = <<>> /\ aborted = FALSE
      /\ buffers \in [{} -> Buffer]
  BY DEF Init, Live
<1>3. TypeOK
  BY <1>2, FS_EmptySet DEF TypeOK, Labels, Resting
<1>4. PoolOK
  <2>1. Holds(<<>>, {})
    BY DEF Holds, Distinct, InList
  <2> QED BY <1>1, <1>2, <2>1 DEF PoolOK
<1>5. ScanType
  BY <1>1, DrmMmConstants DEF ScanType, NoScan, SearchModes
<1> QED BY <1>1, <1>2, <1>3, <1>4, <1>5 DEF IInv, RunOK

(* buf_create                                                              *)
LEMMA BufCreateInv ==
  ASSUME IInv, NEW b \in Node, NEW s \in Sizes, NEW u \in BOOLEAN, BufCreate(b, s, u)
  PROVE  IInv'
<1>1. /\ pc = "idle" /\ b \notin Live /\ pc' = "insert1" /\ cur' = b
      /\ UNCHANGED <<mmVars, mru_buffers, eviction_list, aborted>> /\ ~aborted
      /\ buffers' = [c \in Live \cup {b} |->
                      IF c = b THEN [size |-> s, unmoveable |-> u, paged_in |-> FALSE,
                                     in_use |-> FALSE, madv |-> "willneed"]
                               ELSE buffers[c]]
  BY DEF BufCreate, AtCommand, Goto
<1>2. /\ TypeOK /\ PoolOK /\ ScanType /\ Quiet /\ scanned = {} /\ eviction_list = <<>>
      /\ Holds(mru_buffers, allocated)
  BY <1>1, AtQuietPoint
<1>3. QuietNext /\ scanned' = {} /\ ScanType' /\ UNCHANGED <<start, size, allocated>>
  BY <1>1, <1>2, MmSame
<1>4. Live' = Live \cup {b}
  BY <1>1 DEF Live
<1>5. \A c \in Live' : /\ c = b => buffers'[c] \in Buffer /\ ~buffers'[c].paged_in
                       /\ c # b => buffers'[c] = buffers[c] /\ c \in Live
  BY <1>1, <1>4 DEF Buffer, Madv
<1>6. TypeOK'
  <2>1. Live \subseteq Node /\ IsFiniteSet(Live) /\ buffers \in [Live -> Buffer]
    BY <1>2 DEF TypeOK
  <2>2. IsFiniteSet(Live') /\ Live' \subseteq Node
    BY <1>4, <2>1, FS_AddElement
  <2>3. buffers' \in [Live' -> Buffer]
    <3>1. \A c \in Live' : buffers'[c] \in Buffer
      BY <1>5, <2>1
    <3>2. buffers' = [c \in Live' |-> buffers'[c]]
      BY <1>1, <1>4
    <3> HIDE DEF Live
    <3> QED BY <3>1, <3>2
  <2> QED BY <1>1, <1>2, <1>4, <1>5, <2>2, <2>3 DEF TypeOK, Labels
<1>7. PoolOK'
  <2>1. allocated \subseteq Live
    BY <1>2 DEF PoolOK
  <2> HIDE DEF Live
  <2>2. Holds(mru_buffers', allocated)
    BY <1>1, <1>2
  <2>3. /\ \A c : c \in Live' /\ buffers'[c].paged_in <=> c \in Live /\ buffers[c].paged_in
        /\ \A c \in allocated : buffers'[c].size = buffers[c].size
    BY <1>1, <1>4, <1>5, <2>1
  <2> QED BY <1>2, <1>3, <2>2, <2>3, PoolFrame
<1> QED BY <1>1, <1>2, <1>3, <1>6, <1>7, QuietPoint

(* buf_destroy, and free_buffers at the end                                *)
LEMMA FreeInv ==
  ASSUME IInv, NEW b \in Live, FreeBuffer(b), pc \in {"idle", "eof"}, UNCHANGED runVars
  PROVE  IInv'
<1>1. /\ TypeOK /\ PoolOK /\ ScanType /\ Quiet /\ scanned = {} /\ eviction_list = <<>>
      /\ ~aborted
  BY AtQuietPoint
<1>2. /\ QuietNext /\ scanned' = {} /\ scan' = scan /\ PoolOK'
      /\ Live' = Live \ {b} /\ buffers' \in [Live' -> Buffer]
  BY <1>1, FreePool
<1>3. UNCHANGED <<pc, cur, at, eviction_list, aborted>>
  BY DEF runVars
<1>4. TypeOK'
  <2>1. IsFiniteSet(Live') /\ Live' \subseteq Node
    <3> HIDE DEF Live
    <3>1. IsFiniteSet(Live) /\ Live \subseteq Node
      BY <1>1 DEF TypeOK
    <3>2. Live' \subseteq Live
      BY <1>2
    <3> QED BY <3>1, <3>2, FS_Subset
  <2>2. Resting'
    BY <1>3 DEF Resting
  <2> QED BY <1>1, <1>2, <1>3, <2>1, <2>2 DEF TypeOK
<1>5. ScanType'
  BY <1>1, <1>2 DEF ScanType
<1> QED BY <1>1, <1>2, <1>3, <1>4, <1>5, QuietPoint

(* A command that only changes what is known of one buffer.                *)
LEMMA BufChangeInv ==
  ASSUME IInv, NEW b \in Live, AtCommand, UNCHANGED <<mmVars, mru_buffers, runVars>>,
         NEW v \in Buffer, buffers' = [buffers EXCEPT ![b] = v],
         v.size = buffers[b].size, v.paged_in = buffers[b].paged_in
  PROVE  IInv'
<1>1. pc = "idle" /\ ~aborted /\ UNCHANGED <<pc, cur, at, eviction_list, aborted>>
  BY DEF AtCommand, runVars
<1>2. /\ TypeOK /\ PoolOK /\ ScanType /\ Quiet /\ scanned = {} /\ eviction_list = <<>>
      /\ Holds(mru_buffers, allocated)
  BY <1>1, AtQuietPoint
<1>3. QuietNext /\ scanned' = {} /\ ScanType' /\ UNCHANGED <<start, size, allocated>>
  BY <1>2, MmSame
<1>4. /\ Live' = Live /\ buffers' \in [Live -> Buffer]
      /\ \A c \in Live : /\ buffers'[c].size = buffers[c].size
                         /\ buffers'[c].paged_in = buffers[c].paged_in
  BY <1>2 DEF Live, TypeOK
<1>5. TypeOK'
  BY <1>1, <1>2, <1>4 DEF TypeOK, Resting
<1>6. PoolOK'
  <2>1. allocated \subseteq Live
    BY <1>2 DEF PoolOK
  <2>2. Holds(mru_buffers', allocated)
    BY <1>2
  <2>3. /\ \A c : c \in Live' /\ buffers'[c].paged_in <=> c \in Live /\ buffers[c].paged_in
        /\ \A c \in allocated : buffers'[c].size = buffers[c].size
    BY <1>4, <2>1
  <2> QED BY <1>2, <1>3, <2>2, <2>3, PoolFrame
<1> QED BY <1>1, <1>2, <1>3, <1>5, <1>6, QuietPoint

(* add_usecnt, remove_usecnt and buf_madv                                  *)
LEMMA BufSetInUseInv ==
  ASSUME IInv, NEW b \in Node, NEW used \in BOOLEAN, BufSetInUse(b, used)
  PROVE  IInv'
<1> DEFINE v == [buffers[b] EXCEPT !.in_use = used]
<1>1. /\ AtCommand /\ b \in Live /\ buffers' = [buffers EXCEPT ![b] = v]
      /\ UNCHANGED <<mmVars, mru_buffers, runVars>>
  BY DEF BufSetInUse
<1>2. buffers[b] \in Buffer
  BY <1>1 DEF IInv, TypeOK
<1>3. v \in Buffer /\ v.size = buffers[b].size /\ v.paged_in = buffers[b].paged_in
  BY <1>2 DEF Buffer
<1> HIDE DEF v
<1> QED BY <1>1, <1>3, BufChangeInv

(* madvise changes what may be purged, not what is in the pool. *)
LEMMA BufMadvInv ==
  ASSUME IInv, NEW b \in Node, NEW word \in Madv, BufMadv(b, word)
  PROVE  IInv'
<1> DEFINE m == IF word = "willneed" THEN "willneed" ELSE buffers[b].madv
           v == [buffers[b] EXCEPT !.madv = m]
<1>1. /\ AtCommand /\ b \in Live /\ buffers' = [buffers EXCEPT ![b] = v]
      /\ UNCHANGED <<mmVars, mru_buffers, runVars>>
  BY DEF BufMadv
<1>2. buffers[b] \in Buffer
  BY <1>1 DEF IInv, TypeOK
<1>3. v \in Buffer /\ v.size = buffers[b].size /\ v.paged_in = buffers[b].paged_in
  BY <1>2 DEF Buffer, Madv
<1> HIDE DEF v
<1> QED BY <1>1, <1>3, BufChangeInv

(* buf_use: the buffer moves to the front, or is paged in                  *)
LEMMA BufUseInv ==
  ASSUME IInv, NEW b \in Node, BufUse(b)
  PROVE  IInv'
<1>1. /\ pc = "idle" /\ ~aborted /\ b \in Live
      /\ UNCHANGED <<mmVars, buffers, overflow, eviction_list, aborted>>
  BY DEF BufUse, AtCommand
<1>2. /\ TypeOK /\ PoolOK /\ ScanType /\ Quiet /\ scanned = {} /\ eviction_list = <<>>
      /\ Holds(mru_buffers, allocated)
  BY <1>1, AtQuietPoint
<1>3. QuietNext /\ scanned' = {} /\ ScanType' /\ UNCHANGED <<start, size, allocated>>
  BY <1>1, <1>2, MmSame
<1>4. Live' = Live /\ allocated \subseteq Link /\ (buffers[b].paged_in <=> b \in allocated)
  BY <1>1, <1>2 DEF Live, PoolOK, Quiet, Settled, Link
<1>5. ASSUME pc' \in {"idle", "insert1"}, Holds(mru_buffers', allocated),
             pc' = "insert1" => cur' = b /\ ~buffers[b].paged_in
      PROVE  IInv'
  <2>1. PoolOK'
    BY <1>1, <1>2, <1>3, <1>4, <1>5, PoolFrame
  <2>2. TypeOK'
    BY <1>1, <1>2, <1>4, <1>5 DEF TypeOK, Labels, Resting
  <2> QED BY <1>1, <1>2, <1>3, <1>5, <2>1, <2>2, QuietPoint
<1>6. CASE buffers[b].paged_in
  <2>1. mru_buffers' = ListPrepend(ListRemove(mru_buffers, b), b) /\ pc' = "idle"
    BY <1>1, <1>6 DEF BufUse
  <2>2. Holds(ListRemove(mru_buffers, b), allocated \ {b})
    BY <1>2, <1>4, <1>6, HoldsRemoved
  <2>3. Holds(PushHole(ListRemove(mru_buffers, b), b), (allocated \ {b}) \cup {b})
    BY <1>4, <1>6, <2>2, HoldsPushed
  <2>4. (allocated \ {b}) \cup {b} = allocated
    BY <1>4, <1>6
  <2> QED BY <1>5, <2>1, <2>3, <2>4 DEF PushHole
<1>7. CASE ~buffers[b].paged_in
  <2>1. mru_buffers' = mru_buffers /\ pc' = "insert1" /\ cur' = b
    BY <1>7 DEF BufUse, Goto
  <2> QED BY <1>2, <1>5, <1>7, <2>1
<1> QED BY <1>6, <1>7

(* Steps that leave buffers and allocator alone.                           *)
LEMMA GotoInv ==
  ASSUME IInv, ~aborted, pc \in {"idle", "insert1", "purge", "eof"},
         UNCHANGED <<mmVars, poolVars, cur, eviction_list, aborted>>,
         \/ pc = "idle" /\ pc' = "eof"
         \/ pc \in {"insert1", "purge"} /\ pc' \in {"purge", "insert2"}
         \/ pc = "eof" /\ pc' = "exit" /\ Live = {},
         pc' = "purge" => at' = None \/ at' \in allocated
  PROVE  IInv'
<1>1. /\ TypeOK /\ PoolOK /\ ScanType /\ Quiet /\ scanned = {} /\ eviction_list = <<>>
      /\ Holds(mru_buffers, allocated)
  BY AtQuietPoint
<1>2. QuietNext /\ scanned' = {} /\ ScanType' /\ UNCHANGED <<start, size, allocated>>
  BY <1>1, MmSame
<1>3. Live' = Live /\ buffers' = buffers /\ mru_buffers' = mru_buffers
  BY DEF Live, poolVars
<1>4. PoolOK'
  BY <1>1, <1>2, <1>3, PoolFrame
<1>5. TypeOK'
  BY <1>1, <1>3 DEF TypeOK, Labels, Resting
<1> QED BY <1>1, <1>2, <1>3, <1>4, <1>5, QuietPoint

(* The start of the purge, a buffer it passes, and the end of main.        *)
LEMMA WalkInv ==
  ASSUME IInv,
         \/ EndOfFile \/ StartPurge \/ EndPurge \/ Takedown
         \/ PurgeStep /\ ~(buffers[at].madv = "dontneed" /\ ~Pinned(at))
  PROVE  IInv'
<1>1. ASSUME pc \in {"insert1", "purge"}
      PROVE  /\ mru_buffers \in Seq(Link) /\ Distinct(mru_buffers)
             /\ \A c : InList(mru_buffers, c) <=> c \in allocated
  BY <1>1, AtQuietPoint DEF Holds
<1>2. CASE EndOfFile
  BY <1>2, GotoInv DEF EndOfFile, AtCommand, Goto
<1>3. CASE StartPurge
  <2>1. ListFirst(mru_buffers, None) = None \/ ListFirst(mru_buffers, None) \in allocated
    BY <1>1, <1>3, FirstIsItem DEF StartPurge, At
  <2> QED BY <1>3, <2>1, GotoInv DEF StartPurge, At, Goto
<1>4. CASE EndPurge
  BY <1>4, GotoInv DEF EndPurge, At, Goto
<1>5. CASE Takedown
  BY <1>5, GotoInv DEF Takedown, At, Goto
<1>6. CASE PurgeStep /\ ~(buffers[at].madv = "dontneed" /\ ~Pinned(at))
  <2>1. /\ pc = "purge" /\ ~aborted /\ at # None /\ at' = ListNext(mru_buffers, at, None)
        /\ UNCHANGED <<mmVars, poolVars, pc, cur, eviction_list, aborted>>
    BY <1>6 DEF PurgeStep, At
  <2>2. at \in allocated
    BY <2>1 DEF IInv, RunOK
  <2>3. at' = None \/ at' \in allocated
    BY <1>1, <2>1, <2>2, NextIsOther
  <2> QED BY <2>1, <2>3, GotoInv
<1> QED BY <1>2, <1>3, <1>4, <1>5, <1>6

(* The purge removes a buffer, and goes on behind it.                      *)
LEMMA PurgeInv ==
  ASSUME IInv, PurgeStep, buffers[at].madv = "dontneed", ~Pinned(at)
  PROVE  IInv'
<1>1. /\ pc = "purge" /\ ~aborted /\ at # None /\ at' = ListNext(mru_buffers, at, None)
      /\ RemoveBufferFromPool(at) /\ UNCHANGED <<pc, cur, eviction_list, aborted>>
  BY DEF PurgeStep, At
<1>2. /\ TypeOK /\ PoolOK /\ ScanType /\ Quiet /\ scanned = {} /\ eviction_list = <<>>
      /\ Holds(mru_buffers, allocated) /\ at \in allocated
  BY <1>1, AtQuietPoint DEF IInv, RunOK
<1>3. /\ QuietNext /\ scanned' = {} /\ scan' = scan /\ PoolOK'
      /\ allocated' = allocated \ {at} /\ Live' = Live /\ buffers' \in [Live -> Buffer]
      /\ \A c \in Live : buffers'[c].paged_in <=> buffers[c].paged_in /\ c # at
  BY <1>1, <1>2, RemovePool
<1>4. at' = None \/ at' \in allocated'
  BY <1>1, <1>2, <1>3, NextIsOther DEF Holds
<1>5. TypeOK'
  BY <1>1, <1>2, <1>3 DEF TypeOK, Resting
<1>6. ScanType'
  BY <1>2, <1>3 DEF ScanType
<1> QED BY <1>1, <1>2, <1>3, <1>4, <1>5, <1>6, QuietPoint

-----------------------------------------------------------------------------
(* The insertions, and the search that fails before buffers are paged out  *)

(* An insertion that succeeds ends page_in_buffer.                         *)
LEMMA InsertInv ==
  ASSUME IInv, InsertFirst \/ InsertAfterPurge \/ InsertAfterPageOut
  PROVE  IInv'
<1>1. PICK mode \in SearchModes : /\ pc \in {"insert1", "insert2", "insert3"} /\ ~aborted
                                  /\ InsertBuffer(cur, mode) /\ Finish /\ UNCHANGED aborted
  BY DEF InsertFirst, InsertAfterPurge, InsertAfterPageOut, Insert, At, SearchModes
<1>2. TypeOK /\ PoolOK /\ ScanType /\ Quiet /\ scanned = {}
  BY <1>1 DEF IInv, RunOK
<1>3. cur \in Live /\ ~buffers[cur].paged_in
  BY <1>1, <1>2 DEF TypeOK, Resting
<1>4. QuietNext /\ scanned' = {} /\ scan' = scan /\ PoolOK'
  BY <1>1, <1>2, <1>3, InsertPool
<1>5. Live' = Live /\ buffers' \in [Live -> Buffer]
  BY <1>1, <1>2, <1>3 DEF InsertBuffer, Live, TypeOK, Buffer
<1>6. pc' = "idle" /\ eviction_list' = <<>> /\ ~aborted'
  BY <1>1 DEF Finish
<1>7. TypeOK'
  BY <1>1, <1>2, <1>5, <1>6 DEF TypeOK, Labels, Resting
<1>8. ScanType'
  BY <1>2, <1>4 DEF ScanType
<1> QED BY <1>4, <1>6, <1>7, <1>8, QuietPoint

(* A best-fit search fails only where there is no place.                   *)
LEMMA NoRoomIsNone ==
  ASSUME Quiet, NEW x \in Nat, x > 0, NEW mode \in SearchModes,
         InsertFails(x, PageSize, 0, U64Max, mode, FALSE)
  PROVE  ~RoomFor(x, allocated)
<1>1. /\ PageSize \in Nat /\ U64Max \in Int /\ PoolSize \in Int /\ PoolSize <= U64Max
      /\ 0 \in Int /\ x \in Int
  BY TestDrmMmConstants, DrmMmConstants
<1> SUFFICES ASSUME NEW p \in Int, Apart(p, x, allocated, start, size),
                    Asked(p, x, PageSize, 0, PoolSize)
             PROVE  FALSE
  BY DEF RoomFor
<1>2. PICK h \in Behind(hole_size) :
        HoleStart(h) <= p /\ p + x <= HoleStart(h) + hole_size[h]
  BY <1>1, FreeBlockIsInHole
<1>3. Asked(p, x, PageSize, 0, U64Max)
  BY <1>1 DEF Asked
<1>4. <<>> \in SearchResults(x, PageSize, 0, U64Max, mode, FALSE)
  BY DEF InsertFails
<1>5. p + x <= HoleStop(h)
  BY <1>2 DEF HoleStop
<1> QED BY <1>1, <1>2, <1>3, <1>4, <1>5, SearchBeats DEF SearchModes

(* The second attempt has failed: there is no place without a scan. *)
LEMMA StartPageOutInv ==
  ASSUME IInv, StartPageOut
  PROVE  IInv'
<1>1. /\ pc = "insert2" /\ ~aborted /\ NoRoom(cur, "BEST") /\ pc' = "page_out"
      /\ UNCHANGED <<mmVars, poolVars, cur, eviction_list, aborted>>
  BY DEF StartPageOut, At, Goto
<1>2. /\ TypeOK /\ PoolOK /\ ScanType /\ Quiet /\ scanned = {} /\ eviction_list = <<>>
      /\ Holds(mru_buffers, allocated)
  BY <1>1, AtQuietPoint
<1>3. QuietNext /\ scanned' = {} /\ ScanType' /\ UNCHANGED <<start, size, allocated>>
  BY <1>1, <1>2, MmSame
<1>4. Live' = Live /\ buffers' = buffers /\ mru_buffers' = mru_buffers
  BY <1>1 DEF Live, poolVars
<1>5. PoolOK'
  BY <1>2, <1>3, <1>4, PoolFrame
<1>6. cur \in Live
  BY <1>1, <1>2 DEF TypeOK, Resting
<1>7. TypeOK'
  BY <1>1, <1>2, <1>4 DEF TypeOK, Labels, Resting
<1>8. buffers[cur].size > 0 => ~RoomFor(buffers[cur].size, allocated)
  <2>1. "BEST" \in SearchModes /\ buffers[cur].size \in Nat
    BY <1>2, <1>6, BufferTypes DEF SearchModes
  <2> QED BY <1>1, <1>2, <2>1, NoRoomIsNone DEF NoRoom
<1>9. (buffers[cur].size > 0 => ~RoomFor(buffers[cur].size, allocated))'
  BY <1>1, <1>3, <1>4, <1>8 DEF RoomFor, Apart, Asked
<1>10. Quiet'
  BY <1>3 DEF Quiet, QuietNext
<1>11. RunOK'
  BY <1>1, <1>2, <1>3, <1>9, <1>10 DEF RunOK
<1> QED BY <1>5, <1>7, <1>11 DEF IInv

-----------------------------------------------------------------------------
(* page_out_buffers_for_insertion: the walk along the mru list             *)

(* What the steps of a scan leave alone.                                   *)
LEMMA ScanFrame ==
  ASSUME TypeOK, PoolOK, UNCHANGED <<start, size, allocated, poolVars, cur>>,
         ~Resting, pc' \in Labels, aborted' \in BOOLEAN
  PROVE  /\ TypeOK' /\ PoolOK' /\ Live' = Live /\ buffers' = buffers
         /\ mru_buffers' = mru_buffers
<1>1. Live' = Live /\ buffers' = buffers /\ mru_buffers' = mru_buffers
  BY DEF Live, poolVars
<1>2. Holds(mru_buffers', allocated)
  BY <1>1 DEF PoolOK
<1>3. PoolOK'
  BY <1>1, <1>2, PoolFrame
<1> QED BY <1>1, <1>3 DEF TypeOK

(* drm_mm_scan_init refuses a size that no scan can find a place for, and  *)
(* the walk begins at the end of the list otherwise.                       *)
LEMMA StartScanInv ==
  ASSUME IInv, StartScan
  PROVE  IInv'
<1> DEFINE x == buffers[cur].size
<1>1. pc = "page_out" /\ ~aborted /\ UNCHANGED <<poolVars, cur, eviction_list>>
  BY DEF StartScan, At
<1>2. /\ TypeOK /\ PoolOK /\ ScanType /\ Quiet /\ scanned = {} /\ eviction_list = <<>>
      /\ Holds(mru_buffers, allocated) /\ ~Resting
  BY <1>1, AtQuietPoint DEF Resting
<1>3. cur \in Live
  BY <1>2 DEF TypeOK
<1>4. /\ x \in Nat /\ x \in Int /\ PoolSize \in Nat /\ PoolSize \in Int /\ PoolSize > 0
      /\ PageSize \in Nat /\ U64Max \in Int
  BY <1>2, <1>3, BufferTypes, DrmMmConstants
<1>5. x > 0 => ~RoomFor(x, allocated)
  BY <1>1 DEF IInv, RunOK
<1>6. CASE ~MayScan(x, 0, PoolSize)
  <2>1. UNCHANGED mmVars /\ pc' = "page_out" /\ aborted'
    BY <1>1, <1>6 DEF StartScan, Abort
  <2>2. QuietNext /\ scanned' = {} /\ ScanType' /\ UNCHANGED <<start, size, allocated>>
    BY <1>2, <2>1, MmSame
  <2>3. TypeOK' /\ PoolOK' /\ buffers' = buffers /\ cur' = cur /\ aborted' \in BOOLEAN
    <3>1. aborted' = TRUE
      BY <1>6 DEF StartScan, Abort
    <3> QED BY <1>1, <1>2, <2>1, <2>2, <3>1, ScanFrame DEF Labels
  <2>4. x = 0 \/ x > PoolSize
    <3> HIDE DEF x
    <3> QED BY <1>2, <1>4, <1>6 DEF MayScan
  <2>5. (buffers[cur].size = 0 \/ buffers[cur].size > PoolSize)'
    BY <1>1, <2>3, <2>4
  <2>6. (buffers[cur].size > 0 => ~RoomFor(buffers[cur].size, allocated))'
    BY <1>1, <1>5, <2>2, <2>3 DEF RoomFor, Apart, Asked
  <2>7. Quiet'
    BY <2>2 DEF Quiet, QuietNext
  <2>8. RunOK'
    BY <1>1, <1>2, <2>1, <2>2, <2>5, <2>6, <2>7 DEF RunOK
  <2> QED BY <2>3, <2>8 DEF IInv
<1>7. CASE MayScan(x, 0, PoolSize)
  <2>1. /\ pc' = "scan" /\ at' = ListLast(mru_buffers, None) /\ aborted' = FALSE
        /\ scan' = [size |-> x, alignment |-> PageSize, range_start |-> 0,
                    range_end |-> PoolSize, mode |-> "BEST", hit_start |-> U64Max, hit_end |-> 0]
        /\ UNCHANGED <<listVars, nodeVars, holeVars, scanned>>
    <3>1. aborted = FALSE
      BY <1>1, <1>2 DEF TypeOK
    <3> QED BY <1>7, <3>1 DEF StartScan, ScanInit, Goto
  <2>2. UNCHANGED <<next, prev, start, size, allocated, hole_size, hole_stack, holes_size,
                    holes_addr, scanned>>
    BY <2>1 DEF listVars, nodeVars, holeVars
  <2>3. TypeOK' /\ PoolOK' /\ Live' = Live /\ buffers' = buffers /\ mru_buffers' = mru_buffers
    BY <1>1, <1>2, <2>1, <2>2, ScanFrame DEF Labels
  <2>4. x > 0 /\ ~RoomFor(x, allocated)
    <3>1. x > 0
      BY <1>4, <1>7 DEF MayScan
    <3> QED BY <1>5, <3>1
  <2>5. Asking'
    <3>1. (ScanType /\ scan.size > 0)'
      <4> HIDE DEF x
      <4> QED BY <1>4, <2>1, <2>4 DEF ScanType, SearchModes
    <3>2. /\ scan'.size = x /\ scan'.alignment = PageSize
          /\ scan'.range_start = 0 /\ scan'.range_end = PoolSize
      BY <2>1
    <3> QED BY <1>1, <2>3, <3>1, <3>2 DEF Asking, Requested
  <2>6. Unpinned'
    BY <1>1, <1>2 DEF Unpinned, Listed, InList
  <2>7. Walked'
    <3>1. InScan(<<>>)
      BY <1>2, SettledIsScan DEF Quiet, InScan
    <3>2. InScan(eviction_list)'
      BY <1>1, <1>2, <2>2, <3>1 DEF InScan
    <3>3. Distinct(eviction_list)' /\ (Listed(eviction_list) = scanned)'
      BY <1>1, <1>2, <2>2 DEF Distinct, Listed, InList
    <3>4. /\ mru_buffers \in Seq(Link) /\ <<>> \in Seq(Link)
          /\ mru_buffers = mru_buffers \o <<>>
      BY <1>2 DEF Holds
    <3>5. \A b \in Node : b \in {} <=> InList(<<>>, b) /\ ~Pinned(b)
      BY DEF InList
    <3>6. \E front, back \in Seq(Link) :
            /\ mru_buffers' = front \o back /\ at' = ListLast(front, None)
            /\ \A b \in Node : b \in scanned' <=> InList(back, b) /\ ~Pinned(b)
      BY <1>2, <2>1, <2>2, <2>3, <3>4, <3>5
    <3>7. \A b : Pinned(b)' <=> Pinned(b)
      BY <2>3 DEF Pinned
    <3>8. (scan.hit_end = 0)'
      BY <2>1
    <3>9. allocated \ scanned = allocated
      BY <1>2
    <3>10. ~RoomFor(buffers[cur].size, allocated \ scanned)'
      BY <1>1, <2>2, <2>3, <2>4, <3>9 DEF RoomFor, Apart, Asked
    <3> QED BY <3>2, <3>3, <3>6, <3>7, <3>8, <3>10 DEF Walked
  <2>8. ScanType'
    BY <2>5 DEF Asking, Requested
  <2>9. RunOK'
    BY <2>1, <2>5, <2>6, <2>7, <2>8 DEF RunOK
  <2> QED BY <2>3, <2>9 DEF IInv
<1> QED BY <1>6, <1>7

(* What is known at the scan's points.                                     *)
LEMMA AtScanPoint ==
  ASSUME IInv, pc \in {"scan", "giveup", "found", "evict"}
  PROVE  /\ TypeOK /\ PoolOK /\ ScanType /\ Asking /\ Unpinned /\ ~aborted
         /\ ~Resting /\ cur \in Live /\ Requested /\ aborted = FALSE
         /\ mru_buffers \in Seq(Link) /\ Distinct(mru_buffers)
         /\ \A c : InList(mru_buffers, c) <=> c \in allocated
<1>1. TypeOK /\ PoolOK /\ ScanType /\ Asking /\ Unpinned /\ ~aborted /\ ~Resting
  BY DEF IInv, RunOK, Resting
<1> QED BY <1>1 DEF TypeOK, PoolOK, Holds, Asking

(* Steps of a scan change neither the buffers nor what is asked for.       *)
LEMMA AskingStays ==
  ASSUME Asking, ScanType', UNCHANGED <<buffers, cur>>,
         scan'.size = scan.size, scan'.alignment = scan.alignment,
         scan'.range_start = scan.range_start, scan'.range_end = scan.range_end
  PROVE  Asking'
BY DEF Asking, Requested

(* RoomFor, for what the scan asks for.                                    *)
LEMMA RoomIsWanted ==
  ASSUME Asking, NEW A
  PROVE  RoomFor(buffers[cur].size, A)
           <=> \E p \in Int : Wanted(p) /\ Apart(p, scan.size, A, start, size)
BY DEF Asking, RoomFor, Wanted

(* A pinned buffer is passed over.                                         *)
LEMMA ScanSkipInv ==
  ASSUME IInv, ScanSkip
  PROVE  IInv'
<1>1. /\ pc = "scan" /\ at # None /\ Pinned(at) /\ at' = ListPrev(mru_buffers, at, None)
      /\ UNCHANGED <<mmVars, poolVars, pc, cur, eviction_list, aborted>>
  BY DEF ScanSkip, At
<1>2. /\ TypeOK /\ PoolOK /\ ScanType /\ Asking /\ Unpinned /\ ~aborted
      /\ ~Resting /\ aborted = FALSE /\ mru_buffers \in Seq(Link) /\ Distinct(mru_buffers)
  BY <1>1, AtScanPoint
<1>3. Walked
  BY <1>1 DEF IInv, RunOK
<1>4. UNCHANGED <<next, prev, start, size, allocated, hole_size, hole_stack, holes_size,
                  holes_addr, scan, scanned>>
  BY <1>1 DEF mmVars
<1>5. TypeOK' /\ PoolOK' /\ Live' = Live /\ buffers' = buffers /\ mru_buffers' = mru_buffers
  BY <1>1, <1>2, <1>4, ScanFrame DEF Labels
<1>6. ScanType' /\ Asking'
  BY <1>1, <1>2, <1>4, <1>5, AskingStays DEF ScanType
<1>7. Unpinned'
  BY <1>1, <1>2, <1>5 DEF Unpinned, Pinned, Listed
<1>8. PICK front, back \in Seq(Link) :
        /\ mru_buffers = front \o back /\ at = ListLast(front, None)
        /\ \A b \in Node : b \in scanned <=> InList(back, b) /\ ~Pinned(b)
  BY <1>3 DEF Walked
<1>9. \E f, w \in Seq(Link) :
        /\ mru_buffers' = f \o w /\ at' = ListLast(f, None)
        /\ \A b \in Node : b \in scanned' <=> InList(w, b) /\ ~Pinned(b)
  <2>1. front # <<>> /\ at = front[Len(front)]
    BY <1>1, <1>8 DEF ListLast
  <2>2. Distinct(front \o back)
    BY <1>2, <1>8
  <2>3. PICK f \in Seq(Link) : Passed(front \o back, f, at, back, None)
    BY <2>1, <2>2, LastPassed
  <2> DEFINE w == <<at>> \o back
  <2>4. <<at>> \in Seq(Link) /\ w \in Seq(Link)
    <3>1. at \in Link
      BY <1>8, <2>1, <2>2, LastPassed
    <3> QED BY <3>1
  <2>5. \A b : InList(w, b) <=> InList(<<at>>, b) \/ InList(back, b)
    BY <1>8, <2>4, JoinedItems
  <2>6. \A b : InList(<<at>>, b) => b = at
    BY DEF InList
  <2>7. \A b \in Node : b \in scanned' <=> InList(w, b) /\ ~Pinned(b)
    BY <1>1, <1>4, <1>8, <2>5, <2>6
  <2>8. mru_buffers' = f \o w /\ at' = ListLast(f, None)
    BY <1>1, <1>5, <1>8, <2>3 DEF Passed
  <2> HIDE DEF w
  <2> QED BY <2>3, <2>4, <2>7, <2>8
<1>10. \A b : Pinned(b)' <=> Pinned(b)
  BY <1>5 DEF Pinned
<1>11. Walked'
  <2>1. InScan(eviction_list)'
    BY <1>1, <1>3, <1>4 DEF Walked, InScan
  <2>2. (Distinct(eviction_list) /\ Listed(eviction_list) = scanned)'
    BY <1>1, <1>3, <1>4 DEF Walked, Listed
  <2>3. (scan.hit_end = 0 /\ ~RoomFor(buffers[cur].size, allocated \ scanned))'
    BY <1>1, <1>3, <1>4, <1>5 DEF Walked, RoomFor, Apart, Asked
  <2> QED BY <1>9, <1>10, <2>1, <2>2, <2>3 DEF Walked
<1>12. pc' = "scan" /\ ~aborted'
  BY <1>1, <1>2
<1>13. RunOK'
  BY <1>6, <1>7, <1>11, <1>12 DEF RunOK
<1> QED BY <1>5, <1>13 DEF IInv

(* A block is added to the scan.                                           *)
LEMMA ScanAddInv ==
  ASSUME IInv, ScanAdd
  PROVE  IInv'
<1>1. /\ pc = "scan" /\ at # None /\ ~Pinned(at) /\ at \in allocated \ scanned
      /\ ScanAddBlock(at) /\ eviction_list' = ListPrepend(eviction_list, at)
      /\ UNCHANGED <<poolVars, cur, aborted>>
  BY DEF ScanAdd, At, MayScanAdd
<1>2. /\ TypeOK /\ PoolOK /\ ScanType /\ Asking /\ Unpinned /\ ~aborted /\ Requested
      /\ ~Resting /\ aborted = FALSE /\ mru_buffers \in Seq(Link) /\ Distinct(mru_buffers)
      /\ \A c : InList(mru_buffers, c) <=> c \in allocated
  BY <1>1, AtScanPoint
<1>3. Walked /\ InScan(eviction_list) /\ Distinct(eviction_list)
      /\ Listed(eviction_list) = scanned
  BY <1>1 DEF IInv, RunOK, Walked
<1>4. /\ UNCHANGED <<start, size, allocated, hole_size, hole_stack, holes_size, holes_addr>>
      /\ scanned' = scanned \cup {at}
  BY <1>1 DEF ScanAddBlock, nodeVars, holeVars
<1>5. pc' \in {"scan", "found"}
  BY DEF ScanAdd, Goto
<1>6. TypeOK' /\ PoolOK' /\ Live' = Live /\ buffers' = buffers /\ mru_buffers' = mru_buffers
  BY <1>1, <1>2, <1>4, <1>5, ScanFrame DEF Labels
<1>7. /\ ScanType'
      /\ ScanHit(at) = {} => scan' = scan
      /\ ScanHit(at) # {} => \E p \in ScanHit(at) :
           /\ scan'.size = scan.size /\ scan'.alignment = scan.alignment
           /\ scan'.range_start = scan.range_start /\ scan'.range_end = scan.range_end
           /\ scan'.hit_start = p /\ scan'.hit_end = p + scan.size
  BY <1>1, <1>2, <1>3, ScanAddFields
<1>8. /\ scan'.size = scan.size /\ scan'.alignment = scan.alignment
      /\ scan'.range_start = scan.range_start /\ scan'.range_end = scan.range_end
  BY <1>7
<1>9. Asking'
  BY <1>1, <1>2, <1>6, <1>7, <1>8, AskingStays
<1>10. /\ eviction_list \in Seq(Node) /\ allocated \in SUBSET Node
       /\ scanned \in SUBSET allocated /\ at \in Node /\ ~InList(eviction_list, at)
  <2>1. allocated \in SUBSET Node /\ scanned \in SUBSET allocated
    BY <1>3, NodeTypes
  <2>2. eviction_list \in Seq(Node)
    BY <1>3 DEF InScan, ScanState
  <2> QED BY <1>1, <1>3, <2>1, <2>2 DEF Listed
<1>11. /\ eviction_list' \in Seq(Node) /\ Distinct(eviction_list')
       /\ \A c : InList(eviction_list', c) <=> InList(eviction_list, c) \/ c = at
  BY <1>1, <1>3, <1>10, ListPrependOrder
<1>12. Listed(eviction_list') = scanned'
  BY <1>3, <1>4, <1>10, <1>11 DEF Listed
<1>13. \A b : Pinned(b)' <=> Pinned(b)
  BY <1>6 DEF Pinned
<1>14. Unpinned'
  <2>1. at \in Live
    BY <1>1, <1>2 DEF PoolOK
  <2>2. \A b \in Listed(eviction_list') : b \in Live /\ ~Pinned(b)
    BY <1>1, <1>2, <1>3, <1>4, <1>12, <2>1 DEF Unpinned
  <2>3. Listed(eviction_list)' = Listed(eviction_list')
    BY DEF Listed
  <2> HIDE DEF Live
  <2> QED BY <1>6, <1>13, <2>2, <2>3 DEF Unpinned
<1>15. InScan(eviction_list)'
  BY <1>1, <1>3, ScanAddKeeps DEF InScan, InScanNext
<1>16. (Distinct(eviction_list) /\ Listed(eviction_list) = scanned)'
  BY <1>11, <1>12 DEF Listed, Distinct
<1>17. CASE ScanHit(at) = {}
  <2>1. pc' = "scan" /\ at' = ListPrev(mru_buffers, at, None) /\ scan' = scan
    BY <1>7, <1>17 DEF ScanAdd, Goto
  <2>2. PICK front, back \in Seq(Link) :
          /\ mru_buffers = front \o back /\ at = ListLast(front, None)
          /\ \A b \in Node : b \in scanned <=> InList(back, b) /\ ~Pinned(b)
    BY <1>3 DEF Walked
  <2>3. \E f, w \in Seq(Link) :
          /\ mru_buffers' = f \o w /\ at' = ListLast(f, None)
          /\ \A b \in Node : b \in scanned' <=> InList(w, b) /\ ~Pinned(b)
    <3>1. front # <<>> /\ at = front[Len(front)]
      BY <1>1, <2>2 DEF ListLast
    <3>2. Distinct(front \o back)
      BY <1>2, <2>2
    <3>3. PICK f \in Seq(Link) : Passed(front \o back, f, at, back, None)
      BY <3>1, <3>2, LastPassed
    <3> DEFINE w == <<at>> \o back
    <3>4. <<at>> \in Seq(Link) /\ w \in Seq(Link)
      <4>1. at \in Link
        BY <2>2, <3>1, <3>2, LastPassed
      <4> QED BY <4>1
    <3>5. \A b : InList(w, b) <=> InList(<<at>>, b) \/ InList(back, b)
      BY <2>2, <3>4, JoinedItems
    <3>6. \A b : InList(<<at>>, b) <=> b = at
      BY DEF InList
    <3>7. \A b \in Node : b \in scanned' <=> InList(w, b) /\ ~Pinned(b)
      BY <1>1, <1>4, <2>2, <3>5, <3>6
    <3>8. mru_buffers' = f \o w /\ at' = ListLast(f, None)
      BY <1>6, <2>1, <2>2, <3>3 DEF Passed
    <3> HIDE DEF w
    <3> QED BY <3>3, <3>4, <3>7, <3>8
  <2>4. ~RoomFor(buffers[cur].size, allocated \ scanned)
    BY <1>3 DEF Walked
  <2> DEFINE A == (allocated \ scanned) \ {at}
  <2>5. ~RoomFor(buffers[cur].size, A)
    <3>1. ASSUME NEW p \in Int, Wanted(p), Apart(p, scan.size, A, start, size) PROVE FALSE
      <4>1. Apart(p, scan.size, allocated \ scanned, start, size)
        BY <1>1, <1>2, <1>3, <1>17, <3>1, MissGainsNothing
      <4> QED BY <1>2, <2>4, <3>1, <4>1, RoomIsWanted
    <3> QED BY <1>2, <3>1, RoomIsWanted
  <2>6. allocated' \ scanned' = A
    BY <1>4
  <2> HIDE DEF A
  <2>7. RoomFor(buffers[cur].size, allocated \ scanned)' <=> RoomFor(buffers[cur].size, A)
    BY <1>1, <1>4, <1>6, <2>6 DEF RoomFor, Apart, Asked
  <2>8. Walked'
    <3>1. (scan.hit_end = 0)'
      BY <1>3, <2>1 DEF Walked
    <3> QED BY <1>13, <1>15, <1>16, <2>3, <2>5, <2>7, <3>1 DEF Walked
  <2>9. ~aborted'
    BY <1>1, <1>2
  <2>10. RunOK'
    BY <1>7, <1>9, <1>14, <2>1, <2>8, <2>9 DEF RunOK
  <2> QED BY <1>6, <2>10 DEF IInv
<1>18. CASE ScanHit(at) # {}
  <2>1. pc' = "found" /\ at' = at
    BY <1>18 DEF ScanAdd, Goto
  <2>2. PICK p \in ScanHit(at) : scan'.hit_start = p /\ scan'.hit_end = p + scan.size
    BY <1>7, <1>18
  <2>3. /\ p \in Int /\ Wanted(p)
        /\ Apart(p, scan.size, (allocated \ scanned) \ {at}, start, size)
    BY <1>1, <1>2, <1>3, HitIsPlace
  <2> DEFINE A == allocated \ Listed(eviction_list')
  <2>4. A = (allocated \ scanned) \ {at}
    BY <1>4, <1>12
  <2>5. Apart(p, scan.size, A, start, size)
    BY <2>3, <2>4
  <2>6. (allocated \ Listed(eviction_list))' = A
    BY <1>4 DEF Listed
  <2> HIDE DEF A
  <2>7. Promised'
    <3>1. (scan.hit_end = Hit + scan.size /\ Wanted(Hit))'
      BY <1>8, <2>2, <2>3 DEF Hit, Wanted, Asked
    <3>2. Apart(Hit, scan.size, allocated \ Listed(eviction_list), start, size)'
      BY <1>4, <1>8, <2>2, <2>5, <2>6 DEF Hit, Apart
    <3> QED BY <3>1, <3>2 DEF Promised
  <2>8. (Listed(eviction_list) \subseteq allocated)'
    BY <1>1, <1>4, <1>10, <1>16
  <2>9. \E v, r \in Seq(Node) : Unwinding(v, r)'
    <3>1. PICK e \in Seq(Node) : e = eviction_list'
      BY <1>11
    <3>2. e # <<>> /\ e[1] = at
      <4>1. e = <<at>> \o eviction_list /\ eviction_list \in Seq(Node) /\ at \in Node
        BY <1>1, <1>10, <3>1 DEF ListPrepend
      <4> QED BY <4>1
    <3>3. e = <<>> \o e /\ <<>> \in Seq(Node)
      BY <3>1
    <3>4. at' = ListFirst(e, None)
      BY <2>1, <3>2 DEF ListFirst
    <3>5. InScan(e)' /\ Listed(e)' = scanned' /\ Distinct(e)
      BY <1>11, <1>12, <1>15, <3>1 DEF Listed, InScan
    <3>6. Unwinding(<<>>, e)'
      BY <1>16, <3>1, <3>3, <3>4, <3>5 DEF Unwinding, Parted
    <3> QED BY <3>1, <3>3, <3>6
  <2>10. ~aborted'
    BY <1>1, <1>2
  <2>11. RunOK'
    BY <1>7, <1>9, <1>14, <2>1, <2>7, <2>8, <2>9, <2>10 DEF RunOK
  <2> QED BY <1>6, <2>11 DEF IInv
<1> QED BY <1>17, <1>18

(* The walk has come to the front of the list: whatever is not pinned has  *)
(* been scanned, and there is no place even so.                            *)
LEMMA ScanEndInv ==
  ASSUME IInv, ScanEnd
  PROVE  IInv'
<1>1. /\ pc = "scan" /\ at = None /\ pc' = "giveup" /\ at' = ListFirst(eviction_list, None)
      /\ UNCHANGED <<mmVars, poolVars, cur, eviction_list, aborted>>
  BY DEF ScanEnd, At, Goto
<1>2. /\ TypeOK /\ PoolOK /\ ScanType /\ Asking /\ Unpinned /\ ~aborted
      /\ ~Resting /\ aborted = FALSE /\ mru_buffers \in Seq(Link) /\ Distinct(mru_buffers)
      /\ \A c : InList(mru_buffers, c) <=> c \in allocated
  BY <1>1, AtScanPoint
<1>3. Walked /\ InScan(eviction_list) /\ Distinct(eviction_list)
      /\ Listed(eviction_list) = scanned
  BY <1>1 DEF IInv, RunOK, Walked
<1>4. UNCHANGED <<next, prev, start, size, allocated, hole_size, hole_stack, holes_size,
                  holes_addr, scan, scanned>>
  BY <1>1 DEF mmVars
<1>5. TypeOK' /\ PoolOK' /\ Live' = Live /\ buffers' = buffers /\ mru_buffers' = mru_buffers
  BY <1>1, <1>2, <1>4, ScanFrame DEF Labels
<1>6. ScanType' /\ Asking'
  BY <1>1, <1>2, <1>4, <1>5, AskingStays DEF ScanType
<1>7. Unpinned'
  BY <1>1, <1>2, <1>5 DEF Unpinned, Pinned, Listed
<1>8. PICK front, back \in Seq(Link) :
        /\ mru_buffers = front \o back /\ at = ListLast(front, None)
        /\ \A b \in Node : b \in scanned <=> InList(back, b) /\ ~Pinned(b)
  BY <1>3 DEF Walked
<1>9. allocated \in SUBSET Node /\ scanned \in SUBSET allocated
  BY <1>3, NodeTypes
<1>10. front = <<>>
  <2> SUFFICES ASSUME front # <<>> PROVE FALSE
    OBVIOUS
  <2>1. at = front[Len(front)]
    BY <1>8 DEF ListLast
  <2>2. Distinct(front \o back)
    BY <1>2, <1>8
  <2>3. InList(front \o back, at)
    BY <2>1, <2>2, LastPassed
  <2> QED BY <1>1, <1>2, <1>8, <1>9, <2>3, TestDrmMmConstants
<1>11. mru_buffers = back
  BY <1>8, <1>10
<1>12. allocated \ scanned = {b \in allocated : Pinned(b)}
  BY <1>2, <1>8, <1>9, <1>11
<1>13. ~RoomFor(buffers[cur].size, {b \in allocated : Pinned(b)})
  BY <1>3, <1>12 DEF Walked
<1>14. ~RoomFor(buffers[cur].size, {b \in allocated : Pinned(b)})'
  BY <1>1, <1>4, <1>5, <1>13 DEF RoomFor, Apart, Asked, Pinned
<1>15. \E v, r \in Seq(Node) : Unwinding(v, r)'
  <2>1. eviction_list \in Seq(Node)
    BY <1>3 DEF InScan, ScanState
  <2>2. PICK e \in Seq(Node) : e = eviction_list
    BY <2>1
  <2>3. e = <<>> \o e /\ <<>> \in Seq(Node)
    BY <2>2
  <2>4. InScan(e)' /\ Listed(e)' = scanned' /\ Distinct(e)
    BY <1>3, <1>4, <2>2 DEF Listed, InScan
  <2>5. Unwinding(<<>>, e)'
    BY <1>1, <2>2, <2>3, <2>4 DEF Unwinding, Parted
  <2> QED BY <2>2, <2>3, <2>5
<1>16. (scan.hit_end = 0)'
  BY <1>3, <1>4 DEF Walked
<1>17. ~aborted'
  BY <1>1, <1>2
<1>18. RunOK'
  BY <1>1, <1>6, <1>7, <1>14, <1>15, <1>16, <1>17 DEF RunOK
<1> QED BY <1>5, <1>18 DEF IInv

-----------------------------------------------------------------------------
(* page_out_buffers_for_insertion: the loops over the eviction list        *)

(* The first block of what is left of the list comes off the scan.         *)
LEMMA UnwindStep ==
  ASSUME NEW v \in Seq(Node), NEW r \in Seq(Node), Unwinding(v, r), at # None,
         ScanRemoveBlock(at)
  PROVE  /\ r # <<>> /\ at = r[1] /\ at \in scanned /\ at \in allocated /\ at \in Node
         /\ start[at] >= 0 /\ start[at] \in Int /\ size[at] \in Int
         /\ InScanNext(Tail(r)) /\ Listed(Tail(r)) = scanned'
         /\ Tail(r) \in Seq(Node) /\ Append(v, at) \in Seq(Node)
         /\ ListNext(eviction_list, at, None) = ListFirst(Tail(r), None)
         /\ eviction_list = Append(v, at) \o Tail(r)
         /\ ListRemove(eviction_list, at) = v \o Tail(r)
         /\ UNCHANGED <<scan, start, size, allocated>>
<1>1. /\ eviction_list = v \o r /\ at = ListFirst(r, None) /\ Distinct(v \o r)
      /\ InScan(r) /\ Listed(r) = scanned
  BY DEF Unwinding, Parted
<1>2. r # <<>> /\ at = r[1]
  BY <1>1 DEF ListFirst
<1>3. Distinct(r)
  BY <1>1, JoinedItems
<1>4. at \in Node /\ InList(r, at) /\ \A c : InList(Tail(r), c) <=> InList(r, c) /\ c # at
  BY <1>2, <1>3, TailItems
<1>5. at \in scanned
  BY <1>1, <1>4 DEF Listed
<1>6. at \in allocated /\ start[at] >= 0 /\ start[at] \in Int /\ size[at] \in Int
  BY <1>1, <1>5, NodeTypes
<1>7. InScanNext(Tail(r))
  BY <1>1, <1>2, ScanRemoveKeeps
<1>8. scanned' = scanned \ {at} /\ UNCHANGED <<scan, start, size, allocated>>
  BY DEF ScanRemoveBlock, nodeVars
<1>9. Listed(Tail(r)) = scanned'
  BY <1>1, <1>4, <1>8 DEF Listed
<1>10. /\ ListNext(v \o r, r[1], None) = ListFirst(Tail(r), None)
       /\ v \o r = Append(v, r[1]) \o Tail(r)
       /\ Append(v, r[1]) \in Seq(Node) /\ Tail(r) \in Seq(Node)
  BY <1>1, <1>2, FirstDone
<1>11. ListRemove(v \o r, r[1]) = v \o Tail(r)
  BY <1>1, <1>2, FirstTakenOut
<1> QED BY <1>1, <1>2, <1>4, <1>5, <1>6, <1>7, <1>8, <1>9, <1>10, <1>11

(* At the end of the walk nothing is left of the list.                     *)
LEMMA NothingLeft ==
  ASSUME NEW v \in Seq(Node), NEW r \in Seq(Node), Parted(v, r), at = None
  PROVE  r = <<>> /\ Listed(r) = {}
<1>1. r = <<>>
  <2>1. None = ListFirst(r, None) /\ None \notin Node
    BY TestDrmMmConstants DEF Parted
  <2>2. r # <<>> => r[1] \in Node
    OBVIOUS
  <2> QED BY <2>1, <2>2 DEF ListFirst
<1> QED BY <1>1 DEF Listed, InList

(* The walk over the list goes on, and the list stays.                     *)
LEMMA UnwindsOn ==
  ASSUME NEW v \in Seq(Node), NEW r \in Seq(Node), Unwinding(v, r), at # None,
         ScanRemoveBlock(at), at' = ListNext(eviction_list, at, None),
         eviction_list' = eviction_list
  PROVE  \E w, t \in Seq(Node) : Unwinding(w, t)'
<1>1. /\ InScanNext(Tail(r)) /\ Listed(Tail(r)) = scanned'
      /\ Tail(r) \in Seq(Node) /\ Append(v, at) \in Seq(Node)
      /\ ListNext(eviction_list, at, None) = ListFirst(Tail(r), None)
      /\ eviction_list = Append(v, at) \o Tail(r)
  BY UnwindStep
<1>2. PICK w \in Seq(Node), t \in Seq(Node) : w = Append(v, at) /\ t = Tail(r)
  BY <1>1
<1>3. /\ InScan(t)' /\ Listed(t)' = scanned' /\ at' = ListFirst(t, None)
      /\ eviction_list' = w \o t /\ Distinct(eviction_list')
  BY <1>1, <1>2 DEF InScan, InScanNext, Listed, Unwinding, Parted
<1>4. Unwinding(w, t)'
  BY <1>2, <1>3 DEF Unwinding, Parted
<1> QED BY <1>4

(* No place was found, and no block is selected: BUG_ON(ret).              *)
LEMMA GiveUpStepInv ==
  ASSUME IInv, GiveUpStep
  PROVE  IInv' /\ ~ScanSelects(at)
<1>1. /\ pc = "giveup" /\ at # None /\ ScanRemoveBlock(at) /\ aborted' = ScanSelects(at)
      /\ at' = ListNext(eviction_list, at, None)
      /\ UNCHANGED <<poolVars, pc, cur, eviction_list>>
  BY DEF GiveUpStep, At
<1>2. /\ TypeOK /\ PoolOK /\ ScanType /\ Asking /\ Unpinned /\ ~aborted /\ ~Resting
  BY <1>1, AtScanPoint
<1>3. /\ scan.hit_end = 0 /\ \E v, r \in Seq(Node) : Unwinding(v, r)
      /\ ~RoomFor(buffers[cur].size, {b \in allocated : Pinned(b)})
  BY <1>1 DEF IInv, RunOK
<1>4. PICK v \in Seq(Node), r \in Seq(Node) : Unwinding(v, r)
  BY <1>3
<1>5. /\ start[at] >= 0 /\ start[at] \in Int
      /\ UNCHANGED <<scan, start, size, allocated>>
  BY <1>1, <1>4, UnwindStep
<1>6. ~ScanSelects(at)
  BY <1>3, <1>5 DEF ScanSelects
<1>7. aborted' = FALSE
  BY <1>1, <1>6 DEF ScanSelects
<1>8. TypeOK' /\ PoolOK' /\ Live' = Live /\ buffers' = buffers
  BY <1>1, <1>2, <1>5, <1>7, ScanFrame DEF Labels
<1>9. ScanType' /\ Asking'
  BY <1>1, <1>2, <1>5, <1>8, AskingStays DEF ScanType
<1>10. Unpinned'
  BY <1>1, <1>2, <1>8 DEF Unpinned, Pinned, Listed
<1>11. ~RoomFor(buffers[cur].size, {b \in allocated : Pinned(b)})'
  BY <1>1, <1>3, <1>5, <1>8 DEF RoomFor, Apart, Asked, Pinned
<1>12. \E w, t \in Seq(Node) : Unwinding(w, t)'
  BY <1>1, <1>4, UnwindsOn
<1>13. (scan.hit_end = 0)'
  BY <1>3, <1>5
<1>14. RunOK'
  BY <1>1, <1>7, <1>9, <1>10, <1>11, <1>12, <1>13 DEF RunOK
<1> QED BY <1>6, <1>8, <1>14 DEF IInv

(* page_out_buffers_for_insertion returns false.                           *)
LEMMA GiveUpInv ==
  ASSUME IInv, GiveUp
  PROVE  IInv'
<1>1. /\ pc = "giveup" /\ at = None /\ scan' = NoScan /\ Finish
      /\ UNCHANGED <<listVars, nodeVars, holeVars, scanned, poolVars, aborted>>
  BY DEF GiveUp, At
<1>2. TypeOK /\ PoolOK /\ ~aborted
  BY <1>1, AtScanPoint
<1>3. PICK v \in Seq(Node), r \in Seq(Node) : Unwinding(v, r)
  BY <1>1 DEF IInv, RunOK
<1>4. Quiet /\ scanned = {}
  <2>1. r = <<>> /\ InScan(r)
    BY <1>1, <1>3, NothingLeft DEF Unwinding
  <2> QED BY <2>1, RosterEmpty
<1>5. QuietNext /\ scanned' = {} /\ UNCHANGED <<start, size, allocated>>
  BY <1>1, <1>4 DEF Quiet, QuietNext, listVars, nodeVars, holeVars
<1>6. ScanType'
  BY <1>1, DrmMmConstants DEF ScanType, NoScan, SearchModes
<1>7. /\ pc' = "idle" /\ eviction_list' = <<>> /\ aborted' = aborted
      /\ Live' = Live /\ buffers' = buffers /\ mru_buffers' = mru_buffers
  BY <1>1 DEF Finish, Live, poolVars
<1>8. PoolOK'
  <2>1. Holds(mru_buffers', allocated)
    BY <1>2, <1>7 DEF PoolOK
  <2> QED BY <1>2, <1>5, <1>7, <2>1, PoolFrame
<1>9. TypeOK'
  BY <1>2, <1>7 DEF TypeOK, Labels, Resting
<1> QED BY <1>2, <1>5, <1>6, <1>7, <1>8, <1>9, QuietPoint

(* A block that is not selected is clear of the place, and goes from the   *)
(* list.                                                                   *)
LEMMA FoundStepInv ==
  ASSUME IInv, FoundStep
  PROVE  IInv'
<1>1. /\ pc = "found" /\ at # None /\ ScanRemoveBlock(at)
      /\ eviction_list' = IF ScanSelects(at) THEN eviction_list
                                             ELSE ListRemove(eviction_list, at)
      /\ at' = ListNext(eviction_list, at, None)
      /\ UNCHANGED <<poolVars, pc, cur, aborted>>
  BY DEF FoundStep, At
<1>2. /\ TypeOK /\ PoolOK /\ ScanType /\ Asking /\ Unpinned /\ ~aborted /\ ~Resting
      /\ aborted = FALSE /\ Requested
  BY <1>1, AtScanPoint
<1>3. /\ Promised /\ Listed(eviction_list) \subseteq allocated
      /\ \E v, r \in Seq(Node) : Unwinding(v, r)
  BY <1>1 DEF IInv, RunOK
<1>4. PICK v \in Seq(Node), r \in Seq(Node) : Unwinding(v, r)
  BY <1>3
<1>5. /\ r # <<>> /\ at = r[1] /\ at \in allocated /\ at \in Node
      /\ start[at] \in Int /\ size[at] \in Int
      /\ InScanNext(Tail(r)) /\ Listed(Tail(r)) = scanned'
      /\ Tail(r) \in Seq(Node)
      /\ ListNext(eviction_list, at, None) = ListFirst(Tail(r), None)
      /\ ListRemove(eviction_list, at) = v \o Tail(r)
      /\ UNCHANGED <<scan, start, size, allocated>>
  BY <1>1, <1>4, UnwindStep
<1>6. TypeOK' /\ PoolOK' /\ Live' = Live /\ buffers' = buffers
  BY <1>1, <1>2, <1>5, ScanFrame DEF Labels
<1>7. ScanType' /\ Asking'
  BY <1>1, <1>2, <1>5, <1>6, AskingStays DEF ScanType
<1>8. \A b : Pinned(b)' <=> Pinned(b)
  BY <1>6 DEF Pinned
<1>9. ASSUME Listed(eviction_list') \subseteq Listed(eviction_list),
             Apart(Hit, scan.size, allocated \ Listed(eviction_list'), start, size),
             \E w, t \in Seq(Node) : Unwinding(w, t)'
      PROVE  IInv'
  <2>1. Listed(eviction_list)' = Listed(eviction_list')
    BY DEF Listed
  <2>2. Unpinned'
    BY <1>2, <1>6, <1>8, <1>9, <2>1 DEF Unpinned
  <2>3. (scan.hit_end = Hit + scan.size /\ Wanted(Hit))'
    BY <1>3, <1>5 DEF Promised, Hit, Wanted, Asked
  <2>4. Apart(Hit, scan.size, allocated \ Listed(eviction_list), start, size)'
    BY <1>5, <1>9, <2>1 DEF Hit, Apart
  <2>5. Promised' /\ (Listed(eviction_list) \subseteq allocated)'
    BY <1>3, <1>5, <1>9, <2>1, <2>3, <2>4 DEF Promised
  <2>6. RunOK'
    BY <1>1, <1>2, <1>7, <1>9, <2>2, <2>5 DEF RunOK
  <2> QED BY <1>6, <2>6 DEF IInv
<1>10. CASE ScanSelects(at)
  <2>1. eviction_list' = eviction_list
    BY <1>1, <1>10
  <2>2. \E w, t \in Seq(Node) : Unwinding(w, t)'
    BY <1>1, <1>4, <2>1, UnwindsOn
  <2>3. Apart(Hit, scan.size, allocated \ Listed(eviction_list'), start, size)
    BY <1>3, <2>1 DEF Promised
  <2> QED BY <1>9, <2>1, <2>2, <2>3
<1>11. CASE ~ScanSelects(at)
  <2>1. eviction_list' = v \o Tail(r)
    BY <1>1, <1>5, <1>11
  <2>2. /\ eviction_list = v \o r /\ Distinct(v \o r)
    BY <1>4 DEF Unwinding, Parted
  <2>3. /\ \A c : InList(v \o r, c) <=> InList(v, c) \/ InList(r, c)
        /\ Distinct(r) /\ \A c : ~(InList(v, c) /\ InList(r, c))
    BY <2>2, JoinedItems
  <2>4. /\ InList(r, at) /\ \A c : InList(Tail(r), c) <=> InList(r, c) /\ c # at
    BY <1>5, <2>3, TailItems
  <2>5. \A c : InList(v \o Tail(r), c) <=> InList(v, c) \/ InList(Tail(r), c)
    BY <1>5, JoinedItems
  <2>6. Listed(eviction_list') = Listed(eviction_list) \ {at}
    BY <2>1, <2>2, <2>3, <2>4, <2>5 DEF Listed
  <2>7. Apart(Hit, scan.size, allocated \ Listed(eviction_list'), start, size)
    <3> DEFINE A == allocated \ Listed(eviction_list)
               B == allocated \ Listed(eviction_list')
    <3>1. \A m \in B : m \in A \/ m = at
      BY <2>6
    <3>2. Apart(Hit, scan.size, A, start, size) /\ scan.hit_end = Hit + scan.size
      BY <1>3 DEF Promised
    <3>3. start[at] + size[at] <= Hit \/ Hit + scan.size <= start[at]
      <4>1. Hit \in Int /\ scan.size \in Int /\ scan.hit_start = Hit
        BY <1>2 DEF ScanType, Hit
      <4> QED BY <1>5, <1>11, <3>2, <4>1 DEF ScanSelects, NodeEnd
    <3> HIDE DEF A, B
    <3>4. Apart(Hit, scan.size, B, start, size)
      BY <3>1, <3>2, <3>3 DEF Apart
    <3> QED BY <3>4 DEF B
  <2>8. Distinct(v \o Tail(r))
    <3>1. Distinct(eviction_list) /\ eviction_list \in Seq(Node)
      BY <2>2
    <3>2. InList(eviction_list, at)
      BY <2>2, <2>3, <2>4
    <3>3. Distinct(ListRemove(eviction_list, at))
      BY <3>1, <3>2, ListRemoveOrder
    <3> QED BY <1>5, <3>3
  <2>9. \E w, t \in Seq(Node) : Unwinding(w, t)'
    <3>1. PICK t \in Seq(Node) : t = Tail(r)
      BY <1>5
    <3>2. /\ InScan(t)' /\ Listed(t)' = scanned' /\ at' = ListFirst(t, None)
          /\ eviction_list' = v \o t /\ Distinct(eviction_list')
      BY <1>1, <1>5, <2>1, <2>8, <3>1 DEF InScan, InScanNext, Listed
    <3>3. Unwinding(v, t)'
      BY <3>1, <3>2 DEF Unwinding, Parted
    <3> QED BY <3>3
  <2> QED BY <1>9, <2>6, <2>7, <2>9
<1> QED BY <1>10, <1>11

(* Every block is off the scan; those that are left are to be evicted.     *)
LEMMA StartEvictInv ==
  ASSUME IInv, StartEvict
  PROVE  IInv'
<1>1. /\ pc = "found" /\ at = None /\ pc' = "evict" /\ at' = ListFirst(eviction_list, None)
      /\ UNCHANGED <<mmVars, poolVars, cur, eviction_list, aborted>>
  BY DEF StartEvict, At, Goto
<1>2. /\ TypeOK /\ PoolOK /\ ScanType /\ Asking /\ Unpinned /\ ~aborted /\ ~Resting
      /\ aborted = FALSE
  BY <1>1, AtScanPoint
<1>3. /\ Promised /\ Listed(eviction_list) \subseteq allocated
      /\ \E v, r \in Seq(Node) : Unwinding(v, r)
  BY <1>1 DEF IInv, RunOK
<1>4. PICK v \in Seq(Node), r \in Seq(Node) : Unwinding(v, r)
  BY <1>3
<1>5. Quiet /\ scanned = {}
  <2>1. r = <<>> /\ InScan(r)
    BY <1>1, <1>4, NothingLeft DEF Unwinding
  <2> QED BY <2>1, RosterEmpty
<1>6. QuietNext /\ scanned' = {} /\ ScanType' /\ UNCHANGED <<scan, start, size, allocated>>
  BY <1>1, <1>2, <1>5, MmSame
<1>7. TypeOK' /\ PoolOK' /\ Live' = Live /\ buffers' = buffers
  BY <1>1, <1>2, <1>6, ScanFrame DEF Labels
<1>8. Asking'
  BY <1>1, <1>2, <1>6, <1>7, AskingStays
<1>9. Unpinned'
  BY <1>1, <1>2, <1>7 DEF Unpinned, Pinned, Listed
<1>10. Promised'
  BY <1>1, <1>3, <1>6 DEF Promised, Hit, Wanted, Apart, Asked, Listed
<1>11. \E w, t \in Seq(Node) :
         (Parted(w, t) /\ Listed(eviction_list) \cap allocated = Listed(t))'
  <2>1. eviction_list \in Seq(Node) /\ Distinct(eviction_list)
    BY <1>4 DEF Unwinding, Parted
  <2>2. PICK e \in Seq(Node) : e = eviction_list
    BY <2>1
  <2>3. e = <<>> \o e /\ <<>> \in Seq(Node)
    BY <2>2
  <2>4. Parted(<<>>, e)'
    BY <1>1, <2>1, <2>2, <2>3 DEF Parted
  <2>5. (Listed(eviction_list) \cap allocated = Listed(e))'
    BY <1>1, <1>3, <1>6, <2>2 DEF Listed
  <2> QED BY <2>2, <2>3, <2>4, <2>5
<1>12. Quiet' /\ ~aborted'
  BY <1>1, <1>2, <1>6 DEF Quiet, QuietNext
<1>13. RunOK'
  BY <1>1, <1>6, <1>8, <1>9, <1>10, <1>11, <1>12 DEF RunOK
<1> QED BY <1>7, <1>13 DEF IInv

(* Evicting one leaves the place that was found where it is.               *)
LEMMA EvictStepInv ==
  ASSUME IInv, EvictStep
  PROVE  IInv'
<1>1. /\ pc = "evict" /\ at # None /\ RemoveBufferFromPool(at)
      /\ at' = ListNext(eviction_list, at, None)
      /\ UNCHANGED <<pc, cur, eviction_list, aborted>>
  BY DEF EvictStep, At
<1>2. /\ TypeOK /\ PoolOK /\ ScanType /\ Asking /\ Unpinned /\ ~aborted /\ ~Resting
      /\ aborted = FALSE /\ Quiet /\ scanned = {} /\ cur \in Live
  BY <1>1, AtScanPoint DEF IInv, RunOK
<1>3. /\ Promised
      /\ \E v, r \in Seq(Node) : Parted(v, r) /\ Listed(eviction_list) \cap allocated = Listed(r)
  BY <1>1 DEF IInv, RunOK
<1>4. PICK v \in Seq(Node), r \in Seq(Node) :
        Parted(v, r) /\ Listed(eviction_list) \cap allocated = Listed(r)
  BY <1>3
<1>5. eviction_list = v \o r /\ at = ListFirst(r, None) /\ Distinct(v \o r)
  BY <1>4 DEF Parted
<1>6. r # <<>> /\ at = r[1]
  BY <1>1, <1>5 DEF ListFirst
<1>7. /\ \A c : InList(v \o r, c) <=> InList(v, c) \/ InList(r, c)
      /\ Distinct(r) /\ \A c : ~(InList(v, c) /\ InList(r, c))
  BY <1>5, JoinedItems
<1>8. at \in Node /\ InList(r, at) /\ \A c : InList(Tail(r), c) <=> InList(r, c) /\ c # at
  BY <1>6, <1>7, TailItems
<1>9. at \in allocated /\ at \in Listed(eviction_list)
  BY <1>4, <1>8 DEF Listed
<1>10. /\ QuietNext /\ scanned' = {} /\ scan' = scan /\ PoolOK'
       /\ allocated' = allocated \ {at}
       /\ \A c \in allocated : c # at => start'[c] = start[c] /\ size'[c] = size[c]
       /\ Live' = Live /\ buffers' \in [Live -> Buffer]
       /\ \A c \in Live : /\ buffers'[c].size = buffers[c].size
                          /\ buffers'[c].in_use = buffers[c].in_use
                          /\ buffers'[c].unmoveable = buffers[c].unmoveable
                          /\ buffers'[c].paged_in <=> buffers[c].paged_in /\ c # at
  BY <1>1, <1>2, <1>9, RemovePool
<1>11. TypeOK'
  BY <1>1, <1>2, <1>10 DEF TypeOK
<1>12. ScanType'
  BY <1>2, <1>10 DEF ScanType
<1>13. Asking'
  <2>1. buffers'[cur'].size = buffers[cur].size
    BY <1>1, <1>2, <1>10
  <2> QED BY <1>2, <1>10, <1>12, <2>1 DEF Asking, Requested
<1>14. Unpinned'
  <2>1. Listed(eviction_list)' = Listed(eviction_list)
    BY <1>1 DEF Listed
  <2>2. \A c \in Live : Pinned(c)' <=> Pinned(c)
    BY <1>10 DEF Pinned
  <2> QED BY <1>2, <1>10, <2>1, <2>2 DEF Unpinned
<1>15. Promised'
  <2>1. (scan.hit_end = Hit + scan.size /\ Wanted(Hit))'
    BY <1>3, <1>10 DEF Promised, Hit, Wanted, Asked
  <2> DEFINE A == allocated \ Listed(eviction_list)
  <2>2. (allocated \ Listed(eviction_list))' = A
    BY <1>1, <1>9, <1>10 DEF Listed
  <2>3. Apart(Hit, scan.size, A, start, size)
    BY <1>3 DEF Promised
  <2>4. \A m \in A : start'[m] = start[m] /\ size'[m] = size[m]
    BY <1>9, <1>10
  <2> HIDE DEF A
  <2>5. Apart(Hit, scan.size, allocated \ Listed(eviction_list), start, size)'
    BY <1>10, <2>2, <2>3, <2>4 DEF Hit, Apart
  <2> QED BY <2>1, <2>5 DEF Promised
<1>16. \E w, t \in Seq(Node) :
         (Parted(w, t) /\ Listed(eviction_list) \cap allocated = Listed(t))'
  <2>1. /\ ListNext(v \o r, r[1], None) = ListFirst(Tail(r), None)
        /\ v \o r = Append(v, r[1]) \o Tail(r)
        /\ Append(v, r[1]) \in Seq(Node) /\ Tail(r) \in Seq(Node)
    BY <1>5, <1>6, FirstDone
  <2>2. PICK w \in Seq(Node), t \in Seq(Node) : w = Append(v, r[1]) /\ t = Tail(r)
    BY <2>1
  <2>3. Parted(w, t)'
    BY <1>1, <1>5, <1>6, <2>1, <2>2 DEF Parted
  <2>4. (Listed(eviction_list) \cap allocated = Listed(t))'
    <3>1. Listed(t) = Listed(r) \ {at}
      BY <1>8, <2>2 DEF Listed
    <3>2. Listed(eviction_list') \cap allocated' = Listed(r) \ {at}
      BY <1>1, <1>4, <1>10
    <3> QED BY <3>1, <3>2 DEF Listed
  <2> QED BY <2>3, <2>4
<1>17. Quiet' /\ ~aborted'
  BY <1>1, <1>2, <1>10 DEF Quiet, QuietNext
<1>18. RunOK'
  BY <1>1, <1>10, <1>12, <1>13, <1>14, <1>15, <1>16, <1>17 DEF RunOK
<1> QED BY <1>10, <1>11, <1>18 DEF IInv

(* With all of them gone the place is free: there is room.                 *)
LEMMA EndEvictInv ==
  ASSUME IInv, EndEvict
  PROVE  IInv'
<1>1. /\ pc = "evict" /\ at = None /\ scan' = NoScan /\ pc' = "insert3"
      /\ UNCHANGED <<listVars, nodeVars, holeVars, scanned, poolVars, cur, eviction_list, aborted>>
  BY DEF EndEvict, At, Goto
<1>2. /\ TypeOK /\ PoolOK /\ ScanType /\ Asking /\ Unpinned /\ ~aborted /\ ~Resting
      /\ aborted = FALSE /\ Quiet /\ scanned = {} /\ Requested /\ cur \in Live
  BY <1>1, AtScanPoint DEF IInv, RunOK
<1>3. /\ Promised
      /\ \E v, r \in Seq(Node) : Parted(v, r) /\ Listed(eviction_list) \cap allocated = Listed(r)
  BY <1>1 DEF IInv, RunOK
<1>4. allocated \ Listed(eviction_list) = allocated
  <2>1. PICK v \in Seq(Node), r \in Seq(Node) :
          Parted(v, r) /\ Listed(eviction_list) \cap allocated = Listed(r)
    BY <1>3
  <2>2. Listed(eviction_list) \cap allocated = {}
    BY <1>1, <2>1, NothingLeft
  <2> QED BY <2>2
<1>5. QuietNext /\ scanned' = {} /\ UNCHANGED <<start, size, allocated>>
  BY <1>1, <1>2 DEF Quiet, QuietNext, listVars, nodeVars, holeVars
<1>6. ScanType'
  BY <1>1, DrmMmConstants DEF ScanType, NoScan, SearchModes
<1>7. TypeOK' /\ PoolOK' /\ Live' = Live /\ buffers' = buffers
  BY <1>1, <1>2, <1>5, ScanFrame DEF Labels
<1>8. RoomFor(buffers[cur].size, allocated)
  <2>1. Hit \in Int /\ Wanted(Hit) /\ Apart(Hit, scan.size, allocated, start, size)
    BY <1>2, <1>3, <1>4 DEF Promised, Hit, ScanType
  <2> QED BY <1>2, <2>1, RoomIsWanted
<1>9. buffers[cur].size > 0
  BY <1>2 DEF Asking, Requested
<1>10. (buffers[cur].size > 0 /\ RoomFor(buffers[cur].size, allocated))'
  BY <1>1, <1>5, <1>7, <1>8, <1>9 DEF RoomFor, Apart, Asked
<1>11. Quiet' /\ ~aborted'
  BY <1>1, <1>2, <1>5 DEF Quiet, QuietNext
<1>12. RunOK'
  BY <1>1, <1>5, <1>6, <1>10, <1>11 DEF RunOK
<1> QED BY <1>7, <1>12 DEF IInv

-----------------------------------------------------------------------------
(* The invariant                                                           *)

(* A step that changes nothing keeps the invariant. *)
LEMMA StutterInv ==
  ASSUME IInv, UNCHANGED vars
  PROVE  IInv'
<1>1. /\ UNCHANGED <<next, prev, start, size, allocated, hole_size, hole_stack, holes_size,
                     holes_addr, scan, scanned>>
      /\ UNCHANGED <<buffers, mru_buffers, pc, cur, at, eviction_list, aborted>>
  BY DEF vars, mmVars
<1>2. TypeOK'
  BY <1>1 DEF IInv, TypeOK, Live, Resting
<1>3. PoolOK'
  BY <1>1 DEF IInv, PoolOK, Live, Holds
<1>4. /\ (Asking' <=> Asking) /\ (Unpinned' <=> Unpinned) /\ (Promised' <=> Promised)
      /\ (ScanType' <=> ScanType) /\ (Quiet' <=> Quiet)
  BY <1>1 DEF Asking, Requested, Unpinned, Promised, ScanType, Quiet, Pinned, Listed, Hit,
              Wanted, Apart, Asked, Live
<1>5. /\ Walked' <=> Walked
      /\ \A v, r \in Seq(Node) : /\ Unwinding(v, r)' <=> Unwinding(v, r)
                                 /\ Parted(v, r)' <=> Parted(v, r)
  BY <1>1 DEF Walked, Unwinding, Parted, InScan, Listed, Pinned, RoomFor, Apart, Asked
<1>6. /\ \A A : Listed(A)' = Listed(A)
      /\ RoomFor(buffers[cur].size, allocated)' <=> RoomFor(buffers[cur].size, allocated)
      /\ RoomFor(buffers[cur].size, {b \in allocated : Pinned(b)})'
           <=> RoomFor(buffers[cur].size, {b \in allocated : Pinned(b)})
      /\ Listed(eviction_list)' = Listed(eviction_list) /\ Live' = Live
  BY <1>1 DEF Listed, RoomFor, Apart, Asked, Pinned, Live
<1>7. RunOK
  BY DEF IInv
<1>8. RunOK'
  BY <1>1, <1>4, <1>5, <1>6, <1>7 DEF RunOK
<1> QED BY <1>2, <1>3, <1>8 DEF IInv

(* Every step of the program keeps it.                                     *)
LEMMA NextInv ==
  ASSUME IInv, [Next]_vars
  PROVE  IInv'
<1>1. ASSUME NEW b \in Node, Command(b) PROVE IInv'
  <2>1. CASE \E s \in Sizes, u \in BOOLEAN : BufCreate(b, s, u)
    BY <2>1, BufCreateInv
  <2>2. CASE BufDestroy(b)
    BY <2>2, FreeInv DEF BufDestroy, AtCommand
  <2>3. CASE \E used \in BOOLEAN : BufSetInUse(b, used)
    BY <2>3, BufSetInUseInv
  <2>4. CASE BufUse(b)
    BY <2>4, BufUseInv
  <2> QED BY <1>1, <2>1, <2>2, <2>3, <2>4 DEF Command
<1>2. CASE EndOfFile \/ StartPurge \/ EndPurge \/ Takedown
  BY <1>2, WalkInv
<1>3. CASE PurgeStep
  <2>1. CASE buffers[at].madv = "dontneed" /\ ~Pinned(at)
    BY <1>3, <2>1, PurgeInv
  <2>2. CASE ~(buffers[at].madv = "dontneed" /\ ~Pinned(at))
    BY <1>3, <2>2, WalkInv
  <2> QED BY <2>1, <2>2
<1>4. ASSUME PageIn PROVE IInv'
  BY <1>2, <1>3, <1>4, InsertInv, StartPageOutInv, StartScanInv, ScanSkipInv, ScanAddInv,
     ScanEndInv, GiveUpStepInv, GiveUpInv, FoundStepInv, StartEvictInv, EvictStepInv, EndEvictInv
     DEF PageIn
<1>5. ASSUME NEW b \in Node, FreeBuffers(b) PROVE IInv'
  BY <1>5, FreeInv DEF FreeBuffers, At
<1>6. ASSUME NEW b \in Node, NEW word \in Madv, BufMadv(b, word) PROVE IInv'
  BY <1>6, BufMadvInv
<1> QED BY <1>1, <1>2, <1>4, <1>5, <1>6, StutterInv DEF Next, Run, End

(* The inductive invariant holds at every point of page_in_buffer.         *)
THEOREM RunInvariant == Spec => []IInv
<1>1. Init => IInv
  BY InitInv
<1>2. IInv /\ [Next]_vars => IInv'
  BY NextInv
<1> QED BY <1>1, <1>2, PTL DEF Spec

-----------------------------------------------------------------------------
(* What the invariant says of the program                                  *)

(* A buffer is paged in exactly when it is in the mru list, and exactly    *)
(* when its node is allocated, with its size and aligned to a page.        *)
THEOREM PagedInCorrect == Spec => []PagedInAgrees
<1>1. IInv => PagedInAgrees
  <2> SUFFICES ASSUME IInv PROVE PagedInAgrees
    OBVIOUS
  <2>1. /\ allocated = {b \in Live : buffers[b].paged_in}
        /\ Holds(mru_buffers, allocated)
        /\ \A b \in allocated : size[b] = buffers[b].size /\ start[b] % PageSize = 0
    BY DEF IInv, PoolOK
  <2>2. IsInjective(mru_buffers) /\ ToSet(mru_buffers) = allocated
    BY <2>1, HoldsInjective
  <2> QED BY <2>1, <2>2 DEF PagedInAgrees
<1> QED BY <1>1, RunInvariant, PTL

(* The scan goes on while the buffers it has passed make no place, and     *)
(* stops at the first with which they do.                                  *)
THEOREM ScanStopsCorrect == Spec => []ScanStopsInTime
<1>1. IInv => ScanStopsInTime
  <2> SUFFICES ASSUME IInv PROVE ScanStopsInTime
    OBVIOUS
  <2> DEFINE x == buffers[cur].size
             A == allocated \ scanned
             places == Places(A, x, PageSize, 0, PoolSize)
  <2>1. ASSUME pc \in {"scan", "found"}
        PROVE  /\ Asking /\ x \in Nat
               /\ \A p : p \in places <=> /\ p \in Int /\ Apart(p, x, A, start, size)
                                          /\ Asked(p, x, PageSize, 0, PoolSize)
    <3>1. Asking /\ TypeOK /\ cur \in Live
      BY <2>1, AtScanPoint
    <3>2. x \in Nat
      BY <3>1, BufferTypes
    <3> HIDE DEF x, A
    <3>3. \A p : p \in Places(A, x, PageSize, 0, PoolSize)
                   <=> /\ p \in Int /\ Apart(p, x, A, start, size)
                       /\ Asked(p, x, PageSize, 0, PoolSize)
      BY <3>2, PlacesAre
    <3> QED BY <3>1, <3>2, <3>3
  <2>2. pc = "scan" => places = {}
    <3> SUFFICES ASSUME pc = "scan" PROVE places = {}
      OBVIOUS
    <3>1. ~RoomFor(x, A)
      BY DEF IInv, RunOK, Walked
    <3> HIDE DEF places, x, A
    <3> QED BY <2>1, <3>1 DEF RoomFor
  <2>3. ASSUME pc = "found", Len(eviction_list) = Cardinality(scanned), scanned # {}
        PROVE  scan.hit_start \in places
    <3>1. Promised /\ ScanType /\ \E v, r \in Seq(Node) : Unwinding(v, r)
      BY <2>3 DEF IInv, RunOK
    <3>2. PICK v \in Seq(Node), r \in Seq(Node) : Unwinding(v, r)
      BY <3>1
    <3>3. eviction_list = v \o r /\ Distinct(v \o r) /\ Listed(r) = scanned
      BY <3>2 DEF Unwinding, Parted
    <3>4. Holds(r, scanned)
      <4>1. Distinct(r)
        BY <3>3, JoinedItems
      <4>2. r \in Seq(Link) /\ \A h : InList(r, h) => h \in Node
        BY DEF Link, InList
      <4> QED BY <3>3, <4>1, <4>2 DEF Holds, Listed
    <3>5. Len(r) = Cardinality(scanned)
      BY <3>4, HoldsLength
    <3>6. v = <<>> /\ eviction_list = r
      <4>1. Len(v) = 0
        <5>1. Len(v \o r) = Len(v) + Len(r) /\ Len(v) \in Nat /\ Len(r) \in Nat
          OBVIOUS
        <5>2. Len(v \o r) = Len(r)
          BY <2>3, <3>3, <3>5
        <5> QED BY <5>1, <5>2
      <4>2. v = <<>>
        BY <4>1
      <4> QED BY <3>3, <4>2
    <3>7. Apart(Hit, scan.size, A, start, size)
      BY <3>1, <3>3, <3>6 DEF Promised
    <3>8. Hit \in Int /\ Wanted(Hit) /\ scan.hit_start = Hit
      BY <3>1 DEF Promised, ScanType, Hit
    <3> HIDE DEF places, A
    <3> QED BY <2>1, <2>3, <3>7, <3>8 DEF Asking, Wanted
  <2> QED BY <2>2, <2>3 DEF ScanStopsInTime
<1> QED BY <1>1, RunInvariant, PTL

(* Nodes are inserted and removed outside a scan only, blocks are added to *)
(* it once and come off in the reverse order, and none is selected by one  *)
(* that found nothing.                                                     *)
THEOREM CallsAreLegalCorrect == Spec => []CallsAreLegal
<1>1. IInv => CallsAreLegal
  <2> SUFFICES ASSUME IInv PROVE CallsAreLegal
    OBVIOUS
  <2>1. pc \in {"insert1", "insert2", "insert3"} => MayInsert(cur)
    BY DEF IInv, TypeOK, PoolOK, RunOK, Resting, MayInsert
  <2>2. ASSUME pc \in {"purge", "evict"}, at # None PROVE MayRemove(at) /\ scanned = {}
    <3>1. scanned = {}
      BY <2>2 DEF IInv, RunOK
    <3>2. at \in allocated
      <4>1. CASE pc = "purge"
        BY <2>2, <4>1 DEF IInv, RunOK
      <4>2. CASE pc = "evict"
        <5>1. PICK v \in Seq(Node), r \in Seq(Node) :
                Parted(v, r) /\ Listed(eviction_list) \cap allocated = Listed(r)
          BY <4>2 DEF IInv, RunOK
        <5>2. r # <<>> /\ at = r[1]
          BY <2>2, <5>1 DEF Parted, ListFirst
        <5>3. at \in Listed(r)
          BY <5>2 DEF Listed, InList
        <5> QED BY <5>1, <5>3
      <4> QED BY <2>2, <4>1, <4>2
    <3> QED BY <3>1, <3>2 DEF MayRemove
  <2>3. ASSUME pc = "scan", at # None, ~Pinned(at) PROVE MayScanAdd(at)
    <3>1. Walked /\ InScan(eviction_list)
      BY <2>3 DEF IInv, RunOK, Walked
    <3>2. /\ Distinct(mru_buffers) /\ \A c : InList(mru_buffers, c) <=> c \in allocated
      BY <2>3, AtScanPoint
    <3>3. PICK front, back \in Seq(Link) :
            /\ mru_buffers = front \o back /\ at = ListLast(front, None)
            /\ \A b \in Node : b \in scanned <=> InList(back, b) /\ ~Pinned(b)
      BY <3>1 DEF Walked
    <3>4. front # <<>> /\ at = front[Len(front)] /\ Distinct(front \o back)
      BY <2>3, <3>2, <3>3 DEF ListLast
    <3>5. InList(front \o back, at) /\ ~InList(back, at)
      BY <3>4, LastPassed
    <3>6. allocated \in SUBSET Node
      BY <3>1, NodeTypes
    <3>7. at \in allocated \ scanned
      BY <3>2, <3>3, <3>5, <3>6
    <3>8. next[prev[at]] = at
      <4>1. Ring(next, prev, (allocated \ scanned) \cup {HeadNode}, start, size)
        BY <3>1, ScanStateHasRing
      <4> QED BY <3>7, <4>1 DEF Ring
    <3> QED BY <3>7, <3>8 DEF MayScanAdd
  <2>4. ASSUME pc \in {"giveup", "found"}, at # None PROVE MayScanRemove(at)
    <3>1. PICK v \in Seq(Node), r \in Seq(Node) : Unwinding(v, r)
      BY <2>4 DEF IInv, RunOK
    <3>2. r # <<>> /\ at = r[1] /\ InScan(r) /\ Listed(r) = scanned
      BY <2>4, <3>1 DEF Unwinding, Parted, ListFirst
    <3>3. at \in scanned
      BY <3>2 DEF Listed, InList
    <3> QED BY <3>2, <3>3, LastComesOff DEF MayScanRemove
  <2>5. ASSUME pc = "giveup", at # None PROVE ~ScanSelects(at)
    <3>1. PICK v \in Seq(Node), r \in Seq(Node) : Unwinding(v, r)
      BY <2>5 DEF IInv, RunOK
    <3>2. r # <<>> /\ at = r[1] /\ InScan(r)
      BY <2>5, <3>1 DEF Unwinding, Parted, ListFirst
    <3>3. start[at] \in Int /\ start[at] >= 0
      BY <3>2, LastComesOff, NodeTypes
    <3>4. scan.hit_end = 0
      BY <2>5 DEF IInv, RunOK
    <3> QED BY <3>3, <3>4 DEF ScanSelects
  <2> QED BY <2>1, <2>2, <2>3, <2>4, <2>5 DEF CallsAreLegal
<1> QED BY <1>1, RunInvariant, PTL

(* After page_out_buffers_for_insertion has returned true, the insertion   *)
(* succeeds.                                                               *)
THEOREM EvictionMakesRoomCorrect == Spec => []EvictionMakesRoom
<1>1. IInv => EvictionMakesRoom
  <2> SUFFICES ASSUME IInv, pc = "insert3", NoRoom(cur, "EVICT") PROVE FALSE
    BY DEF EvictionMakesRoom
  <2>1. /\ TypeOK /\ Quiet /\ buffers[cur].size > 0
        /\ RoomFor(buffers[cur].size, allocated) /\ cur \in Live
    BY DEF IInv, RunOK, TypeOK, Resting
  <2>2. "EVICT" \in SearchModes /\ buffers[cur].size \in Nat
    BY <2>1, BufferTypes DEF SearchModes
  <2> QED BY <2>1, <2>2, NoRoomIsNone DEF NoRoom
<1> QED BY <1>1, RunInvariant, PTL

(* Only the size of a buffer, 0 or larger than the pool, can fail an       *)
(* assertion.                                                              *)
THEOREM AbortsOnlyOnBadSizeCorrect == Spec => []AbortsOnlyOnBadSize
<1>1. IInv => AbortsOnlyOnBadSize
  BY DEF IInv, RunOK, AbortsOnlyOnBadSize
<1> QED BY <1>1, RunInvariant, PTL

-----------------------------------------------------------------------------
(* The overflow, up to the width of a size_t                               *)

(* Adding a whole number of turns changes nothing.                         *)
LEMMA WholeTurns ==
  ASSUME NEW x \in Int, NEW M \in Nat \ {0}, NEW q \in Int
  PROVE  (x + M * q) % M = x % M
<1> DEFINE y == x + M * q
           j == x \div M
           k == y \div M
           c == j + q
<1>1. /\ y \in Int /\ j \in Int /\ c \in Int
      /\ x % M \in 0..(M - 1) /\ x = (M * j) + (x % M)
  OBVIOUS
<1>2. M * c = (M * j) + (M * q)
  OBVIOUS
<1>3. y = (M * c) + (x % M)
  BY <1>1, <1>2
<1> HIDE DEF y, j
<1>4. /\ k \in Int /\ y % M \in 0..(M - 1) /\ y = (M * k) + (y % M)
  BY <1>1
<1> HIDE DEF k, c
<1>5. CASE k > c
  <2>1. M * k > M * c
    BY <1>1, <1>4, <1>5
  <2>2. M * k >= (M * c) + M
    BY <1>1, <1>4, <1>5
  <2> QED BY <1>1, <1>3, <1>4, <2>2
<1>6. CASE c > k
  <2>1. M * c >= (M * k) + M
    BY <1>1, <1>4, <1>6
  <2> QED BY <1>1, <1>3, <1>4, <2>1
<1>7. CASE k = c
  <2>1. y % M = x % M
    BY <1>1, <1>3, <1>4, <1>7
  <2> QED BY <2>1 DEF y
<1> QED BY <1>1, <1>4, <1>5, <1>6, <1>7

(* Wrapping early does not show: the account may be kept wrapped.          *)
LEMMA WrapAgain ==
  ASSUME NEW t \in Int, NEW s \in Int
  PROVE  /\ Wrap(t) \in Int /\ Wrap(Wrap(t)) = Wrap(t)
         /\ Wrap(Wrap(t) + s) = Wrap(t + s) /\ Wrap(Wrap(t) - s) = Wrap(t - s)
<1> DEFINE M == U64Max + 1
           a == t % M
           q == t \div M
<1>1. M \in Nat \ {0}
  BY DrmMmConstants
<1> HIDE DEF M
<1>2. a \in Int /\ q \in Int /\ t = a + M * q
  BY <1>1
<1> HIDE DEF a, q
<1>3. M * q \in Int /\ t + s = (a + s) + M * q /\ t - s = (a - s) + M * q
  BY <1>1, <1>2
<1>4. /\ (a + M * q) % M = a % M /\ ((a + s) + M * q) % M = (a + s) % M
      /\ ((a - s) + M * q) % M = (a - s) % M
  <2>1. a + s \in Int /\ a - s \in Int
    BY <1>2
  <2> QED BY <1>1, <1>2, <2>1, WholeTurns
<1>5. t % M = a
  BY DEF a
<1>6. \A x : Wrap(x) = x % M
  BY DEF Wrap, M
<1> QED BY <1>2, <1>3, <1>4, <1>5, <1>6

SizeOf == [b \in Live |-> buffers[b].size]
Out == {b \in Live : ~buffers[b].paged_in}

(* The account is a Total; unfolding the fold is kept to this one step.    *)
LEMMA OverflowIsTotal == OverflowExact <=> overflow = Wrap(Total(SizeOf, Out))
BY Zenon DEF OverflowExact, SizeOf, Out, Total

(* What is paged out is finitely many sizes.                               *)
LEMMA OutTypes ==
  ASSUME TypeOK, OverflowExact
  PROVE  /\ IsFiniteSet(Out) /\ Out \subseteq Live
         /\ \A b \in Live : SizeOf[b] = buffers[b].size /\ SizeOf[b] \in Int
         /\ overflow = Wrap(Total(SizeOf, Out)) /\ Total(SizeOf, Out) \in Int
<1>1. Out \subseteq Live /\ IsFiniteSet(Out)
  <2>1. Out \in SUBSET Live
    BY DEF Out
  <2> QED BY <2>1, FS_Subset DEF TypeOK
<1>2. \A b \in Live : SizeOf[b] = buffers[b].size /\ buffers[b].size \in Int
  BY BufferTypes DEF SizeOf
<1>3. overflow = Wrap(Total(SizeOf, Out))
  BY OverflowIsTotal
<1>4. Total(SizeOf, Out) \in Int
  <2> DEFINE f == SizeOf
             S == Out
  <2>1. IsFiniteSet(S) /\ \A y \in S : f[y] \in Int
    BY <1>1, <1>2
  <2> HIDE DEF f, S
  <2>2. Total(f, S) \in Int
    BY <2>1, TotalIsSum
  <2> QED BY <2>2 DEF f, S
<1> QED BY <1>1, <1>2, <1>3, <1>4

(* As many are paged out as before, a buffer more, or one less.            *)
LEMMA AccountSame ==
  ASSUME TypeOK, OverflowExact, Out' = Out, overflow' = overflow,
         \A c \in Out : buffers'[c].size = buffers[c].size
  PROVE  OverflowExact'
<1>1. /\ IsFiniteSet(Out) /\ Out \subseteq Live
      /\ \A c \in Live : SizeOf[c] = buffers[c].size /\ SizeOf[c] \in Int
      /\ overflow = Wrap(Total(SizeOf, Out))
  BY OutTypes
<1>2. \A c \in Out : SizeOf'[c] = SizeOf[c] /\ SizeOf[c] \in Int
  <2>1. Out' \subseteq Live'
    BY DEF Out
  <2> QED BY <1>1, <2>1 DEF SizeOf
<1>3. Total(SizeOf', Out) = Total(SizeOf, Out)
  BY <1>1, <1>2, TotalOfSame
<1>4. overflow' = Wrap(Total(SizeOf', Out'))
  BY <1>1, <1>3
<1>5. (OverflowExact <=> overflow = Wrap(Total(SizeOf, Out)))'
  BY OverflowIsTotal, PTL
<1> QED BY <1>4, <1>5 DEF Wrap

(* A buffer more: it has been created or paged out.                        *)
LEMMA AccountMore ==
  ASSUME TypeOK, OverflowExact, NEW b, b \notin Out, Out' = Out \cup {b},
         buffers'[b].size \in Int, overflow' = Wrap(overflow + buffers'[b].size),
         \A c \in Out : buffers'[c].size = buffers[c].size
  PROVE  OverflowExact'
<1>1. /\ IsFiniteSet(Out) /\ Out \subseteq Live
      /\ \A c \in Live : SizeOf[c] = buffers[c].size /\ SizeOf[c] \in Int
      /\ overflow = Wrap(Total(SizeOf, Out)) /\ Total(SizeOf, Out) \in Int
  BY OutTypes
<1>2. SizeOf'[b] = buffers'[b].size /\ \A c \in Out : SizeOf'[c] = SizeOf[c] /\ SizeOf[c] \in Int
  <2>1. Out' \subseteq Live'
    BY DEF Out
  <2> QED BY <1>1, <2>1 DEF SizeOf
<1>3. Total(SizeOf', Out \cup {b}) = Total(SizeOf, Out) + SizeOf'[b]
  <2> DEFINE f == SizeOf
             g == SizeOf'
             S == Out
  <2>1. IsFiniteSet(S) /\ b \notin S /\ (\A y \in S : f[y] \in Int /\ g[y] = f[y]) /\ g[b] \in Int
    BY <1>1, <1>2
  <2> HIDE DEF f, g, S
  <2>2. Total(g, S \cup {b}) = Total(f, S) + g[b]
    BY <2>1, TotalGains
  <2> QED BY <2>2 DEF f, g, S
<1>4. overflow' = Wrap(Total(SizeOf', Out'))
  <2> DEFINE t == Total(SizeOf, Out)
             s == buffers'[b].size
  <2>1. t \in Int /\ s \in Int /\ overflow = Wrap(t)
    BY <1>1
  <2>2. overflow' = Wrap(overflow + s) /\ Total(SizeOf', Out') = t + s
    BY <1>2, <1>3
  <2> HIDE DEF t, s
  <2>3. Wrap(Wrap(t) + s) = Wrap(t + s)
    BY <2>1, WrapAgain
  <2> QED BY <2>1, <2>2, <2>3
<1>5. (OverflowExact <=> overflow = Wrap(Total(SizeOf, Out)))'
  BY OverflowIsTotal, PTL
<1> QED BY <1>4, <1>5 DEF Wrap

(* One less: it has been destroyed or paged in.                            *)
LEMMA AccountLess ==
  ASSUME TypeOK, OverflowExact, NEW b, b \in Out, Out' = Out \ {b},
         overflow' = Wrap(overflow - buffers[b].size),
         \A c \in Out \ {b} : buffers'[c].size = buffers[c].size
  PROVE  OverflowExact'
<1>1. /\ IsFiniteSet(Out) /\ Out \subseteq Live
      /\ \A c \in Live : SizeOf[c] = buffers[c].size /\ SizeOf[c] \in Int
      /\ overflow = Wrap(Total(SizeOf, Out)) /\ Total(SizeOf, Out) \in Int
  BY OutTypes
<1>2. \A c \in Out \ {b} : SizeOf'[c] = SizeOf[c]
  <2>1. Out' \subseteq Live'
    BY DEF Out
  <2> QED BY <1>1, <2>1 DEF SizeOf
<1>3. Total(SizeOf', Out \ {b}) = Total(SizeOf, Out) - SizeOf[b]
  <2> DEFINE f == SizeOf
             g == SizeOf'
             S == Out
             T == Out \ {b}
  <2>1. IsFiniteSet(S) /\ b \in S
    BY <1>1
  <2>3. \A y \in S : f[y] \in Int
    BY <1>1
  <2>4. T = S \ {b} /\ \A y \in T : g[y] = f[y]
    BY <1>2
  <2> HIDE DEF f, g, S, T
  <2>2. Total(g, T) = Total(f, S) - f[b]
    BY <2>1, <2>3, <2>4, TotalLoses
  <2> QED BY <2>2 DEF f, g, S, T
<1>4. overflow' = Wrap(Total(SizeOf', Out'))
  <2> DEFINE t == Total(SizeOf, Out)
             s == buffers[b].size
  <2>1. t \in Int /\ s \in Int /\ overflow = Wrap(t) /\ SizeOf[b] = s
    BY <1>1
  <2>2. overflow' = Wrap(overflow - s) /\ Total(SizeOf', Out') = t - s
    BY <1>3, <2>1
  <2> HIDE DEF t, s
  <2>3. Wrap(Wrap(t) - s) = Wrap(t - s)
    BY <2>1, WrapAgain
  <2> QED BY <2>1, <2>2, <2>3
<1>5. (OverflowExact <=> overflow = Wrap(Total(SizeOf, Out)))'
  BY OverflowIsTotal, PTL
<1> QED BY <1>4, <1>5 DEF Wrap

(* A step that changes neither the sizes nor what is paged in leaves the   *)
(* account alone.                                                          *)
LEMMA AccountLeft ==
  ASSUME TypeOK, OverflowExact, UNCHANGED overflow, Live' = Live,
         \A c \in Live : /\ buffers'[c].size = buffers[c].size
                         /\ buffers'[c].paged_in <=> buffers[c].paged_in
  PROVE  OverflowExact'
<1>1. Out' = Out /\ \A c \in Out : buffers'[c].size = buffers[c].size
  BY DEF Out
<1> QED BY <1>1, AccountSame

(* remove_buffer_from_pool counts a buffer, whichever loop calls it.       *)
LEMMA RemoveAccounts ==
  ASSUME TypeOK, OverflowExact, NEW b \in Live, buffers[b].paged_in, RemoveBufferFromPool(b)
  PROVE  OverflowExact'
<1>1. /\ buffers' = [buffers EXCEPT ![b].paged_in = FALSE]
      /\ overflow' = Wrap(overflow + buffers[b].size) /\ buffers[b].size \in Int
  BY BufferTypes DEF RemoveBufferFromPool
<1>2. \A c \in Live : buffers[c] \in Buffer
  BY DEF TypeOK
<1>3. Live' = Live /\ \A c \in Live : /\ buffers'[c].size = buffers[c].size
                                      /\ buffers'[c].paged_in <=> buffers[c].paged_in /\ c # b
  BY <1>1, <1>2 DEF Live, Buffer
<1>4. b \notin Out /\ Out' = Out \cup {b} /\ \A c \in Out : buffers'[c].size = buffers[c].size
  BY <1>1, <1>3 DEF Out
<1> QED BY <1>1, <1>3, <1>4, AccountMore

(* free_buffer takes a buffer off the account, after it has added it if    *)
(* the buffer was paged in.                                                *)
LEMMA FreeAccounts ==
  ASSUME TypeOK, OverflowExact, NEW b \in Live, FreeBuffer(b)
  PROVE  OverflowExact'
<1>1. buffers' = [c \in Live \ {b} |-> buffers[c]] /\ buffers[b].size \in Int
  BY BufferTypes DEF FreeBuffer
<1>2. Live' = Live \ {b} /\ \A c \in Live \ {b} : buffers'[c] = buffers[c]
  BY <1>1 DEF Live
<1>3. CASE buffers[b].paged_in
  <2>1. overflow' = Wrap(overflow + buffers[b].size - buffers[b].size)
    BY <1>3 DEF FreeBuffer
  <2>2. overflow = Wrap(Total(SizeOf, Out)) /\ Total(SizeOf, Out) \in Int
    BY OutTypes
  <2>3. overflow' = overflow
    <3> DEFINE t == Total(SizeOf, Out)
               s == buffers[b].size
    <3>1. t \in Int /\ s \in Int /\ overflow = Wrap(t) /\ overflow' = Wrap(overflow + s - s)
      BY <1>1, <2>1, <2>2
    <3> HIDE DEF t, s
    <3>2. Wrap(t) \in Int /\ Wrap(Wrap(t)) = Wrap(t)
      BY <3>1, WrapAgain
    <3>3. overflow + s - s = overflow
      BY <3>1, <3>2
    <3> QED BY <3>1, <3>2, <3>3
  <2>4. Out' = Out /\ \A c \in Out : buffers'[c].size = buffers[c].size
    BY <1>2, <1>3 DEF Out
  <2> QED BY <2>3, <2>4, AccountSame
<1>4. CASE ~buffers[b].paged_in
  <2>1. overflow' = Wrap(overflow - buffers[b].size)
    BY <1>4 DEF FreeBuffer
  <2>2. b \in Out /\ Out' = Out \ {b} /\ \A c \in Out \ {b} : buffers'[c].size = buffers[c].size
    BY <1>2, <1>4 DEF Out
  <2> QED BY <2>1, <2>2, AccountLess
<1> QED BY <1>3, <1>4

(* Every step keeps the account.                                           *)
LEMMA NextAccounts ==
  ASSUME IInv, OverflowExact, [Next]_vars
  PROVE  OverflowExact'
<1>1. TypeOK /\ \A c \in Live : buffers[c] \in Buffer
  BY DEF IInv, TypeOK
<1>2. ASSUME UNCHANGED <<buffers, overflow>> PROVE OverflowExact'
  <2>1. Live' = Live /\ buffers' = buffers /\ overflow' = overflow
    BY <1>2 DEF Live
  <2> QED BY <1>1, <2>1, AccountLeft
<1>3. ASSUME NEW b \in Node, NEW s \in Sizes, NEW u \in BOOLEAN, BufCreate(b, s, u)
      PROVE  OverflowExact'
  <2> DEFINE new == [size |-> s, unmoveable |-> u, paged_in |-> FALSE,
                     in_use |-> FALSE, madv |-> "willneed"]
  <2>1. /\ b \notin Live /\ overflow' = Wrap(overflow + s)
        /\ buffers' = [c \in Live \cup {b} |-> IF c = b THEN new ELSE buffers[c]]
    BY <1>3 DEF BufCreate
  <2>2. s \in Int
    BY TestDrmMmConstants, DrmMmConstants
  <2>3. /\ Live' = Live \cup {b} /\ buffers'[b].size = s /\ ~buffers'[b].paged_in
        /\ \A c \in Live : buffers'[c] = buffers[c]
    BY <2>1 DEF Live
  <2>4. b \notin Out /\ Out' = Out \cup {b} /\ \A c \in Out : buffers'[c].size = buffers[c].size
    BY <2>1, <2>3 DEF Out
  <2> QED BY <1>1, <2>1, <2>2, <2>3, <2>4, AccountMore
<1>4. ASSUME NEW b \in Node, BufDestroy(b) \/ FreeBuffers(b) PROVE OverflowExact'
  BY <1>1, <1>4, FreeAccounts DEF BufDestroy, FreeBuffers
<1>5. ASSUME NEW b \in Node, NEW used \in BOOLEAN, BufSetInUse(b, used) PROVE OverflowExact'
  <2>1. overflow' = overflow /\ buffers' = [buffers EXCEPT ![b].in_use = used]
    BY <1>5 DEF BufSetInUse
  <2>2. Live' = Live /\ \A c \in Live : /\ buffers'[c].size = buffers[c].size
                                        /\ buffers'[c].paged_in = buffers[c].paged_in
    BY <1>1, <2>1 DEF Live, Buffer
  <2> QED BY <1>1, <2>1, <2>2, AccountLeft
<1>6. ASSUME NEW b \in Node, NEW word \in Madv, BufMadv(b, word) PROVE OverflowExact'
  <2> DEFINE m == IF word = "willneed" THEN "willneed" ELSE buffers[b].madv
  <2>1. overflow' = overflow /\ buffers' = [buffers EXCEPT ![b].madv = m]
    BY <1>6 DEF BufMadv
  <2> HIDE DEF m
  <2>2. Live' = Live /\ \A c \in Live : /\ buffers'[c].size = buffers[c].size
                                        /\ buffers'[c].paged_in = buffers[c].paged_in
    BY <1>1, <2>1 DEF Live, Buffer
  <2> QED BY <1>1, <2>1, <2>2, AccountLeft
<1>7. CASE InsertFirst \/ InsertAfterPurge \/ InsertAfterPageOut
  <2>1. /\ pc \in {"insert1", "insert2", "insert3"}
        /\ buffers' = [buffers EXCEPT ![cur].paged_in = TRUE]
        /\ overflow' = Wrap(overflow - buffers[cur].size)
    BY <1>7 DEF InsertFirst, InsertAfterPurge, InsertAfterPageOut, Insert, InsertBuffer, At
  <2>2. cur \in Live /\ ~buffers[cur].paged_in
    BY <1>1, <2>1 DEF TypeOK, Resting
  <2>3. Live' = Live /\ \A c \in Live : /\ buffers'[c].size = buffers[c].size
                                        /\ buffers'[c].paged_in <=> buffers[c].paged_in \/ c = cur
    BY <1>1, <2>1, <2>2 DEF Live, Buffer
  <2>4. /\ cur \in Out /\ Out' = Out \ {cur}
        /\ \A c \in Out \ {cur} : buffers'[c].size = buffers[c].size
    BY <2>2, <2>3 DEF Out
  <2> QED BY <1>1, <2>1, <2>4, AccountLess
<1>8. CASE PurgeStep
  <2>1. at # None /\ pc = "purge"
    BY <1>8 DEF PurgeStep, At
  <2>2. at \in Live /\ buffers[at].paged_in
    BY <2>1 DEF IInv, RunOK, PoolOK
  <2>3. RemoveBufferFromPool(at) \/ UNCHANGED <<buffers, overflow>>
    BY <1>8 DEF PurgeStep, poolVars
  <2> QED BY <1>1, <1>2, <2>2, <2>3, RemoveAccounts
<1>9. CASE EvictStep
  <2>1. RemoveBufferFromPool(at) /\ MayRemove(at)
    BY <1>9 DEF EvictStep
  <2>2. at \in Live /\ buffers[at].paged_in
    BY <2>1 DEF IInv, PoolOK, MayRemove
  <2> QED BY <1>1, <2>1, <2>2, RemoveAccounts
<1>10. ASSUME NEW b \in Node, Command(b) PROVE OverflowExact'
  <2>1. BufUse(b) => UNCHANGED <<buffers, overflow>>
    BY DEF BufUse
  <2> QED BY <1>2, <1>3, <1>4, <1>5, <1>10, <2>1 DEF Command
<1>11. CASE PageIn
  <2>1. StartPurge \/ EndPurge \/ StartPageOut \/ StartScan \/ ScanSkip \/ ScanAdd \/ ScanEnd
          \/ GiveUpStep \/ GiveUp \/ FoundStep \/ StartEvict \/ EndEvict
        => UNCHANGED <<buffers, overflow>>
    BY DEF StartPurge, EndPurge, StartPageOut, StartScan, ScanSkip, ScanAdd, ScanEnd, GiveUpStep,
           GiveUp, FoundStep, StartEvict, EndEvict, poolVars
  <2> QED BY <1>2, <1>7, <1>8, <1>9, <1>11, <2>1 DEF PageIn
<1>12. CASE EndOfFile \/ End \/ UNCHANGED vars
  <2>1. EndOfFile \/ Takedown \/ UNCHANGED vars => UNCHANGED <<buffers, overflow>>
    BY DEF EndOfFile, Takedown, vars, poolVars
  <2> QED BY <1>2, <1>4, <1>12, <2>1 DEF End
<1> QED BY <1>6, <1>10, <1>11, <1>12 DEF Next, Run

(* overflow is the total size of what is paged out, however often adding   *)
(* to it and subtracting from it has wrapped.                              *)
THEOREM OverflowCorrect == Spec => []OverflowExact
<1>1. Init => OverflowExact
  <2> SUFFICES ASSUME Init PROVE OverflowExact
    OBVIOUS
  <2>1. Out = {} /\ overflow = 0
    BY DEF Init, Out, Live
  <2>2. Total(SizeOf, {}) = 0
    BY TotalOfNone
  <2>3. Wrap(0) = 0
    BY DrmMmConstants DEF Wrap
  <2> QED BY <2>1, <2>2, <2>3, OverflowIsTotal
<1>2. IInv /\ OverflowExact /\ [Next]_vars => OverflowExact'
  BY NextAccounts
<1> QED BY <1>1, <1>2, RunInvariant, PTL DEF Spec

(* When nothing is left to read, free_buffers leaves a clean allocator,    *)
(* one hole as large as the pool, and no overflow.                         *)
THEOREM CleanAtTakedownCorrect == Spec => []CleanAtTakedown
<1>1. IInv /\ OverflowExact => CleanAtTakedown
  <2> SUFFICES ASSUME IInv, OverflowExact, pc = "exit"
               PROVE  /\ next[HeadNode] = HeadNode /\ allocated = {}
                      /\ hole_stack = <<HeadNode>> /\ hole_size[HeadNode] = PoolSize
                      /\ overflow = 0
    BY DEF CleanAtTakedown
  <2>1. Live = {} /\ Quiet /\ TypeOK /\ PoolOK
    BY DEF IInv, RunOK
  <2>2. allocated = {}
    BY <2>1 DEF PoolOK
  <2>3. /\ Fields(start, size) /\ Ring(next, prev, {HeadNode}, start, size)
        /\ Exact(hole_size, next, {}, start, size)
        /\ Holds(hole_stack, Behind(hole_size))
    BY <2>1, <2>2 DEF Quiet, Settled, Trees
  <2>4. next[HeadNode] = HeadNode
    BY <2>3 DEF Ring
  <2>5. PoolSize \in Nat /\ PoolSize > 0 /\ HeadNode \in Link
    BY DrmMmConstants DEF Link
  <2>6. hole_size[HeadNode] = PoolSize
    BY <2>3, <2>4, <2>5 DEF Exact, Fields
  <2>7. Behind(hole_size) = {HeadNode}
    <3>1. \A h \in Link : h # HeadNode => hole_size[h] = 0
      BY <2>3 DEF Exact
    <3> QED BY <2>5, <2>6, <3>1 DEF Behind
  <2>8. hole_stack = <<HeadNode>>
    <3>1. /\ hole_stack \in Seq(Link) /\ Distinct(hole_stack)
          /\ \A h : InList(hole_stack, h) <=> h = HeadNode
      BY <2>3, <2>7 DEF Holds
    <3>2. Len(hole_stack) \in Nat /\ \A k \in 1..Len(hole_stack) : hole_stack[k] = HeadNode
      <4>1. \A k \in 1..Len(hole_stack) : InList(hole_stack, hole_stack[k])
        BY DEF InList
      <4> QED BY <3>1, <4>1
    <3>3. \E k \in 1..Len(hole_stack) : hole_stack[k] = HeadNode
      BY <3>1 DEF InList
    <3>4. Len(hole_stack) = 1
      <4>1. Len(hole_stack) >= 1
        BY <3>2, <3>3
      <4>2. ~(Len(hole_stack) >= 2)
        <5> SUFFICES ASSUME Len(hole_stack) >= 2 PROVE FALSE
          OBVIOUS
        <5>1. 1 \in 1..Len(hole_stack) /\ 2 \in 1..Len(hole_stack)
          BY <3>2
        <5>2. hole_stack[1] # hole_stack[2]
          BY <3>1, <5>1 DEF Distinct
        <5> QED BY <3>2, <5>1, <5>2
      <4> QED BY <3>2, <4>1, <4>2
    <3> QED BY <3>1, <3>2, <3>4
  <2>9. overflow = 0
    <3>1. Out = {}
      BY <2>1 DEF Out
    <3>2. overflow = Wrap(Total(SizeOf, {}))
      BY <3>1, OverflowIsTotal
    <3>3. Wrap(0) = 0
      BY DrmMmConstants DEF Wrap
    <3> QED BY <3>2, <3>3, TotalOfNone
  <2> QED BY <2>2, <2>4, <2>6, <2>8, <2>9
<1> QED BY <1>1, RunInvariant, OverflowCorrect, PTL

-----------------------------------------------------------------------------
(* The refinement: what BufferPool sees of a buffer and of page-in         *)

Seen(b) == [size |-> buffers[b].size,
            start |-> IF buffers[b].paged_in THEN start[b] ELSE None,
            in_use |-> buffers[b].in_use, unmoveable |-> buffers[b].unmoveable]
View == [b \in Live |-> Seen(b)]
Awaited == IF Resting THEN None ELSE cur
Crowded == ~Resting /\ pc # "insert1"

(* Outside a scan, what is placed is what drm_mm has allocated.            *)
LEMMA ViewFacts ==
  ASSUME TypeOK, PoolOK, Quiet
  PROVE  /\ Abstract!Live = Live /\ Abstract!Placed = allocated
         /\ \A b \in Live : Abstract!Pinned(b) <=> Pinned(b)
         /\ \A b \in allocated : /\ b \in Live /\ View[b].start = start[b]
                                 /\ View[b].size = size[b]
<1>1. \A b \in allocated : b \in Live /\ buffers[b].paged_in /\ size[b] = buffers[b].size
  BY DEF PoolOK
<1>2. \A b \in allocated : start[b] # None
  <2>1. \A b \in allocated : start[b] \in Nat
    BY DEF Quiet, Settled, Fields, Blocks, Link
  <2> QED BY <2>1, TestDrmMmConstants
<1>3. \A b \in Live : /\ View[b].size = buffers[b].size
                      /\ View[b].start = IF buffers[b].paged_in THEN start[b] ELSE None
  BY DEF View, Seen
<1> HIDE DEF View, Live
<1>4. \A b \in allocated : View[b].start = start[b] /\ View[b].size = size[b]
  BY <1>1, <1>3
<1>5. \A b \in Live : Abstract!Pinned(b) <=> Pinned(b)
  BY DEF Abstract!Pinned, Pinned
<1>6. Abstract!Live = Live
  BY DEF Abstract!Live
<1>7. Abstract!Placed = {b \in Live : View[b].start # None}
  BY DEF Abstract!Placed, Abstract!Live, View, Seen
<1>8. \A b \in Live : View[b].start # None <=> b \in allocated
  <2>1. allocated = {b \in Live : buffers[b].paged_in}
    BY DEF PoolOK
  <2> QED BY <1>1, <1>2, <1>3, <2>1
<1> QED BY <1>1, <1>4, <1>5, <1>6, <1>7, <1>8

(* A step that the abstract pool does not see.                             *)
LEMMA Stutters ==
  ASSUME View' = View, Awaited' = Awaited, Crowded' = Crowded
  PROVE  UNCHANGED Abstract!vars
BY DEF Abstract!vars, View, Seen, Awaited, Crowded

(* A place is free in the abstract pool if no node has a part of it.       *)
LEMMA FreeMeans ==
  ASSUME TypeOK, PoolOK, Quiet, NEW x \in Nat, NEW p \in Int, NEW A \in SUBSET allocated
  PROVE  Abstract!Free(p, x, A) <=>
           Apart(p, x, A, start, size) /\ Asked(p, x, PageSize, 0, PoolSize)
<1>1. \A c \in A : View[c].start = start[c] /\ View[c].size = size[c]
  BY ViewFacts
<1>2. PageSize \in Nat \ {0} /\ PoolSize \in Nat
  BY TestDrmMmConstants, DrmMmConstants
<1>3. p >= 0 => ((p % PageSize = 0) <=> (PageSize > 1 => p % PageSize = 0))
  <2>1. CASE PageSize = 1
    <3>1. p % 1 = 0
      OBVIOUS
    <3> QED BY <2>1, <3>1
  <2>2. CASE PageSize > 1
    BY <2>2
  <2> QED BY <1>2, <2>1, <2>2
<1>4. Abstract!Free(p, x, A) <=>
        /\ p \in Nat /\ p % PageSize = 0 /\ p + x <= PoolSize
        /\ \A c \in A : View[c].start + View[c].size <= p \/ p + x <= View[c].start
  BY DEF Abstract!Free, View, Seen
<1> HIDE DEF View
<1> DEFINE clear == \A c \in A : start[c] + size[c] <= p \/ p + x <= start[c]
<1>5. Abstract!Free(p, x, A) <=>
        p \in Nat /\ p % PageSize = 0 /\ p + x <= PoolSize /\ clear
  BY <1>1, <1>4
<1>6. Apart(p, x, A, start, size) <=> 0 <= p /\ p + x <= PoolSize /\ clear
  BY DEF Apart
<1> HIDE DEF clear
<1> QED BY <1>2, <1>3, <1>5, <1>6 DEF Asked

(* Without a place between the nodes there is none in the abstract pool.   *)
LEMMA RoomMeans ==
  ASSUME TypeOK, PoolOK, Quiet, NEW b \in Live, NEW A \in SUBSET allocated,
         ~RoomFor(buffers[b].size, A)
  PROVE  ~Abstract!HasRoom(b, A)
<1> DEFINE x == buffers[b].size
<1>1. x \in Nat /\ PoolSize \in Nat
  BY BufferTypes, DrmMmConstants
<1> SUFFICES ASSUME NEW p \in 0..PoolSize, Abstract!Free(p, x, A)
             PROVE  FALSE
  BY DEF Abstract!HasRoom, View, Seen
<1>2. p \in Int
  BY <1>1
<1> HIDE DEF x
<1>3. Apart(p, x, A, start, size) /\ Asked(p, x, PageSize, 0, PoolSize)
  BY <1>1, <1>2, FreeMeans
<1> QED BY <1>2, <1>3 DEF RoomFor, x

-----------------------------------------------------------------------------
(* Every step of the program is a step of the abstract pool, or none.      *)
AbstractStep == Abstract!Next \/ UNCHANGED Abstract!vars

(* A step that moves no buffer and neither begins nor ends a page-in.      *)
LEMMA QuietStep ==
  ASSUME UNCHANGED <<buffers, start>>, Awaited' = Awaited, Crowded' = Crowded
  PROVE  AbstractStep
<1>1. View' = View
  BY DEF View, Seen, Live
<1> QED BY <1>1, Stutters DEF AbstractStep

(* Nothing is wanted while the program reads its input, or after it.       *)
LEMMA BetweenCommands ==
  ASSUME pc \in {"idle", "eof"}
  PROVE  Awaited = None /\ ~Crowded
BY DEF Awaited, Crowded, Resting

(* buf_create: the buffer waits for its first place.                       *)
LEMMA CreateStep ==
  ASSUME IInv, NEW b \in Node, NEW s \in Sizes, NEW u \in BOOLEAN, BufCreate(b, s, u)
  PROVE  AbstractStep
<1>1. /\ pc = "idle" /\ b \notin Live /\ pc' = "insert1" /\ cur' = b /\ start' = start
      /\ Live' = Live \cup {b}
  BY DEF BufCreate, AtCommand, Goto, Live, mmVars
<1>2. View' = [c \in Live \cup {b} |->
                 IF c = b THEN [size |-> s, start |-> None, in_use |-> FALSE,
                                unmoveable |-> u]
                          ELSE View[c]]
  <2>1. \A c \in Live : c # b /\ buffers'[c] = buffers[c]
    BY <1>1 DEF BufCreate
  <2>2. \A c \in Live : Seen(c)' = View[c]
    BY <1>1, <2>1 DEF View, Seen
  <2>3. Seen(b)' = [size |-> s, start |-> None, in_use |-> FALSE, unmoveable |-> u]
    <3>1. buffers'[b] = [size |-> s, unmoveable |-> u, paged_in |-> FALSE,
                         in_use |-> FALSE, madv |-> "willneed"]
      BY DEF BufCreate
    <3> QED BY <3>1 DEF Seen
  <2>4. View' = [c \in Live' |-> Seen(c)']
    BY DEF View
  <2> QED BY <2>1, <2>2, <2>3, <2>4, <1>1
<1>3. Awaited = None /\ Awaited' = b /\ Crowded' = Crowded
  BY <1>1 DEF Awaited, Crowded, Resting
<1>4. Abstract!Create(b, s, u)
  BY <1>1, <1>2, <1>3 DEF Abstract!Create, Abstract!Live, View, Seen, Awaited, Crowded
<1> QED BY <1>4 DEF AbstractStep, Abstract!Next

(* buf_destroy; at the end of main the abstract pool is destroyed, too.    *)
LEMMA FreeStep ==
  ASSUME IInv, NEW b \in Live, FreeBuffer(b), pc \in {"idle", "eof"}, UNCHANGED runVars
  PROVE  AbstractStep
<1>1. TypeOK /\ PoolOK /\ Quiet /\ scanned = {}
  BY AtQuietPoint
<1>2. /\ \A c \in allocated : c # b => start'[c] = start[c]
      /\ Live' = Live \ {b} /\ \A c \in Live' : buffers'[c] = buffers[c]
  BY <1>1, FreePool
<1>3. View' = [c \in Live \ {b} |-> View[c]]
  <2>1. allocated = {c \in Live : buffers[c].paged_in}
    BY <1>1 DEF PoolOK
  <2> HIDE DEF Live
  <2>2. \A c \in Live' : Seen(c)' = Seen(c)
    BY <1>2, <2>1 DEF Seen
  <2> QED BY <1>2, <2>2 DEF View
<1>4. Awaited = None /\ Awaited' = Awaited /\ Crowded' = Crowded
  BY BetweenCommands DEF runVars, Awaited, Crowded, Resting
<1>5. Abstract!Destroy(b)
  BY <1>3, <1>4 DEF Abstract!Destroy, Abstract!Live, View, Seen, Awaited, Crowded
<1>6. b \in Node
  BY <1>1, BufferTypes
<1> QED BY <1>5, <1>6 DEF AbstractStep, Abstract!Next

(* add_usecnt and remove_usecnt                                            *)
LEMMA SetInUseStep ==
  ASSUME IInv, NEW b \in Node, NEW used \in BOOLEAN, BufSetInUse(b, used)
  PROVE  AbstractStep
<1>1. /\ b \in Live /\ pc = "idle" /\ pc' = "idle" /\ start' = start
      /\ buffers' = [buffers EXCEPT ![b].in_use = used]
  BY DEF BufSetInUse, AtCommand, mmVars, runVars
<1>2. \A c \in Live : buffers[c] \in Buffer
  BY DEF IInv, TypeOK
<1>3. Awaited = None /\ Awaited' = Awaited /\ Crowded' = Crowded
  BY <1>1 DEF Awaited, Crowded, Resting
<1>4. View' = [View EXCEPT ![b].in_use = used]
  BY <1>1, <1>2 DEF View, Seen, Live, Buffer
<1>5. CASE used = TRUE
  <2>1. Abstract!AddUsecnt(b)
    BY <1>1, <1>3, <1>4, <1>5 DEF Abstract!AddUsecnt, Abstract!Live, View, Seen, Awaited, Crowded
  <2> QED BY <2>1 DEF AbstractStep, Abstract!Next
<1>6. CASE used = FALSE
  <2>1. Abstract!RemoveUsecnt(b)
    BY <1>1, <1>3, <1>4, <1>6
       DEF Abstract!RemoveUsecnt, Abstract!Live, View, Seen, Awaited, Crowded
  <2> QED BY <2>1 DEF AbstractStep, Abstract!Next
<1> QED BY <1>5, <1>6

(* madvise: the abstract pool does not know what may be purged.            *)
LEMMA MadvStep ==
  ASSUME IInv, NEW b \in Node, NEW word \in Madv, BufMadv(b, word)
  PROVE  AbstractStep
<1> DEFINE m == IF word = "willneed" THEN "willneed" ELSE buffers[b].madv
<1>1. /\ buffers' = [buffers EXCEPT ![b].madv = m] /\ UNCHANGED <<pc, cur, start>>
      /\ b \in Live /\ \A c \in Live : buffers[c] \in Buffer
  BY DEF BufMadv, IInv, TypeOK, mmVars, runVars
<1> HIDE DEF m
<1>2. View' = View
  BY <1>1 DEF View, Seen, Live, Buffer
<1>3. Awaited' = Awaited /\ Crowded' = Crowded
  BY <1>1 DEF Awaited, Crowded, Resting
<1> QED BY <1>2, <1>3, Stutters DEF AbstractStep

(* use: a buffer that is paged in only moves up the mru list.              *)
LEMMA UseStep ==
  ASSUME IInv, NEW b \in Node, BufUse(b)
  PROVE  AbstractStep
<1>1. /\ b \in Live /\ UNCHANGED <<buffers, start>> /\ pc = "idle"
      /\ Awaited = None /\ ~Crowded
  BY BetweenCommands DEF BufUse, AtCommand, mmVars
<1>2. TypeOK /\ PoolOK /\ Quiet
  BY <1>1, AtQuietPoint
<1>3. CASE buffers[b].paged_in
  <2>1. Awaited' = None /\ Crowded' = Crowded
    BY <1>1, <1>3 DEF BufUse, Awaited, Crowded, Resting
  <2> QED BY <1>1, <2>1, QuietStep
<1>4. CASE ~buffers[b].paged_in
  <2>1. pc' = "insert1" /\ cur' = b
    BY <1>4 DEF BufUse, Goto
  <2>2. Awaited' = b /\ Crowded' = Crowded
    BY <1>1, <2>1 DEF Awaited, Crowded, Resting
  <2>3. View' = View
    BY <1>1 DEF View, Seen, Live
  <2>4. b \in Abstract!Live \ Abstract!Placed
    BY <1>1, <1>2, <1>4, ViewFacts DEF PoolOK
  <2>5. Abstract!Use(b)
    BY <1>1, <2>2, <2>3, <2>4 DEF Abstract!Use, View, Seen, Awaited, Crowded
  <2> QED BY <2>5 DEF AbstractStep, Abstract!Next
<1> QED BY <1>3, <1>4

(* An insertion that succeeds places the buffer where no other is.         *)
LEMMA InsertStep ==
  ASSUME IInv, InsertFirst \/ InsertAfterPurge \/ InsertAfterPageOut
  PROVE  AbstractStep
<1> DEFINE x == buffers[cur].size
<1>1. PICK mode \in SearchModes : /\ pc \in {"insert1", "insert2", "insert3"}
                                  /\ InsertBuffer(cur, mode) /\ Finish
  BY DEF InsertFirst, InsertAfterPurge, InsertAfterPageOut, Insert, At, SearchModes
<1>2. TypeOK /\ PoolOK /\ Quiet /\ scanned = {}
  BY <1>1 DEF IInv, RunOK
<1>3. cur \in Live /\ ~buffers[cur].paged_in /\ buffers[cur] \in Buffer /\ x \in Nat
  BY <1>1, <1>2, BufferTypes DEF TypeOK, Resting
<1>4. PICK p \in Int : /\ Apart(p, x, allocated, start, size)
                       /\ p % PageSize = 0 /\ start' = [start EXCEPT ![cur] = p]
                       /\ start'[cur] = p
  BY <1>1, <1>2, <1>3, InsertPool
<1>5. p \in 0..PoolSize /\ Asked(p, x, PageSize, 0, PoolSize)
  BY <1>3, <1>4, DrmMmConstants DEF Apart, Asked
<1>6. Abstract!Free(p, x, allocated)
  <2> HIDE DEF x
  <2> QED BY <1>2, <1>3, <1>4, <1>5, FreeMeans
<1>7. View' = [View EXCEPT ![cur].start = p]
  <2>1. buffers' = [buffers EXCEPT ![cur].paged_in = TRUE]
    BY <1>1 DEF InsertBuffer
  <2>2. \A c \in Live : c # cur => start'[c] = start[c]
    BY <1>4
  <2>3. \A c \in Live : buffers[c] \in Buffer
    BY <1>2 DEF TypeOK
  <2> QED BY <1>3, <1>4, <2>1, <2>2, <2>3 DEF View, Seen, Live, Buffer
<1>8. Awaited = cur /\ cur # None /\ Awaited' = None /\ Crowded' = FALSE
  <2>1. cur \in Node
    BY <1>2, <1>3, BufferTypes
  <2> QED BY <1>1, <2>1, TestDrmMmConstants DEF Awaited, Crowded, Resting, Finish
<1>9. Abstract!Placed = allocated /\ View[cur].size = x
  BY <1>2, <1>3, ViewFacts DEF View, Seen
<1> HIDE DEF x
<1>10. Abstract!Place(p)
  BY <1>6, <1>7, <1>8, <1>9 DEF Abstract!Place, View, Seen, Awaited, Crowded
<1> QED BY <1>5, <1>10 DEF AbstractStep, Abstract!Next

(* Nothing is purged before the attempt without it has failed.             *)
LEMMA StartPurgeStep ==
  ASSUME 0 \notin Sizes, IInv, StartPurge
  PROVE  AbstractStep
<1>1. /\ pc = "insert1" /\ pc' = "purge" /\ cur' = cur /\ UNCHANGED <<buffers, start>>
      /\ NoRoom(cur, "BEST")
  BY DEF StartPurge, At, Goto, mmVars, poolVars
<1>2. TypeOK /\ PoolOK /\ Quiet /\ cur \in Live
  BY <1>1, AtQuietPoint DEF TypeOK, Resting
<1>3. buffers[cur].size \in Nat /\ buffers[cur].size > 0
  <2>1. buffers[cur].size \in Sizes
    BY <1>2, BufferTypes DEF Buffer
  <2> QED BY <1>2, <2>1, BufferTypes
<1>4. ~RoomFor(buffers[cur].size, allocated)
  BY <1>1, <1>2, <1>3, NoRoomIsNone DEF NoRoom, SearchModes
<1>5. ~Abstract!HasRoom(cur, allocated) /\ Abstract!Placed = allocated
  BY <1>2, <1>4, RoomMeans, ViewFacts
<1>6. View' = View
  BY <1>1 DEF View, Seen, Live
<1>7. Awaited = cur /\ cur # None /\ Awaited' = Awaited /\ Crowded' = TRUE
  <2>1. cur \in Node
    BY <1>2, BufferTypes
  <2> QED BY <1>1, <2>1, TestDrmMmConstants DEF Awaited, Crowded, Resting
<1>8. Abstract!Crowd
  BY <1>5, <1>6, <1>7 DEF Abstract!Crowd, View, Seen, Awaited, Crowded
<1> QED BY <1>8 DEF AbstractStep, Abstract!Next

(* A buffer that the purge or the eviction takes out is not pinned.        *)
LEMMA PageOutStep ==
  ASSUME IInv, NEW b \in allocated, ~Pinned(b), RemoveBufferFromPool(b),
         pc \in {"purge", "evict"}, UNCHANGED <<pc, cur>>
  PROVE  AbstractStep
<1>1. TypeOK /\ PoolOK /\ Quiet /\ scanned = {}
  BY DEF IInv, RunOK
<1>2. b \in Live /\ b \in Node /\ \A c \in Live : buffers[c] \in Buffer
  BY <1>1 DEF PoolOK, TypeOK
<1>3. \A c \in allocated : c # b => start'[c] = start[c]
  BY <1>1, RemovePool
<1>4. View' = [View EXCEPT ![b].start = None]
  <2>1. buffers' = [buffers EXCEPT ![b].paged_in = FALSE]
    BY DEF RemoveBufferFromPool
  <2>2. \A c \in Live : c # b /\ buffers[c].paged_in => start'[c] = start[c]
    BY <1>1, <1>3 DEF PoolOK
  <2> QED BY <1>2, <2>1, <2>2 DEF View, Seen, Live, Buffer
<1>5. Crowded = TRUE /\ Awaited' = Awaited /\ Crowded' = Crowded
  BY DEF Awaited, Crowded, Resting
<1>6. b \in Abstract!Placed /\ ~Abstract!Pinned(b)
  BY <1>1, <1>2, ViewFacts
<1>7. Abstract!PageOut(b)
  BY <1>4, <1>5, <1>6 DEF Abstract!PageOut, View, Seen, Awaited, Crowded
<1> QED BY <1>2, <1>7 DEF AbstractStep, Abstract!Next

(* The purge takes out what is marked and not pinned, and passes the rest. *)
LEMMA PurgeOneStep ==
  ASSUME IInv, PurgeStep
  PROVE  AbstractStep
<1>1. pc = "purge" /\ UNCHANGED <<pc, cur>> /\ at \in allocated
  BY DEF PurgeStep, At, IInv, RunOK
<1>2. CASE buffers[at].madv = "dontneed" /\ ~Pinned(at)
  BY <1>1, <1>2, PageOutStep DEF PurgeStep
<1>3. CASE ~(buffers[at].madv = "dontneed" /\ ~Pinned(at))
  <2>1. UNCHANGED <<buffers, start>> /\ Awaited' = Awaited /\ Crowded' = Crowded
    BY <1>1, <1>3 DEF PurgeStep, mmVars, poolVars, Awaited, Crowded, Resting
  <2> QED BY <2>1, QuietStep
<1> QED BY <1>2, <1>3

(* What the scan has put on the eviction list is not pinned.               *)
LEMMA EvictOneStep ==
  ASSUME IInv, EvictStep
  PROVE  AbstractStep
<1>1. /\ pc = "evict" /\ at # None /\ RemoveBufferFromPool(at) /\ UNCHANGED <<pc, cur>>
  BY DEF EvictStep, At
<1>2. PICK v \in Seq(Node), r \in Seq(Node) :
        Parted(v, r) /\ Listed(eviction_list) \cap allocated = Listed(r)
  BY <1>1 DEF IInv, RunOK
<1>3. r # <<>> /\ at = r[1]
  BY <1>1, <1>2 DEF Parted, ListFirst
<1>4. at \in Listed(r)
  BY <1>3, TailItems DEF Listed, InList
<1>5. at \in allocated /\ ~Pinned(at)
  BY <1>1, <1>2, <1>4 DEF IInv, RunOK, Unpinned
<1> QED BY <1>1, <1>5, PageOutStep

(* The scan has come to the end of the list: only what is pinned was not   *)
(* taken out, and that leaves no room.                                     *)
LEMMA RefusalStep ==
  ASSUME IInv, GiveUp
  PROVE  AbstractStep
<1>1. /\ pc = "giveup" /\ at = None /\ Finish /\ UNCHANGED <<buffers, start>>
  BY DEF GiveUp, At, nodeVars, poolVars
<1>2. TypeOK /\ PoolOK /\ cur \in Live
  BY <1>1, AtScanPoint
<1>3. /\ \E v, r \in Seq(Node) : Unwinding(v, r)
      /\ ~RoomFor(buffers[cur].size, {b \in allocated : Pinned(b)})
  BY <1>1 DEF IInv, RunOK
<1>4. Quiet
  <2>1. PICK v \in Seq(Node), r \in Seq(Node) : Unwinding(v, r)
    BY <1>3
  <2>2. r = <<>> /\ InScan(r)
    BY <1>1, <2>1, NothingLeft DEF Unwinding
  <2> QED BY <2>2, RosterEmpty
<1> DEFINE pinned == {b \in allocated : Pinned(b)}
<1>5. pinned \in SUBSET allocated /\ ~RoomFor(buffers[cur].size, pinned)
  BY <1>3
<1>6. {b \in Abstract!Placed : Abstract!Pinned(b)} = pinned
  BY <1>2, <1>4, ViewFacts
<1> HIDE DEF pinned
<1>7. ~Abstract!HasRoom(cur, {b \in Abstract!Placed : Abstract!Pinned(b)})
  BY <1>2, <1>4, <1>5, <1>6, RoomMeans
<1>8. View' = View
  BY <1>1 DEF View, Seen, Live
<1>9. Awaited = cur /\ Awaited' = None /\ Crowded = TRUE /\ Crowded' = FALSE
  BY <1>1 DEF Awaited, Crowded, Resting, Finish
<1>10. Abstract!GiveUp
  BY <1>7, <1>8, <1>9 DEF Abstract!GiveUp, View, Seen, Awaited, Crowded
<1> QED BY <1>10 DEF AbstractStep, Abstract!Next

(* What remains of page_in_buffer is walking lists and counting.           *)
LEMMA UnseenStep ==
  ASSUME EndOfFile \/ Takedown \/ EndPurge \/ StartPageOut \/ StartScan \/ ScanSkip
           \/ ScanAdd \/ ScanEnd \/ GiveUpStep \/ FoundStep \/ StartEvict \/ EndEvict
           \/ UNCHANGED vars
  PROVE  AbstractStep
<1>1. UNCHANGED <<buffers, start, cur>>
  BY DEF EndOfFile, Takedown, EndPurge, StartPageOut, StartScan, ScanSkip, ScanAdd, ScanEnd,
         GiveUpStep, FoundStep, StartEvict, EndEvict, ScanInit, ScanAddBlock, ScanRemoveBlock,
         nodeVars, mmVars, poolVars, vars
<1>2. \/ pc' = pc
      \/ pc \in {"idle", "eof"} /\ pc' \in {"eof", "exit"}
      \/ /\ pc \in {"purge", "insert2", "page_out", "scan", "found", "evict"}
         /\ pc' \in {"insert2", "page_out", "scan", "giveup", "found", "evict", "insert3"}
  BY DEF EndOfFile, Takedown, EndPurge, StartPageOut, StartScan, ScanSkip, ScanAdd, ScanEnd,
         GiveUpStep, FoundStep, StartEvict, EndEvict, At, AtCommand, Goto, vars
<1>3. (Resting' <=> Resting) /\ (pc' = "insert1" <=> pc = "insert1")
  BY <1>2 DEF Resting
<1>4. Awaited' = Awaited /\ Crowded' = Crowded
  BY <1>1, <1>3 DEF Awaited, Crowded
<1> QED BY <1>1, <1>4, QuietStep

(* All steps together; an empty buffer could be refused where there is room. *)
LEMMA NextStep ==
  ASSUME 0 \notin Sizes, IInv, [Next]_vars
  PROVE  AbstractStep
<1>1. ASSUME NEW b \in Node, Command(b) PROVE AbstractStep
  <2>1. CASE \E s \in Sizes, u \in BOOLEAN : BufCreate(b, s, u)
    BY <2>1, CreateStep
  <2>2. CASE BufDestroy(b)
    BY <2>2, FreeStep DEF BufDestroy, AtCommand
  <2>3. CASE \E used \in BOOLEAN : BufSetInUse(b, used)
    BY <2>3, SetInUseStep
  <2>4. CASE BufUse(b)
    BY <2>4, UseStep
  <2> QED BY <1>1, <2>1, <2>2, <2>3, <2>4 DEF Command
<1>2. ASSUME PageIn PROVE AbstractStep
  BY <1>2, InsertStep, StartPurgeStep, PurgeOneStep, EvictOneStep, RefusalStep, UnseenStep
     DEF PageIn
<1>3. ASSUME NEW b \in Node, FreeBuffers(b) PROVE AbstractStep
  BY <1>3, FreeStep DEF FreeBuffers, At
<1>4. ASSUME NEW b \in Node, NEW word \in Madv, BufMadv(b, word) PROVE AbstractStep
  BY <1>4, MadvStep
<1> QED BY <1>1, <1>2, <1>3, <1>4, UnseenStep DEF Next, Run, End

(* If no buffer is empty, the pool program is a pool as BufferPool         *)
(* describes it, as cma-pool-log.py is: best-fit and the scan of drm_mm    *)
(* place a buffer in free space only, take out others only for want of     *)
(* room and none that is pinned, and refuse a buffer only if the pinned    *)
(* ones alone leave no room.  (drm_mm refuses an empty node, which would  *)
(* have room anywhere.)                                                    *)
THEOREM RefinesBufferPool ==
  ASSUME 0 \notin Sizes
  PROVE  Spec => ImplementsBufferPool
<1>1. Init => Abstract!Init
  <2> SUFFICES ASSUME Init PROVE Abstract!Init
    OBVIOUS
  <2>1. Live = {} /\ Resting
    BY DEF Init, Live, Resting
  <2> QED BY <2>1 DEF Abstract!Init
<1>2. IInv /\ [Next]_vars => [Abstract!Next]_(Abstract!vars)
  BY NextStep DEF AbstractStep
<1> QED BY <1>1, <1>2, RunInvariant, PTL DEF Spec, ImplementsBufferPool, Abstract!Spec
=============================================================================
