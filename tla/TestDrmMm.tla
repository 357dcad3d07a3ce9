----------------------------- MODULE TestDrmMm -----------------------------
(***************************************************************************)
(* test-drm-mm/main.c: the pool program that keeps its buffers in the      *)
(* allocator of DrmMm, whose nodes are the buffers' mm_node.               *)
(*                                                                         *)
(* Commands that touch one buffer are one action.  page_in_buffer runs in  *)
(* steps: pc is the point it has reached, cur the buffer it is for, and at *)
(* the list item the current loop has come to (None at the list's end).    *)
(*                                                                         *)
(*   insert1, insert2, insert3   the three attempts of page_in_buffer      *)
(*   purge                       the loop of userspace_cache_purge         *)
(*   page_out, scan              page_out_buffers_for_insertion: the start *)
(*                               and the walk that fills eviction_list     *)
(*   giveup, found, evict        its three loops over eviction_list        *)
(*   eof, exit                   free_buffers; after drm_mm_takedown       *)
(*                                                                         *)
(* A failed BUG_ON ends the program: aborted.  Commands that are refused   *)
(* with a message and change nothing are not actions.  overflow is a       *)
(* size_t, as wide as the u64 of DrmMm.                                    *)
(*                                                                         *)
(* An operator headed "Mistaken" is a plausible error in the definition    *)
(* that follows it, put in its place to see that a property notices.       *)
(***************************************************************************)
EXTENDS DrmMm

CONSTANTS
  Sizes,     \* the sizes a create command may give
  PageSize,  \* PAGE_SIZE, the alignment of every buffer
  None

ASSUME TestDrmMmConstants ==
  /\ Sizes \subseteq 0..U64Max
  /\ PageSize \in Nat \ {0}
  /\ None \notin Nat \cup Node

VARIABLES
  buffers,        \* name -> struct buffer, for all_buffers
  mru_buffers,    \* the buffers that are paged in, last used first
  overflow,
  pc, cur, at,
  eviction_list,
  aborted

poolVars == <<buffers, mru_buffers, overflow>>
runVars == <<pc, cur, at, eviction_list, aborted>>
vars == <<mmVars, buffers, mru_buffers, overflow, pc, cur, at, eviction_list,
          aborted>>

Madv == {"willneed", "dontneed"}
Buffer == [size: Sizes, unmoveable: BOOLEAN, paged_in: BOOLEAN, in_use: BOOLEAN,
           madv: Madv]

Live == DOMAIN buffers

(* Mistaken: what the kernel needs may be paged out. *)
PinnedByUse(b) == buffers[b].in_use

Pinned(b) == buffers[b].in_use \/ buffers[b].unmoveable

Init ==
  /\ DrmMmInit
  /\ buffers = [b \in {} |-> None]
  /\ mru_buffers = <<>>
  /\ overflow = 0
  /\ pc = "idle" /\ cur = None /\ at = None /\ eviction_list = <<>>
  /\ aborted = FALSE

Wrap(x) == x % (U64Max + 1)

AtCommand == pc = "idle" /\ ~aborted
At(label) == pc = label /\ ~aborted
Goto(label, item) == pc' = label /\ at' = item
Finish == pc' = "idle" /\ cur' = None /\ at' = None /\ eviction_list' = <<>>
Abort == aborted' = TRUE

(* Mistaken: the buffer stays in mru_buffers. *)
RemoveFromMmOnly(b) ==
  /\ RemoveNode(b)
  /\ buffers' = [buffers EXCEPT ![b].paged_in = FALSE]
  /\ overflow' = Wrap(overflow + buffers[b].size)
  /\ UNCHANGED mru_buffers

RemoveBufferFromPool(b) ==
  /\ RemoveNode(b)
  /\ mru_buffers' = ListRemove(mru_buffers, b)
  /\ buffers' = [buffers EXCEPT ![b].paged_in = FALSE]
  /\ overflow' = Wrap(overflow + buffers[b].size)

(* Mistaken: what leaves the pool has never been added to the overflow.    *)
FreeUncounted(b) ==
  /\ IF buffers[b].paged_in
       THEN RemoveNode(b) /\ mru_buffers' = ListRemove(mru_buffers, b)
       ELSE UNCHANGED <<mmVars, mru_buffers>>
  /\ overflow' = Wrap(overflow - buffers[b].size)
  /\ buffers' = [c \in Live \ {b} |-> buffers[c]]

(* A buffer that is paged in is removed from the pool first, which adds to *)
(* the overflow what is then taken off it.                                 *)
FreeBuffer(b) ==
  /\ IF buffers[b].paged_in
       THEN /\ RemoveNode(b)
            /\ mru_buffers' = ListRemove(mru_buffers, b)
            /\ overflow' = Wrap(overflow + buffers[b].size - buffers[b].size)
       ELSE /\ overflow' = Wrap(overflow - buffers[b].size)
            /\ UNCHANGED <<mmVars, mru_buffers>>
  /\ buffers' = [c \in Live \ {b} |-> buffers[c]]

InsertBuffer(b, mode) ==
  /\ InsertNode(b, buffers[b].size, PageSize, 0, U64Max, mode, FALSE)
  /\ mru_buffers' = ListPrepend(mru_buffers, b)
  /\ buffers' = [buffers EXCEPT ![b].paged_in = TRUE]
  /\ overflow' = Wrap(overflow - buffers[b].size)

NoRoom(b, mode) ==
  InsertFails(buffers[b].size, PageSize, 0, U64Max, mode, FALSE)

-----------------------------------------------------------------------------
(* Commands *)

BufCreate(b, s, u) ==
  /\ AtCommand
  /\ b \notin Live
  /\ buffers' = [c \in Live \cup {b} |->
                   IF c = b THEN [size |-> s, unmoveable |-> u, paged_in |-> FALSE,
                                  in_use |-> FALSE, madv |-> "willneed"]
                            ELSE buffers[c]]
  /\ overflow' = Wrap(overflow + s)
  /\ Goto("insert1", None) /\ cur' = b
  /\ UNCHANGED <<mmVars, mru_buffers, eviction_list, aborted>>

BufDestroy(b) ==
  /\ AtCommand
  /\ b \in Live
  /\ FreeBuffer(b)
  /\ UNCHANGED runVars

(* add_usecnt on a buffer in use and remove_usecnt on one that is not in   *)
(* use print a message and go on.                                          *)
BufSetInUse(b, used) ==
  /\ AtCommand
  /\ b \in Live
  /\ buffers' = [buffers EXCEPT ![b].in_use = used]
  /\ UNCHANGED <<mmVars, mru_buffers, overflow, runVars>>

BufUse(b) ==
  /\ AtCommand
  /\ b \in Live
  /\ IF buffers[b].paged_in
       THEN /\ mru_buffers' = ListPrepend(ListRemove(mru_buffers, b), b)
            /\ UNCHANGED <<pc, cur, at>>
       ELSE /\ Goto("insert1", None) /\ cur' = b
            /\ UNCHANGED mru_buffers
  /\ UNCHANGED <<mmVars, buffers, overflow, eviction_list, aborted>>

(* The loop over madv_map returns at the end of its first round, in which  *)
(* it has compared the word with "willneed".                               *)
BufMadv(b, word) ==
  /\ AtCommand
  /\ b \in Live
  /\ buffers' = [buffers EXCEPT
                   ![b].madv = IF word = "willneed" THEN "willneed" ELSE @]
  /\ UNCHANGED <<mmVars, mru_buffers, overflow, runVars>>

(* The input ends; main frees every buffer before it takes the mm down.    *)
EndOfFile ==
  /\ AtCommand
  /\ Goto("eof", None)
  /\ UNCHANGED <<mmVars, poolVars, cur, eviction_list, aborted>>

-----------------------------------------------------------------------------
(* The steps of page_in_buffer *)

Insert(label, mode) ==
  /\ At(label)
  /\ InsertBuffer(cur, mode)
  /\ Finish
  /\ UNCHANGED aborted

InsertFirst == Insert("insert1", "BEST")
InsertAfterPurge == Insert("insert2", "BEST")
InsertAfterPageOut == Insert("insert3", "EVICT")  \* EvictionMakesRoom: never fails

StartPurge ==
  /\ At("insert1") /\ NoRoom(cur, "BEST")
  /\ Goto("purge", ListFirst(mru_buffers, None))
  /\ UNCHANGED <<mmVars, poolVars, cur, eviction_list, aborted>>

(* Mistaken: the next item is only looked up when one is removed.          *)
PurgeStanding ==
  /\ At("purge") /\ at # None
  /\ IF buffers[at].madv = "dontneed" /\ ~Pinned(at)
       THEN RemoveBufferFromPool(at) /\ at' = ListNext(mru_buffers, at, None)
       ELSE UNCHANGED <<mmVars, poolVars, at>>
  /\ UNCHANGED <<pc, cur, eviction_list, aborted>>

PurgeStep ==
  /\ At("purge") /\ at # None
  /\ at' = ListNext(mru_buffers, at, None)
  /\ IF buffers[at].madv = "dontneed" /\ ~Pinned(at)
       THEN RemoveBufferFromPool(at)
       ELSE UNCHANGED <<mmVars, poolVars>>
  /\ UNCHANGED <<pc, cur, eviction_list, aborted>>

EndPurge ==
  /\ At("purge") /\ at = None
  /\ Goto("insert2", None)
  /\ UNCHANGED <<mmVars, poolVars, cur, eviction_list, aborted>>

StartPageOut ==
  /\ At("insert2") /\ NoRoom(cur, "BEST")
  /\ Goto("page_out", None)
  /\ UNCHANGED <<mmVars, poolVars, cur, eviction_list, aborted>>

StartScan ==
  /\ At("page_out")
  /\ \/ /\ MayScan(buffers[cur].size, 0, PoolSize)
        /\ ScanInit(buffers[cur].size, PageSize, 0, PoolSize, "BEST")
        /\ Goto("scan", ListLast(mru_buffers, None))
        /\ UNCHANGED aborted
     \/ /\ ~MayScan(buffers[cur].size, 0, PoolSize)
        /\ Abort
        /\ UNCHANGED <<mmVars, pc, at>>
  /\ UNCHANGED <<poolVars, cur, eviction_list>>

ScanSkip ==
  /\ At("scan") /\ at # None /\ Pinned(at)
  /\ at' = ListPrev(mru_buffers, at, None)
  /\ UNCHANGED <<mmVars, poolVars, pc, cur, eviction_list, aborted>>

(* Mistaken: list_add_tail, so that the loops that follow take the blocks  *)
(* in the order in which they were added.                                  *)
ScanAddTail ==
  /\ At("scan") /\ at # None /\ ~Pinned(at)
  /\ MayScanAdd(at)
  /\ ScanAddBlock(at)
  /\ eviction_list' = Append(eviction_list, at)
  /\ IF ScanHit(at) # {} THEN Goto("found", eviction_list'[1])
                         ELSE Goto("scan", ListPrev(mru_buffers, at, None))
  /\ UNCHANGED <<poolVars, cur, aborted>>

ScanAdd ==
  /\ At("scan") /\ at # None /\ ~Pinned(at)
  /\ MayScanAdd(at)
  /\ ScanAddBlock(at)
  /\ eviction_list' = ListPrepend(eviction_list, at)
  /\ IF ScanHit(at) # {} THEN Goto("found", at)
                         ELSE Goto("scan", ListPrev(mru_buffers, at, None))
  /\ UNCHANGED <<poolVars, cur, aborted>>

ScanEnd ==
  /\ At("scan") /\ at = None
  /\ Goto("giveup", ListFirst(eviction_list, None))
  /\ UNCHANGED <<mmVars, poolVars, cur, eviction_list, aborted>>

(* BUG_ON(ret): no block is selected when no place was found. *)
GiveUpStep ==
  /\ At("giveup") /\ at # None
  /\ MayScanRemove(at)
  /\ ScanRemoveBlock(at)
  /\ aborted' = ScanSelects(at)
  /\ at' = ListNext(eviction_list, at, None)
  /\ UNCHANGED <<poolVars, pc, cur, eviction_list>>

GiveUp ==
  /\ At("giveup") /\ at = None
  /\ scan' = NoScan
  /\ Finish
  /\ UNCHANGED <<listVars, nodeVars, holeVars, scanned, poolVars, aborted>>

FoundStep ==
  /\ At("found") /\ at # None
  /\ MayScanRemove(at)
  /\ ScanRemoveBlock(at)
  /\ eviction_list' = IF ScanSelects(at) THEN eviction_list
                                         ELSE ListRemove(eviction_list, at)
  /\ at' = ListNext(eviction_list, at, None)
  /\ UNCHANGED <<poolVars, pc, cur, aborted>>

StartEvict ==
  /\ At("found") /\ at = None
  /\ Goto("evict", ListFirst(eviction_list, None))
  /\ UNCHANGED <<mmVars, poolVars, cur, eviction_list, aborted>>

EvictStep ==
  /\ At("evict") /\ at # None
  /\ MayRemove(at)
  /\ RemoveBufferFromPool(at)
  /\ at' = ListNext(eviction_list, at, None)
  /\ UNCHANGED <<pc, cur, eviction_list, aborted>>

EndEvict ==
  /\ At("evict") /\ at = None
  /\ scan' = NoScan
  /\ Goto("insert3", None)
  /\ UNCHANGED <<listVars, nodeVars, holeVars, scanned, poolVars, cur,
                 eviction_list, aborted>>

-----------------------------------------------------------------------------
(* The end of main: free_buffers, then drm_mm_takedown.                    *)
(* Mistaken: main leaves the buffers to the operating system.              *)
TakedownAtOnce ==
  /\ At("eof")
  /\ Goto("exit", None)
  /\ UNCHANGED <<mmVars, poolVars, cur, eviction_list, aborted>>

FreeBuffers(b) ==
  /\ At("eof") /\ b \in Live
  /\ FreeBuffer(b)
  /\ UNCHANGED runVars

Takedown ==
  /\ At("eof") /\ Live = {}
  /\ Goto("exit", None)
  /\ UNCHANGED <<mmVars, poolVars, cur, eviction_list, aborted>>

Command(b) ==
  \/ \E s \in Sizes, u \in BOOLEAN : BufCreate(b, s, u)
  \/ BufDestroy(b)
  \/ \E used \in BOOLEAN : BufSetInUse(b, used)
  \/ BufUse(b)

PageIn ==
  \/ InsertFirst \/ InsertAfterPurge \/ InsertAfterPageOut
  \/ StartPurge \/ PurgeStep \/ EndPurge
  \/ StartPageOut \/ StartScan \/ ScanSkip \/ ScanAdd \/ ScanEnd
  \/ GiveUpStep \/ GiveUp
  \/ FoundStep \/ StartEvict \/ EvictStep \/ EndEvict

End == Takedown \/ \E b \in Node : FreeBuffers(b)

Run == (\E b \in Node : Command(b)) \/ EndOfFile \/ PageIn \/ End

Next == Run \/ \E b \in Node, word \in Madv : BufMadv(b, word)

Spec == Init /\ [][Next]_vars

(* The program runs by itself between two lines of its input, and once the *)
(* input has ended.                                                        *)
FairSpec == Spec /\ WF_vars(PageIn \/ End)

-----------------------------------------------------------------------------
(* Invariants *)

(* A buffer is paged in exactly when it is in the MRU list, and exactly    *)
(* when its node is allocated; node and buffer have the same size.         *)
PagedInAgrees ==
  /\ allocated = {b \in Live : buffers[b].paged_in}
  /\ ToSet(mru_buffers) = allocated /\ IsInjective(mru_buffers)
  /\ \A b \in allocated : size[b] = buffers[b].size /\ start[b] % PageSize = 0

(* overflow is the total size of the buffers that are paged out, up to the *)
(* width of a size_t, however often adding and subtracting has wrapped.    *)
OverflowExact ==
  overflow = Wrap(FoldFunctionOnSet(+, 0, [b \in Live |-> buffers[b].size],
                                    {b \in Live : ~buffers[b].paged_in}))

(* The scan stops at the first buffer, from the least recently used one    *)
(* on, with which there is room: until then the buffers it has passed do   *)
(* not make a place even together, and then they do.                       *)
ScanStopsInTime ==
  LET places == Places(allocated \ scanned, buffers[cur].size, PageSize, 0, PoolSize)
  IN  /\ pc = "scan" => places = {}
      /\ pc = "found" /\ Len(eviction_list) = Cardinality(scanned) /\ scanned # {}
           => scan.hit_start \in places

(* Whatever page_in_buffer has done so far, the next call it makes is one  *)
(* that the assertions of drm_mm allow: nodes are inserted and removed     *)
(* outside a scan only, a block is added to a scan once, and the blocks    *)
(* come off it in the reverse order, none selected by a scan that found    *)
(* nothing (BUG_ON(ret)).                                                  *)
CallsAreLegal ==
  /\ pc \in {"insert1", "insert2", "insert3"} => MayInsert(cur)
  /\ pc \in {"purge", "evict"} /\ at # None => MayRemove(at) /\ scanned = {}
  /\ pc = "scan" /\ at # None /\ ~Pinned(at) => MayScanAdd(at)
  /\ pc \in {"giveup", "found"} /\ at # None => MayScanRemove(at)
  /\ pc = "giveup" /\ at # None => ~ScanSelects(at)

(* After page_out_buffers_for_insertion has returned true, the third       *)
(* attempt succeeds.                                                       *)
EvictionMakesRoom == pc = "insert3" => ~NoRoom(cur, "EVICT")

(* When nothing is left to read, free_buffers leaves a clean allocator,    *)
(* one hole as large as the pool, and no overflow.                         *)
CleanAtTakedown ==
  pc = "exit" =>
    /\ next[HeadNode] = HeadNode /\ allocated = {}
    /\ hole_stack = <<HeadNode>> /\ hole_size[HeadNode] = PoolSize
    /\ overflow = 0

(* No assertion of drm_mm ever ends the program: a buffer that does not    *)
(* fit gets the message at the end of page_in_buffer (main.c: "Couldn't    *)
(* find insertion point for buffer of size").                              *)
NeverAborts == ~aborted

(* What does end it is the size of a buffer: 0, or larger than the pool.   *)
AbortsOnlyOnBadSize ==
  aborted => buffers[cur].size = 0 \/ buffers[cur].size > PoolSize

(* Every command ends, and so does the program once its input has ended,   *)
(* unless an assertion stops it.                                           *)
CommandEnds == pc \notin {"idle", "exit"} ~> pc \in {"idle", "exit"} \/ aborted

-----------------------------------------------------------------------------
(* The program as BufferPool sees it: places are those of the allocator's  *)
(* nodes.                                                                  *)
Resting == pc \in {"idle", "eof", "exit"}

Abstract == INSTANCE BufferPool WITH
  BufId <- Node, Alignment <- PageSize, Compact <- FALSE,
  bufs <- [b \in Live |-> [size |-> buffers[b].size,
                           start |-> IF buffers[b].paged_in THEN start[b] ELSE None,
                           in_use |-> buffers[b].in_use,
                           unmoveable |-> buffers[b].unmoveable]],
  wanted <- IF Resting THEN None ELSE cur,
  crowded <- ~Resting /\ pc # "insert1"

(* Buffers that are not empty get from best-fit, scan and eviction what    *)
(* they get from the Python pool: a place that is free, and no refusal     *)
(* unless pinned buffers alone leave none; a pinned buffer stays where it  *)
(* is.                                                                     *)
ImplementsBufferPool == Abstract!Spec
=============================================================================
