------------------------------ MODULE CmaPool ------------------------------
(***************************************************************************)
(* The CMA pool of cma-pool-log.py (class Pool): a range of PoolSize units *)
(* in which the buffers of the v3d driver are placed first-fit, and from   *)
(* which they are paged out, least recently used first, to make room.      *)
(*                                                                         *)
(* A log command that is handled without a search for room is one action.  *)
(* create and use may have to page a buffer in; the loop of                *)
(* _page_in_buffer then runs as a sequence of steps, pc naming the point   *)
(* it has reached and cur the buffer it works for:                         *)
(*                                                                         *)
(*   idle   between two commands                                           *)
(*   first  the attempt before anything is evicted                         *)
(*   purge  the loop of _purge_userspace_cache, at index i                 *)
(*   retry  the loop that pages out one buffer and tries again             *)
(*   touch  the end of _buf_use, once the buffer is in the pool            *)
(*                                                                         *)
(* A Python exception ends the program: raised names it.                   *)
(*                                                                         *)
(* An operator under the heading "Mistaken" is a plausible error in the    *)
(* definition that follows it.  Nothing uses it: it is put in the place of *)
(* that definition to see that a property notices.                         *)
(***************************************************************************)
EXTENDS Lists

CONSTANTS
  BufId,      \* the buffer ids a log may name
  Sizes,      \* the sizes a create command may give
  PoolSize,   \* Pool.SIZE
  Compact,    \* the compact argument of Pool.__init__
  DriverLog,  \* TRUE: add_usecnt is only logged for a buffer in the pool, as
              \* the driver does; FALSE: any sequence of commands
  None        \* Python's None

ASSUME ConstantsOK ==
  /\ Sizes \subseteq Nat
  /\ PoolSize \in Nat
  /\ Compact \in BOOLEAN
  /\ DriverLog \in BOOLEAN
  /\ None \notin Nat \cup BufId

VARIABLES
  buffers,      \* id -> Buffer, for the buffers that exist
  mru_list,     \* ids of the buffers in the pool, most recently used first
  offset_list,  \* ids of the buffers in the pool, lowest offset first
  overflow,     \* total size of the buffers that are paged out
  pc, op,       \* where page-in stands, the command it is part of,
  cur, i,       \* its buffer, the index of the purge loop
  raised,       \* the exception that ended the program, or "none"
  recency       \* history: existing buffers, last created or used first

pool == <<buffers, mru_list, offset_list, overflow>>
vars == <<buffers, mru_list, offset_list, overflow, pc, op, cur, i, raised,
          recency>>

Buffer == [size: Sizes, unmoveable: BOOLEAN, offset: Nat \cup {None},
           in_use: BOOLEAN, madv: {"willneed", "dontneed"}]

Live == DOMAIN buffers
PagedIn(b) == buffers[b].offset # None
InPool(b) == b \in Live /\ PagedIn(b)

(* Mistaken: one of the two reasons to leave a buffer alone is missing.    *)
PinnedByKernel(b) == buffers[b].unmoveable

Pinned(b) == buffers[b].in_use \/ buffers[b].unmoveable

(* Mistaken: purging without asking, or without asking enough. *)
PurgeableAlways(b) == buffers[b].madv = "dontneed"
PurgeableInUse(b) == buffers[b].madv = "dontneed" /\ ~buffers[b].unmoveable

Purgeable(b) == buffers[b].madv = "dontneed" /\ ~Pinned(b)
Off(b) == buffers[b].offset
End(b) == buffers[b].offset + buffers[b].size

-----------------------------------------------------------------------------
(* The gap in front of the k-th buffer of offset_list; the last gap is the *)
(* one behind every buffer.                                                *)
GapStart(k) == IF k = 1 THEN 0 ELSE End(offset_list[k - 1])
GapEnd(k) == IF k = Len(offset_list) + 1 THEN PoolSize ELSE Off(offset_list[k])

(* Mistaken: the end of the pool is forgotten.                             *)
FittingInnerGaps(b) == {k \in 1 .. Len(offset_list) :
                          GapEnd(k) - GapStart(k) >= buffers[b].size}

FittingGaps(b) == {k \in 1 .. Len(offset_list) + 1 :
                     GapEnd(k) - GapStart(k) >= buffers[b].size}

(* Mistaken: > for >= in the loop of _compact_buffer, which then gets past *)
(* b itself; an end that is only remembered once.                          *)
LowerEndPastItself(b) ==
  LET below == {k \in 1..Len(offset_list) :
                  \A j \in 1..k : Off(offset_list[j]) <= Off(b)}
  IN  IF below = {} THEN 0 ELSE End(offset_list[Max(below)])
LowerEndOfFirst(b) ==
  IF offset_list[1] = b THEN 0 ELSE End(offset_list[1])

(* Where _compact_buffer finds the end of the buffer below b: the loop     *)
(* stops at the first buffer that is not below b.                          *)
LowerEnd(b) ==
  LET below == {k \in 1..Len(offset_list) :
                  \A j \in 1..k : Off(offset_list[j]) < Off(b)}
  IN  IF below = {} THEN 0 ELSE End(offset_list[Max(below)])

(* What _page_out_lru_buffer may take, and what it takes: its loop runs    *)
(* over mru_list from the end.                                             *)
Unpinned == {k \in 1..Len(mru_list) : ~Pinned(mru_list[k])}

LruPlace == Max(Unpinned)

-----------------------------------------------------------------------------
Init ==
  /\ buffers = [b \in {} |-> None]
  /\ mru_list = <<>>
  /\ offset_list = <<>>
  /\ overflow = 0
  /\ pc = "idle" /\ op = None /\ cur = None /\ i = 1
  /\ raised = "none"
  /\ recency = <<>>

AtCommand == pc = "idle" /\ raised = "none"
Idle == pc' = "idle" /\ op' = None /\ cur' = None /\ i' = 1
Goto(label) == pc' = label /\ i' = 1 /\ UNCHANGED <<op, cur>>
Start(label, command, b) == pc' = label /\ op' = command /\ cur' = b /\ i' = 1
Raise(e) == raised' = e /\ Idle

(* Mistaken: out of one list only. *)
RemoveFromOffsetList(b) ==
  /\ offset_list' = ListRemove(offset_list, b)
  /\ UNCHANGED mru_list
  /\ buffers' = [buffers EXCEPT ![b].offset = None]
  /\ overflow' = overflow + buffers[b].size

RemoveFromPool(b) ==
  /\ offset_list' = ListRemove(offset_list, b)
  /\ mru_list' = ListRemove(mru_list, b)
  /\ buffers' = [buffers EXCEPT ![b].offset = None]
  /\ overflow' = overflow + buffers[b].size

(* Mistaken: the buffer still counts as paged out. *)
InsertUncounted(k, b) ==
  /\ buffers' = [buffers EXCEPT ![b].offset = GapStart(k)]
  /\ offset_list' = InsertAt(offset_list, k, b)
  /\ mru_list' = ListPrepend(mru_list, b)
  /\ UNCHANGED overflow

(* Mistaken: the buffer ends where it should start. *)
InsertBelow(k, b) ==
  /\ buffers' = [buffers EXCEPT ![b].offset = GapStart(k) - buffers[b].size]
  /\ offset_list' = InsertAt(offset_list, k, b)
  /\ mru_list' = ListPrepend(mru_list, b)
  /\ overflow' = overflow - buffers[b].size

InsertBufferAt(k, b) ==
  /\ buffers' = [buffers EXCEPT ![b].offset = GapStart(k)]
  /\ offset_list' = InsertAt(offset_list, k, b)
  /\ mru_list' = ListPrepend(mru_list, b)
  /\ overflow' = overflow - buffers[b].size

-----------------------------------------------------------------------------
(* Commands *)

(* Every command but create looks its buffer up in the dictionary first.   *)
UnknownId(b) ==
  /\ AtCommand
  /\ b \notin Live
  /\ Raise("KeyError")
  /\ UNCHANGED <<pool, recency>>

Create(b, s, u) ==
  /\ AtCommand
  /\ b \notin Live
  /\ buffers' = [c \in Live \cup {b} |->
                   IF c = b THEN [size |-> s, unmoveable |-> u, offset |-> None,
                                  in_use |-> FALSE, madv |-> "willneed"]
                            ELSE buffers[c]]
  /\ overflow' = overflow + s
  /\ recency' = ListPrepend(recency, b)
  /\ Start("first", "create", b)
  /\ UNCHANGED <<mru_list, offset_list, raised>>

CreateExisting(b) ==
  /\ AtCommand
  /\ b \in Live
  /\ Raise("AssertionError")
  /\ UNCHANGED <<pool, recency>>

Destroy(b) ==
  /\ AtCommand
  /\ b \in Live
  /\ IF PagedIn(b)
       THEN /\ mru_list' = ListRemove(mru_list, b)
            /\ offset_list' = ListRemove(offset_list, b)
            /\ UNCHANGED overflow
       ELSE /\ overflow' = overflow - buffers[b].size
            /\ UNCHANGED <<mru_list, offset_list>>
  /\ buffers' = [c \in Live \ {b} |-> buffers[c]]
  /\ recency' = ListRemove(recency, b)
  /\ UNCHANGED <<pc, op, cur, i, raised>>

AddUsecnt(b) ==
  /\ AtCommand
  /\ b \in Live
  /\ DriverLog => PagedIn(b)
  /\ \/ /\ buffers[b].in_use
        /\ Raise("AssertionError")
        /\ UNCHANGED buffers
     \/ /\ ~buffers[b].in_use
        /\ buffers' = [buffers EXCEPT ![b].in_use = TRUE]
        /\ UNCHANGED <<pc, op, cur, i, raised>>
  /\ UNCHANGED <<mru_list, offset_list, overflow, recency>>

(* Python refuses to compare None with a number: compacting a buffer that  *)
(* is paged out raises TypeError, after in_use has been cleared.           *)
RemoveUsecnt(b) ==
  /\ AtCommand
  /\ b \in Live
  /\ \/ /\ ~buffers[b].in_use
        /\ Raise("AssertionError")
        /\ UNCHANGED buffers
     \/ /\ buffers[b].in_use
        /\ Compact /\ ~PagedIn(b)
        /\ buffers' = [buffers EXCEPT ![b].in_use = FALSE]
        /\ Raise("TypeError")
     \/ /\ buffers[b].in_use
        /\ Compact => PagedIn(b)
        /\ buffers' = [buffers EXCEPT
                         ![b].in_use = FALSE,
                         ![b].offset = IF Compact /\ LowerEnd(b) < Off(b)
                                         THEN LowerEnd(b) ELSE Off(b)]
        /\ UNCHANGED <<pc, op, cur, i, raised>>
  /\ UNCHANGED <<mru_list, offset_list, overflow, recency>>

Madv(b, m) ==
  /\ AtCommand
  /\ b \in Live
  /\ buffers' = [buffers EXCEPT ![b].madv = m]
  /\ UNCHANGED <<mru_list, offset_list, overflow, pc, op, cur, i, raised,
                 recency>>

Use(b) ==
  /\ AtCommand
  /\ b \in Live
  /\ \/ /\ buffers[b].madv # "willneed"
        /\ Raise("AssertionError")
        /\ UNCHANGED recency
     \/ /\ buffers[b].madv = "willneed"
        /\ Start(IF PagedIn(b) THEN "touch" ELSE "first", "use", b)
        /\ recency' = ListPrepend(ListRemove(recency, b), b)
        /\ UNCHANGED raised
  /\ UNCHANGED pool

-----------------------------------------------------------------------------
(* The steps of _page_in_buffer and the end of _buf_use.                   *)

Insert ==
  /\ pc \in {"first", "retry"} /\ raised = "none"
  /\ FittingGaps(cur) # {}
  /\ InsertBufferAt(Min(FittingGaps(cur)), cur)
  /\ IF op = "use" THEN Goto("touch") ELSE Idle
  /\ UNCHANGED <<raised, recency>>

StartPurge ==
  /\ pc = "first" /\ raised = "none"
  /\ FittingGaps(cur) = {}
  /\ Goto("purge")
  /\ UNCHANGED <<pool, raised, recency>>

(* Mistaken: the index moves on although the list has moved up; it does    *)
(* not move on past a buffer that stays.                                   *)
PurgeSkipping ==
  /\ pc = "purge" /\ raised = "none"
  /\ i <= Len(offset_list)
  /\ i' = i + 1
  /\ IF Purgeable(offset_list[i]) THEN RemoveFromPool(offset_list[i])
                                  ELSE UNCHANGED pool
  /\ UNCHANGED <<pc, op, cur, raised, recency>>
PurgeStanding ==
  /\ pc = "purge" /\ raised = "none"
  /\ i <= Len(offset_list)
  /\ UNCHANGED i
  /\ IF Purgeable(offset_list[i]) THEN RemoveFromPool(offset_list[i])
                                  ELSE UNCHANGED pool
  /\ UNCHANGED <<pc, op, cur, raised, recency>>

PurgeOne ==
  /\ pc = "purge" /\ raised = "none"
  /\ i <= Len(offset_list)
  /\ IF Purgeable(offset_list[i])
       THEN RemoveFromPool(offset_list[i]) /\ UNCHANGED i
       ELSE i' = i + 1 /\ UNCHANGED pool
  /\ UNCHANGED <<pc, op, cur, raised, recency>>

EndPurge ==
  /\ pc = "purge" /\ raised = "none"
  /\ i > Len(offset_list)
  /\ Goto("retry")
  /\ UNCHANGED <<pool, raised, recency>>

PageOutLru ==
  /\ pc = "retry" /\ raised = "none"
  /\ FittingGaps(cur) = {}
  /\ \/ /\ Unpinned # {}
        /\ RemoveFromPool(mru_list[LruPlace])
        /\ UNCHANGED <<pc, op, cur, i, raised>>
     \/ /\ Unpinned = {}
        /\ Raise("Exception")
        /\ UNCHANGED pool
  /\ UNCHANGED recency

(* Mistaken: a buffer that is used keeps its place in mru_list. *)
TouchNothing ==
  /\ pc = "touch" /\ raised = "none"
  /\ Idle
  /\ UNCHANGED <<pool, raised, recency>>

Touch ==
  /\ pc = "touch" /\ raised = "none"
  /\ mru_list' = ListPrepend(ListRemove(mru_list, cur), cur)
  /\ Idle
  /\ UNCHANGED <<buffers, offset_list, overflow, raised, recency>>

-----------------------------------------------------------------------------
Command(b) ==
  \/ UnknownId(b)
  \/ \E s \in Sizes, u \in BOOLEAN : Create(b, s, u)
  \/ CreateExisting(b)
  \/ Destroy(b)
  \/ AddUsecnt(b)
  \/ RemoveUsecnt(b)
  \/ \E m \in {"willneed", "dontneed"} : Madv(b, m)
  \/ Use(b)

PageIn == Insert \/ StartPurge \/ PurgeOne \/ EndPurge \/ PageOutLru \/ Touch

Next == (\E b \in BufId : Command(b)) \/ PageIn

Spec == Init /\ [][Next]_vars

(* The program runs by itself once it has read a command; when the next    *)
(* line of the log arrives is up to whoever writes it.                     *)
FairSpec == Spec /\ WF_vars(PageIn)

-----------------------------------------------------------------------------
(* Invariants *)

(* Every variable has its type; page-in works for a buffer that exists.    *)
TypeOK ==
  /\ Live \subseteq BufId
  /\ \A b \in Live : buffers[b] \in Buffer
  /\ mru_list \in Seq(BufId)
  /\ offset_list \in Seq(BufId)
  /\ overflow \in Int
  /\ pc \in {"idle", "first", "purge", "retry", "touch"}
  /\ IF pc = "idle" THEN op = None /\ cur = None
                    ELSE op \in {"create", "use"} /\ cur \in Live
  /\ i \in Nat \ {0}
  /\ raised \in {"none", "KeyError", "AssertionError", "TypeError", "Exception"}

(* The allocation layout: offset_list holds exactly the buffers that have  *)
(* an offset, each once, in the order of their offsets, and no two of them *)
(* overlap or leave the pool.  First-fit insertion and compaction only     *)
(* look at neighbours, so both rest on it.                                 *)
LayoutOK ==
  /\ Distinct(offset_list)
  /\ \A b \in BufId : InPool(b) <=> InList(offset_list, b)
  /\ \A b \in BufId : InPool(b) => End(b) <= PoolSize
  /\ \A b, c \in BufId : Before(offset_list, b, c) => End(b) <= Off(c)

(* The first gap always has room for a buffer of size 0, so these lie at   *)
(* the bottom of the pool.  Elsewhere one could stop the loop of           *)
(* _compact_buffer too early and let a buffer move past it.                *)
EmptyAtBottom == \A b \in Live : PagedIn(b) /\ buffers[b].size = 0 => Off(b) = 0

(* The two lists of a Pool always hold the same buffers, each once.        *)
ListsAgree ==
  /\ Distinct(mru_list)
  /\ \A b \in BufId : InList(mru_list, b) <=> InList(offset_list, b)

(* The overflow bar of the video is the total size of the buffers that     *)
(* exist but are paged out, whatever create, destroy, page-in and page-out *)
(* have added to it and taken off it on the way.                           *)
OverflowExact ==
  overflow = FoldFunctionOnSet(+, 0, [b \in Live |-> buffers[b].size],
                               {b \in Live : ~PagedIn(b)})

(* The purge loop removes from the list it walks; when it is over, it has  *)
(* missed no purgeable buffer, so buffers are paged out for want of room   *)
(* only after every purgeable one has gone.                                *)
PurgeFirst ==
  pc = "retry" => \A b \in Live : PagedIn(b) => ~Purgeable(b)

(* The program gives up on a buffer only when nothing else could leave the *)
(* pool and no gap between the buffers left is large enough for it.        *)
GivesUpOnlyWhenPinned ==
  raised = "Exception" =>
    /\ \A b \in Live : PagedIn(b) => Pinned(b)
    /\ \E b \in Live :
         /\ b = Head(recency) /\ ~PagedIn(b)
         /\ \A p \in 0..PoolSize - buffers[b].size : \E c \in Live :
              PagedIn(c) /\ Off(c) < p + buffers[b].size /\ p < End(c)

(* With a log as the driver writes it, a buffer in use is in the pool, and *)
(* so compaction never compares an offset that is None.                    *)
InUseInPool ==
  /\ \A b \in Live : buffers[b].in_use => PagedIn(b)
  /\ raised # "TypeError"

-----------------------------------------------------------------------------
(* What a step may do *)

(* A buffer that is in use or unmoveable leaves the pool only when it is   *)
(* destroyed: neither purging nor paging out takes it (README: "can not be *)
(* moved or paged out").                                                   *)
PinnedStay ==
  [][\A b \in Live \cap DOMAIN buffers' :
       Pinned(b) /\ PagedIn(b) => buffers'[b].offset # None]_vars

(* No step moves a buffer that is in use before and after it (README: "in- *)
(* use by an in-flight command buffer and can't be moved").                *)
InUseStill ==
  [][\A b \in Live \cap DOMAIN buffers' :
       buffers[b].in_use /\ buffers'[b].in_use /\ PagedIn(b)
       => buffers'[b].offset = Off(b)]_vars

(* An unmoveable buffer keeps its place for as long as it exists (README:  *)
(* "can not be moved or paged out of the pool").                           *)
UnmoveableStill ==
  [][\A b \in Live \cap DOMAIN buffers' :
       buffers[b].unmoveable /\ PagedIn(b) => buffers'[b].offset = Off(b)]_vars

(* With compaction, a buffer that loses its last usecnt ends up against    *)
(* its lower neighbour or the start of the pool (README: "if so it will    *)
(* move the buffer to fit snugly next to its lower neighbour").            *)
CompactsSnugly ==
  [][\A b \in Live \cap DOMAIN buffers' :
       /\ buffers[b].in_use /\ ~buffers'[b].in_use /\ PagedIn(b)
       => \/ buffers'[b].offset = 0
          \/ \E c \in Live \ {b} : PagedIn(c) /\ End(c) = buffers'[b].offset]_vars

(* Whenever a buffer is paged out for want of room, every buffer that      *)
(* could have gone and was used longer ago has gone before.                *)
EvictsLru ==
  [][pc = "retry" =>
       \A v, w \in Live \cap DOMAIN buffers' :
         /\ PagedIn(v) /\ buffers'[v].offset = None
         /\ PagedIn(w) /\ ~Pinned(w) /\ w # v
         => Before(recency, w, v)]_vars

(* Every command ends, by itself or by the exception that ends the         *)
(* program: the loops of page-in do not run for ever.                      *)
CommandEnds == pc # "idle" ~> pc = "idle"

-----------------------------------------------------------------------------
(* The pool as BufferPool sees it: cur waits for a place from the first    *)
(* attempt on, and others may have to go once that has failed.             *)
Abstract == INSTANCE BufferPool WITH
  Alignment <- 1,
  bufs <- [b \in Live |-> [size |-> buffers[b].size, start |-> buffers[b].offset,
                           in_use |-> buffers[b].in_use,
                           unmoveable |-> buffers[b].unmoveable]],
  wanted <- IF pc \in {"first", "purge", "retry"} THEN cur ELSE None,
  crowded <- pc \in {"purge", "retry"}

(* Whatever the log, the loops of page-in and the walk of compaction keep  *)
(* what BufferPool promises.                                               *)
ImplementsBufferPool == Abstract!Spec
=============================================================================
