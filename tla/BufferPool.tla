----------------------------- MODULE BufferPool -----------------------------
(***************************************************************************)
(* What a pool of buffers promises the simulation, whichever way it looks  *)
(* for room: a buffer is placed in free space only, others make room for   *)
(* it only when there was none, none that is pinned ever does, and it is   *)
(* refused only if the pinned ones alone leave no room.                    *)
(***************************************************************************)
EXTENDS Integers

CONSTANTS
  BufId, Sizes,
  PoolSize,
  Alignment,  \* of the place of every buffer
  Compact,    \* may a buffer move down when it is no longer in use?
  None

VARIABLES
  bufs,     \* buffer -> its size, place, and what pins it
  wanted,   \* the buffer that waits for a place, or None
  crowded   \* there was none without paging out others

vars == <<bufs, wanted, crowded>>

Live == DOMAIN bufs
Placed == {b \in Live : bufs[b].start # None}
Pinned(b) == bufs[b].in_use \/ bufs[b].unmoveable

(* Size units at p that no buffer of a set has a part of. *)
Free(p, size, others) ==
  /\ p \in Nat /\ p % Alignment = 0 /\ p + size <= PoolSize
  /\ \A c \in others : \/ bufs[c].start + bufs[c].size <= p
                       \/ p + size <= bufs[c].start

HasRoom(b, others) == \E p \in 0..PoolSize : Free(p, bufs[b].size, others)

Init == bufs = [b \in {} |-> None] /\ wanted = None /\ crowded = FALSE

Create(b, size, unmoveable) ==
  /\ wanted = None /\ b \notin Live
  /\ bufs' = [c \in Live \cup {b} |->
                IF c = b THEN [size |-> size, start |-> None, in_use |-> FALSE,
                               unmoveable |-> unmoveable]
                         ELSE bufs[c]]
  /\ wanted' = b
  /\ UNCHANGED crowded

Destroy(b) ==
  /\ wanted = None /\ b \in Live
  /\ bufs' = [c \in Live \ {b} |-> bufs[c]]
  /\ UNCHANGED <<wanted, crowded>>

Use(b) ==
  /\ wanted = None /\ b \in Live \ Placed
  /\ wanted' = b
  /\ UNCHANGED <<bufs, crowded>>

AddUsecnt(b) ==
  /\ wanted = None /\ b \in Live
  /\ bufs' = [bufs EXCEPT ![b].in_use = TRUE]
  /\ UNCHANGED <<wanted, crowded>>

RemoveUsecnt(b) ==
  /\ wanted = None /\ b \in Live
  /\ bufs' = [bufs EXCEPT ![b].in_use = FALSE]
  /\ UNCHANGED <<wanted, crowded>>

(* The same, and the buffer moves down into free space. *)
RemoveUsecntAndMove(b, p) ==
  /\ Compact
  /\ wanted = None /\ b \in Placed
  /\ p < bufs[b].start /\ Free(p, bufs[b].size, Placed \ {b})
  /\ bufs' = [bufs EXCEPT ![b].in_use = FALSE, ![b].start = p]
  /\ UNCHANGED <<wanted, crowded>>

Crowd ==
  /\ wanted # None /\ ~HasRoom(wanted, Placed)
  /\ crowded' = TRUE
  /\ UNCHANGED <<bufs, wanted>>

PageOut(v) ==
  /\ crowded /\ v \in Placed /\ ~Pinned(v)
  /\ bufs' = [bufs EXCEPT ![v].start = None]
  /\ UNCHANGED <<wanted, crowded>>

Place(p) ==
  /\ wanted # None /\ Free(p, bufs[wanted].size, Placed)
  /\ bufs' = [bufs EXCEPT ![wanted].start = p]
  /\ wanted' = None /\ crowded' = FALSE

GiveUp ==
  /\ crowded /\ ~HasRoom(wanted, {b \in Placed : Pinned(b)})
  /\ wanted' = None /\ crowded' = FALSE
  /\ UNCHANGED bufs

Next ==
  \/ \E b \in BufId :
       \/ \E size \in Sizes, unmoveable \in BOOLEAN : Create(b, size, unmoveable)
       \/ Destroy(b) \/ Use(b) \/ AddUsecnt(b) \/ RemoveUsecnt(b) \/ PageOut(b)
       \/ \E p \in 0..PoolSize : RemoveUsecntAndMove(b, p)
  \/ Crowd \/ GiveUp
  \/ \E p \in 0..PoolSize : Place(p)

Spec == Init /\ [][Next]_vars
=============================================================================
