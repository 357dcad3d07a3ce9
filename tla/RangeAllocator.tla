--------------------------- MODULE RangeAllocator ---------------------------
(***************************************************************************)
(* What drm_mm promises its callers.  A node gets a free block of the      *)
(* range.  A caller in need of room offers nodes one by one: as long as    *)
(* they open no place for its request they gain it nothing, and once they  *)
(* do it is promised one; what lies in the way, and no other node, is      *)
(* evicted, and then the request is met.  How the blocks are found, and    *)
(* which of several, is left open.                                         *)
(***************************************************************************)
EXTENDS Integers

CONSTANTS
  Node,
  PoolSize,
  Sizes, Alignments, Ranges

VARIABLES
  blocks,   \* node -> the start and the size of its block
  stage,    \* idle, asked or promised
  request,  \* what the caller asks for
  offered,  \* the nodes it has offered so far
  promise   \* the place promised

vars == <<blocks, stage, request, offered, promise>>

Request == [size : Sizes, alignment : Alignments, range : Ranges]
NoRequest == [size |-> 0, alignment |-> 0, range |-> <<0, 0>>]

Taken == DOMAIN blocks

(* size units at p are inside the range, and no node of a set has any.     *)
Free(p, size, nodes) ==
  /\ 0 <= p /\ p + size <= PoolSize
  /\ \A n \in nodes : \/ blocks[n].start + blocks[n].size <= p
                      \/ p + size <= blocks[n].start

(* They are what was asked for. *)
Fits(p, nodes) ==
  /\ Free(p, request.size, nodes)
  /\ request.range[1] <= p /\ p + request.size <= request.range[2]
  /\ request.alignment > 1 => p % request.alignment = 0

Init ==
  /\ blocks = [n \in {} |-> 0]
  /\ stage = "idle" /\ request = NoRequest /\ offered = {} /\ promise = 0

Give(n, p, size) ==
  blocks' = [m \in Taken \cup {n} |->
               IF m = n THEN [start |-> p, size |-> size] ELSE blocks[m]]

Take(n) == blocks' = [m \in Taken \ {n} |-> blocks[m]]

Allocate(n, p, size) ==
  /\ stage = "idle" /\ n \notin Taken /\ Free(p, size, Taken)
  /\ Give(n, p, size)
  /\ UNCHANGED <<stage, request, offered, promise>>

Release(n) ==
  /\ stage = "idle" /\ n \in Taken
  /\ Take(n)
  /\ UNCHANGED <<stage, request, offered, promise>>

Replace(old, new) ==
  /\ stage = "idle" /\ old \in Taken /\ new \notin Taken
  /\ blocks' = [m \in (Taken \ {old}) \cup {new} |-> blocks[IF m = new THEN old ELSE m]]
  /\ UNCHANGED <<stage, request, offered, promise>>

Ask(r) ==
  /\ stage = "idle"
  /\ stage' = "asked" /\ request' = r
  /\ UNCHANGED <<blocks, offered, promise>>

(* Without them there would be no place that there is not anyway. *)
NothingGained(nodes) ==
  \A p \in 0..PoolSize : Fits(p, Taken \ nodes) => Fits(p, Taken)

Offer(n) ==
  /\ stage = "asked" /\ n \in Taken \ offered
  /\ NothingGained(offered \cup {n})
  /\ offered' = offered \cup {n}
  /\ UNCHANGED <<blocks, stage, request, promise>>

Promise(n, p) ==
  /\ stage = "asked" /\ n \in Taken \ offered
  /\ Fits(p, Taken \ (offered \cup {n}))
  /\ stage' = "promised" /\ promise' = p /\ offered' = {}
  /\ UNCHANGED <<blocks, request>>

Withdraw ==
  /\ stage = "asked"
  /\ stage' = "idle" /\ request' = NoRequest /\ offered' = {}
  /\ UNCHANGED <<blocks, promise>>

Evict(n) ==
  /\ stage = "promised" /\ n \in Taken /\ ~Free(promise, request.size, {n})
  /\ Take(n)
  /\ UNCHANGED <<stage, request, offered, promise>>

Meet(n, p) ==
  /\ stage = "promised" /\ n \notin Taken
  /\ Fits(promise, Taken) /\ Fits(p, Taken)
  /\ Give(n, p, request.size)
  /\ stage' = "idle" /\ request' = NoRequest /\ promise' = 0
  /\ UNCHANGED offered

Next ==
  \/ \E n \in Node :
       \/ Release(n) \/ Offer(n) \/ Evict(n)
       \/ \E p \in 0..PoolSize :
            Promise(n, p) \/ Meet(n, p) \/ \E size \in Sizes : Allocate(n, p, size)
  \/ \E old, new \in Node : Replace(old, new)
  \/ \E r \in Request : Ask(r)
  \/ Withdraw

Spec == Init /\ [][Next]_vars
=============================================================================
