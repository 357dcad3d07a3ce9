------------------------------- MODULE DrmMm -------------------------------
(***************************************************************************)
(* The range allocator of test-drm-mm/drm_mm.c: its state, and its         *)
(* functions as action operators a caller combines with its own steps.     *)
(*                                                                         *)
(* Allocated nodes are linked in address order through node_list, whose    *)
(* head is the head_node of the drm_mm; each hole is kept by the node in   *)
(* front of it, in a stack and in two trees.  A tree is the sequence of    *)
(* its in-order walk: what the searches of the allocator return depends on *)
(* a tree's shape only in find_hole (see below).  color_adjust is NULL,    *)
(* as drm_mm_init leaves it.                                               *)
(*                                                                         *)
(* A node that is not allocated has its fields reset.  In C they are       *)
(* stale; the functions set every one of them before they read it.         *)
(*                                                                         *)
(* An operator headed "Mistaken" is a plausible error in the definition    *)
(* that follows it, put in its place to see that a property notices.       *)
(***************************************************************************)
EXTENDS HoleOrder

CONSTANTS
  Node,      \* the nodes callers may insert
  HeadNode,  \* mm->head_node
  PoolSize,  \* the size given to drm_mm_init; the range starts at 0
  U64Max     \* the largest u64

ASSUME DrmMmConstants ==
  /\ HeadNode \notin Node
  /\ PoolSize \in Nat \ {0}
  /\ U64Max \in Nat /\ PoolSize <= U64Max

VARIABLES
  next, prev,   \* node_list
  start, size,  \* of an allocated node; head_node has PoolSize, -PoolSize
  allocated,    \* the nodes with allocated set
  hole_size,    \* size of the hole behind a node, 0 if there is none
  hole_stack,   \* the nodes in front of a hole, last one made first
  holes_size,   \* the same, largest hole first
  holes_addr,   \* the same, lowest address first
  scan,         \* struct drm_mm_scan
  scanned       \* the nodes with scanned_block set

listVars == <<next, prev>>
nodeVars == <<start, size, allocated>>
holeVars == <<hole_size, hole_stack, holes_size, holes_addr>>
scanVars == <<scan, scanned>>
mmVars == <<next, prev, start, size, allocated, hole_size, hole_stack,
            holes_size, holes_addr, scan, scanned>>

Link == Node \cup {HeadNode}

NoScan == [size |-> 0, alignment |-> 0, range_start |-> 0, range_end |-> 0,
           mode |-> "BEST", hit_start |-> U64Max, hit_end |-> 0]

(* drm_mm_init *)
DrmMmInit ==
  /\ next = [n \in Link |-> n]
  /\ prev = [n \in Link |-> n]
  /\ start = [n \in Link |-> IF n = HeadNode THEN PoolSize ELSE 0]
  /\ size = [n \in Link |-> IF n = HeadNode THEN -PoolSize ELSE 0]
  /\ allocated = {}
  /\ hole_size = [n \in Link |-> IF n = HeadNode THEN PoolSize ELSE 0]
  /\ hole_stack = <<HeadNode>>
  /\ holes_size = <<HeadNode>>
  /\ holes_addr = <<HeadNode>>
  /\ scan = NoScan
  /\ scanned = {}

NodeEnd(n) == start[n] + size[n]
HoleStart(h) == NodeEnd(h)
HoleEnd(h) == start[next[h]]

-----------------------------------------------------------------------------
(* Holes *)

(* add_hole and rm_hole on hole_stack, and rm_hole on either tree.         *)
(* Mistaken: list_add_tail for list_add.                                   *)
PushAtTheEnd(s, h) == Append(s, h)

PushHole(s, h) == ListPrepend(s, h)
RmHole(s, h) == IF hole_size[h] > 0 THEN ListRemove(s, h) ELSE s

(* Mistaken: the largest hole that is large enough. *)
LargestHole(x) == 1

(* Where best_hole ends: the tree is descending, so at the last hole of at *)
(* least the size wanted.  The caller has checked that there is one.       *)
BestHole(x) == Max({k \in 1..Len(holes_size) : hole_size[holes_size[k]] >= x})

(* find_hole returns the hole that has addr inside or at one of its ends;  *)
(* if there is none, the last node the search visited, which is one of the *)
(* two neighbours of addr, whichever is lower down in the tree.            *)
FindHole(addr) ==
  LET hole(k) == holes_addr[k]
      ends(k) == HoleStart(hole(k)) + hole_size[hole(k)]
      all == 1..Len(holes_addr)
      around == {k \in all : HoleStart(hole(k)) <= addr /\ addr <= ends(k)}
      below == {k \in all : ends(k) < addr}
      above == {k \in all : addr < HoleStart(hole(k))}
  IN  IF around # {} THEN around
      ELSE (IF below = {} THEN {} ELSE {Max(below)})
             \cup (IF above = {} THEN {} ELSE {Min(above)})

(* The holes a search visits, in order: first_hole, then next_hole until   *)
(* it returns NULL.  A set, for the choice find_hole has.                  *)
HoleWalks(x, range_start, range_end, mode) ==
  CASE mode = "BEST"  -> {Reverse(SubSeq(holes_size, 1, BestHole(x)))}
    [] mode = "LOW"   -> {SubSeq(holes_addr, k, Len(holes_addr)) :
                            k \in FindHole(range_start)}
    [] mode = "HIGH"  -> {Reverse(SubSeq(holes_addr, 1, k)) :
                            k \in FindHole(range_end)}
    [] mode = "EVICT" -> {hole_stack}

(* Where a block of size x goes in the free range lo..hi, if it fits: at   *)
(* the low end or, for HIGH, the high end, moved inwards to the alignment. *)
Aligned(lo, hi, x, alignment, mode) ==
  LET base == IF mode = "HIGH" THEN hi - x ELSE lo
      rem == IF alignment <= 1 THEN 0 ELSE base % alignment
      pos == IF rem = 0 THEN base
             ELSE base - rem + (IF mode = "HIGH" THEN 0 ELSE alignment)
  IN  {p \in {pos} : hi - lo >= x /\ p >= lo /\ hi - p >= x}

Larger(a, b) == IF a > b THEN a ELSE b
Smaller(a, b) == IF a < b THEN a ELSE b

PlaceInHole(h, x, alignment, range_start, range_end, mode) ==
  Aligned(Larger(HoleStart(h), range_start),
          Smaller(HoleStart(h) + hole_size[h], range_end), x, alignment, mode)

-----------------------------------------------------------------------------
(* Inserting and removing nodes *)

(* The result of the search: a hole and a place in it, or <<>> for ENOSPC. *)
(* once is DRM_MM_INSERT_ONCE.                                             *)
SearchResults(x, alignment, range_start, range_end, mode, once) ==
  IF \/ x = 0 \/ range_end - range_start < x
     \/ holes_size = <<>> \/ hole_size[holes_size[1]] < x
  THEN {<<>>}
  ELSE LET place(h) == PlaceInHole(h, x, alignment, range_start, range_end, mode)
           result(w) ==
             LET good == {k \in 1..(IF once THEN Smaller(1, Len(w)) ELSE Len(w)) :
                            place(w[k]) # {}}
             IN  IF good = {} THEN <<>>
                 ELSE LET h == w[Min(good)] IN <<h, CHOOSE p \in place(h) : TRUE>>
       IN  {result(w) : w \in HoleWalks(x, range_start, range_end, mode)}

(* Node n of size x is linked in behind h, at p; the hole behind h is      *)
(* replaced by what is left of it in front of n and behind it.             *)
Occupy(h, n, p, x) ==
  LET front == p - HoleStart(h)
      back == HoleStart(h) + hole_size[h] - (p + x)
      sizes == [hole_size EXCEPT ![h] = front, ![n] = back]
      starts == [k \in Link |-> IF k = n THEN p + x ELSE HoleStart(k)]
      left(s, Add(_, _)) ==
        LET first == IF front > 0 THEN Add(s, h) ELSE s
        IN  IF back > 0 THEN Add(first, n) ELSE first
  IN  /\ next' = [next EXCEPT ![h] = n, ![n] = next[h]]
      /\ prev' = [k \in Link |-> IF k = n THEN h
                                 ELSE IF k = next[h] THEN n ELSE prev[k]]
      /\ start' = [start EXCEPT ![n] = p]
      /\ size' = [size EXCEPT ![n] = x]
      /\ allocated' = allocated \cup {n}
      /\ hole_size' = sizes
      /\ hole_stack' = left(ListRemove(hole_stack, h), PushHole)
      /\ holes_size' = left(ListRemove(holes_size, h),
                            LAMBDA s, m : InsertBySize(s, m, sizes))
      /\ holes_addr' = left(ListRemove(holes_addr, h),
                            LAMBDA s, m : InsertByAddr(s, m, starts))
      /\ UNCHANGED scanVars

(* drm_mm_insert_node_in_range, when it succeeds and when it does not.     *)
InsertNode(n, x, alignment, range_start, range_end, mode, once) ==
  \E r \in SearchResults(x, alignment, range_start, range_end, mode, once) :
    r # <<>> /\ Occupy(r[1], n, r[2], x)

InsertFails(x, alignment, range_start, range_end, mode, once) ==
  <<>> \in SearchResults(x, alignment, range_start, range_end, mode, once)

(* drm_mm_reserve_node: end is a u64 and wraps. *)
ReserveEnd(p, x) == (p + x) % (U64Max + 1)

(* Mistaken: no hole of just the size will do; the end is not looked at.   *)
ReserveLargerHoles(p, x) ==
  {h \in {holes_addr[k] : k \in FindHole(p)} :
     HoleStart(h) <= p /\ ReserveEnd(p, x) < HoleStart(h) + hole_size[h]}
ReserveAnyHole(p, x) ==
  {h \in {holes_addr[k] : k \in FindHole(p)} : HoleStart(h) <= p}

ReserveHoles(p, x) ==
  {h \in {holes_addr[k] : k \in FindHole(p)} :
     /\ HoleStart(h) <= p
     /\ ReserveEnd(p, x) <= HoleStart(h) + hole_size[h]}

ReserveNode(n, p, x) ==
  /\ ReserveEnd(p, x) > p
  /\ \E h \in ReserveHoles(p, x) : Occupy(h, n, p, x)

ReserveFails(p, x) == ReserveEnd(p, x) <= p \/ ReserveHoles(p, x) = {}

(* drm_mm_remove_node: its space and the holes on both sides become one    *)
(* hole behind the node in front.                                          *)
RemoveNode(n) ==
  LET p == prev[n]
      sizes == [hole_size EXCEPT ![n] = 0, ![p] = start[next[n]] - HoleStart(p)]
      starts == [k \in Link |-> HoleStart(k)]
      without(s) == RmHole(RmHole(s, n), p)
  IN  /\ next' = [next EXCEPT ![p] = next[n], ![n] = n]
      /\ prev' = [k \in Link |-> IF k = n THEN n
                                 ELSE IF k = next[n] THEN p ELSE prev[k]]
      /\ start' = [start EXCEPT ![n] = 0]
      /\ size' = [size EXCEPT ![n] = 0]
      /\ allocated' = allocated \ {n}
      /\ hole_size' = sizes
      /\ hole_stack' = PushHole(without(hole_stack), p)
      /\ holes_size' = InsertBySize(without(holes_size), p, sizes)
      /\ holes_addr' = InsertByAddr(without(holes_addr), p, starts)
      /\ UNCHANGED scanVars

(* drm_mm_replace_node: new takes the place of old everywhere. *)
ReplaceNode(old, new) ==
  LET is(k) == IF k = old THEN new ELSE k
      moved(f, unlinked) == [k \in Link |-> IF k = old THEN unlinked
                                            ELSE IF k = new THEN f[old] ELSE f[k]]
  IN  /\ next' = [k \in Link |-> IF k = old THEN old
                                 ELSE IF k = new THEN next[old] ELSE is(next[k])]
      /\ prev' = [k \in Link |-> IF k = old THEN old
                                 ELSE IF k = new THEN prev[old] ELSE is(prev[k])]
      /\ start' = moved(start, 0)
      /\ size' = moved(size, 0)
      /\ allocated' = (allocated \ {old}) \cup {new}
      /\ hole_size' = moved(hole_size, 0)
      /\ hole_stack' = ListReplace(hole_stack, old, new)
      /\ holes_size' = ListReplace(holes_size, old, new)
      /\ holes_addr' = ListReplace(holes_addr, old, new)
      /\ UNCHANGED scanVars

-----------------------------------------------------------------------------
(* Scanning *)

(* drm_mm_scan_init_with_range *)
ScanInit(x, alignment, range_start, range_end, mode) ==
  /\ scan' = [size |-> x, alignment |-> alignment, range_start |-> range_start,
              range_end |-> range_end, mode |-> mode,
              hit_start |-> U64Max, hit_end |-> 0]
  /\ UNCHANGED <<listVars, nodeVars, holeVars, scanned>>

(* Mistaken: the end of the block itself, not of the one behind it.        *)
ScanHitInFront(n) ==
  Aligned(Larger(NodeEnd(prev[n]), scan.range_start),
          Smaller(NodeEnd(n), scan.range_end),
          scan.size, scan.alignment, scan.mode)

(* Where the block the scan is for goes once n is out of the list: the     *)
(* result of drm_mm_scan_add_block is that there is such a place.          *)
ScanHit(n) ==
  Aligned(Larger(NodeEnd(prev[n]), scan.range_start),
          Smaller(start[next[n]], scan.range_end),
          scan.size, scan.alignment, scan.mode)

(* drm_mm_scan_add_block: n leaves the list but keeps its own links. *)
ScanAddBlock(n) ==
  /\ scanned' = scanned \cup {n}
  /\ next' = [next EXCEPT ![prev[n]] = next[n]]
  /\ prev' = [prev EXCEPT ![next[n]] = prev[n]]
  /\ scan' = IF ScanHit(n) = {} THEN scan
             ELSE LET p == CHOOSE p \in ScanHit(n) : TRUE
                  IN  [scan EXCEPT !.hit_start = p, !.hit_end = p + scan.size]
  /\ UNCHANGED <<nodeVars, holeVars>>

(* Mistaken: the link back to n is missing. *)
ScanRemoveForward(n) ==
  /\ scanned' = scanned \ {n}
  /\ next' = [next EXCEPT ![n] = next[prev[n]], ![prev[n]] = n]
  /\ UNCHANGED <<prev, scan, nodeVars, holeVars>>

(* drm_mm_scan_remove_block: n goes back behind the node it remembers. *)
ScanRemoveBlock(n) ==
  /\ scanned' = scanned \ {n}
  /\ next' = [next EXCEPT ![n] = next[prev[n]], ![prev[n]] = n]
  /\ prev' = [prev EXCEPT ![next[prev[n]]] = n]
  /\ UNCHANGED <<scan, nodeVars, holeVars>>

(* Mistaken: blocks the place only touches, too; none that reach beyond it. *)
ScanSelectsTouching(n) == NodeEnd(n) >= scan.hit_start /\ start[n] < scan.hit_end
ScanSelectsInside(n) == NodeEnd(n) > scan.hit_start /\ NodeEnd(n) <= scan.hit_end

(* Its result: is n to be evicted? *)
ScanSelects(n) == NodeEnd(n) > scan.hit_start /\ start[n] < scan.hit_end

(* What the assertions and comments of these functions demand of callers.  *)
MayInsert(n) == n \notin allocated /\ scanned = {}
MayRemove(n) == n \in allocated /\ n \notin scanned
(* Mistaken: no block may fill the whole range. *)
MayScanSmaller(x, range_start, range_end) ==
  range_start < range_end /\ 0 < x /\ x < range_end - range_start /\ scanned = {}

MayScan(x, range_start, range_end) ==
  range_start < range_end /\ 0 < x /\ x <= range_end - range_start /\ scanned = {}
MayScanAdd(n) == n \in allocated \ scanned /\ next[prev[n]] = n
MayScanRemove(n) == n \in scanned /\ next[prev[n]] = next[n]

-----------------------------------------------------------------------------
(* What holds of the allocator between any two calls *)

Linked == (allocated \ scanned) \cup {HeadNode}

(* No two allocated nodes overlap and none leaves the range, whatever the  *)
(* mode, range and alignment they were inserted with, and in a scan too.   *)
NoOverlap ==
  /\ \A n \in allocated : size[n] > 0 /\ start[n] >= 0 /\ NodeEnd(n) <= PoolSize
  /\ \A m, n \in allocated : m # n => NodeEnd(m) <= start[n] \/ NodeEnd(n) <= start[m]

(* node_list is in address order: the node behind h is the nearest one     *)
(* above it that no scan has taken out, and prev goes the same way back.   *)
ListInOrder ==
  \A h \in Linked :
    /\ next[h] \in Linked /\ prev[next[h]] = h
    /\ HoleStart(h) <= HoleEnd(h)
    /\ \A m \in Linked \ {HeadNode} : start[m] < HoleStart(h) \/ HoleEnd(h) <= start[m]

(* The keys of the trees have not changed under them: each is still in the *)
(* order its searches go by.                                               *)
TreesSorted ==
  \A j, k \in 1..Len(holes_size) : j < k =>
    /\ hole_size[holes_size[j]] >= hole_size[holes_size[k]]
    /\ HoleStart(holes_addr[j]) < HoleStart(holes_addr[k])

(* While no scan is on, the cached hole_size of each node is the distance  *)
(* to the next one, and stack and trees hold exactly the nodes in front of *)
(* a hole, each once, the trees in their order.                            *)
HolesExact ==
  /\ scanned = {} =>
       \A h \in Link : hole_size[h] = IF h \in Linked THEN HoleEnd(h) - HoleStart(h) ELSE 0
  /\ \A s \in {hole_stack, holes_size, holes_addr} :
       IsInjective(s) /\ ToSet(s) = {h \in Link : hole_size[h] > 0}
  /\ TreesSorted

(* The places for a block between the given nodes, found by trying every   *)
(* address: what the searches are compared with.                           *)
Places(nodes, x, alignment, range_start, range_end) ==
  {p \in 0..PoolSize - x :
     /\ alignment > 1 => p % alignment = 0
     /\ range_start <= p /\ p + x <= range_end
     /\ \A n \in nodes : NodeEnd(n) <= p \/ p + x <= start[n]}
=============================================================================
