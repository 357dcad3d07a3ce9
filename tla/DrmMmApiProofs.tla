-------------------------- MODULE DrmMmApiProofs --------------------------
(***************************************************************************)
(* For every set of nodes, size of the range and width of a u64, and       *)
(* whatever sizes, alignments and ranges its callers ask for: the nodes    *)
(* drm_mm has handed out do not overlap, its list is in the order of the   *)
(* range, and the holes it caches in three structures are those there are; *)
(* its searches find what there is; and a scan finds what to evict, so that*)
(* it is a RangeAllocator.                                                 *)
(*                                                                         *)
(* The invariants are not inductive.  A scan takes nodes out of the list   *)
(* and relies on the links they keep to put them back, so that the list is *)
(* right at its end only if it was at its start: InScan has all the lists  *)
(* there were in between.  What a scan promises rests on what it has seen  *)
(* before: Progress says what is known of it in each phase.                *)
(***************************************************************************)
EXTENDS DrmMmApi, DrmMmProofs

Phases == {"idle", "scan", "unwind", "evict", "insert", "done"}

ApiInv ==
  /\ InScan(roster)
  /\ phase \in Phases
  /\ phase \notin {"scan", "unwind"} => roster = <<>>
  /\ ScanType

(* The allocator starts settled.                                           *)
LEMMA InitApiInv ==
  ASSUME Init
  PROVE  ApiInv
<1>1. Quiet /\ scanned = {}
  BY InitIsQuiet DEF Init
<1>2. InScan(<<>>)
  BY <1>1, SettledIsScan DEF Quiet, InScan
<1>3. scan = NoScan /\ phase = "idle" /\ roster = <<>>
  BY DEF Init, DrmMmInit
<1>4. ScanType
  <2>1. U64Max \in Int
    BY DrmMmConstants
  <2> QED BY <1>3, <2>1 DEF ScanType, NoScan, SearchModes
<1> QED BY <1>2, <1>3, <1>4 DEF ApiInv, Phases

(* Where no scan is on, an operation leaves the allocator settled.         *)
LEMMA StaysQuiet ==
  ASSUME QuietNext, scanned' = {}
  PROVE  InScanNext(<<>>)
BY SettledIsScan DEF QuietNext, InScanNext

(* With nothing on the roster, no scan is under way.                       *)
LEMMA IdleIsQuiet ==
  ASSUME ApiInv, roster = <<>>
  PROVE  Quiet /\ scanned = {}
BY RosterEmpty DEF ApiInv

(* Every call preserves the invariant.                                     *)
LEMMA NextApiInv ==
  ASSUME ApiInv, [Next]_vars
  PROVE  ApiInv'
<1>1. /\ InScan(roster) /\ phase \in Phases /\ ScanType
      /\ phase \notin {"scan", "unwind"} => roster = <<>>
  BY DEF ApiInv
<1>2. ASSUME QuietNext, scanned' = {}, roster' = <<>>, phase' \in Phases, ScanType'
      PROVE  ApiInv'
  BY <1>2, StaysQuiet DEF ApiInv, InScan, InScanNext
<1>3. phase \in {"idle", "evict", "insert", "done"} => Quiet /\ scanned = {} /\ roster = <<>>
  BY <1>1, IdleIsQuiet
<1>4. ASSUME NEW n \in Node, Insert(n) PROVE ApiInv'
  <2>1. PICK x \in Sizes, a \in Alignments, r \in Ranges, m \in Modes, once \in BOOLEAN :
          InsertNode(n, x, a, r[1], r[2], m, once)
    BY <1>4 DEF Insert
  <2>2. x \in Nat /\ a \in Nat /\ r[1] \in Int /\ r[2] \in Int
    BY DrmMmApiConstants, DrmMmConstants
  <2>3. phase = "idle" /\ MayInsert(n) /\ UNCHANGED apiVars
    BY <1>4 DEF Insert
  <2>4. QuietNext /\ scanned' = {} /\ scan' = scan
    BY <1>3, <2>1, <2>2, <2>3, InsertKeeps DEF Modes, SearchModes
  <2> QED BY <1>1, <1>2, <1>3, <2>3, <2>4 DEF apiVars, ScanType
<1>5. ASSUME NEW n \in Node, Reserve(n) PROVE ApiInv'
  <2>1. PICK p \in 0..U64Max, x \in Sizes : ReserveNode(n, p, x)
    BY <1>5 DEF Reserve
  <2>2. x \in 1..U64Max /\ p \in Int /\ x \in Int /\ x > 0
    BY DrmMmApiConstants, DrmMmConstants
  <2>3. phase = "idle" /\ n \in Node \ allocated /\ UNCHANGED apiVars
    BY <1>5 DEF Reserve, MayInsert
  <2>4. PICK h \in ReserveHoles(p, x) : Occupy(h, n, p, x)
    BY <2>1 DEF ReserveNode
  <2>5. ReserveEnd(p, x) > p
    BY <2>1 DEF ReserveNode
  <2>6. /\ h \in Behind(hole_size)
        /\ start[h] + size[h] <= p /\ p + x <= start[h] + size[h] + hole_size[h]
    BY <1>3, <2>2, <2>3, <2>5, ReserveFindsRoom
  <2>7. QuietNext
    BY <1>3, <2>2, <2>3, <2>4, <2>6, OccupyKeeps
  <2>8. scanned' = scanned /\ scan' = scan
    BY <2>4 DEF Occupy, scanVars
  <2> QED BY <1>1, <1>2, <1>3, <2>3, <2>7, <2>8 DEF apiVars, ScanType
<1>6. ASSUME NEW n \in Node, Free(n) PROVE ApiInv'
  <2>1. phase = "idle" /\ n \in allocated /\ RemoveNode(n) /\ UNCHANGED apiVars
    BY <1>6 DEF Free, MayRemove
  <2>2. QuietNext
    BY <1>3, <2>1, RemoveKeeps
  <2>3. scanned' = scanned /\ scan' = scan
    BY <2>1 DEF RemoveNode, scanVars
  <2> QED BY <1>1, <1>2, <1>3, <2>1, <2>2, <2>3 DEF apiVars, ScanType
<1>7. ASSUME NEW old \in Node, NEW new \in Node, Replace(old, new) PROVE ApiInv'
  <2>1. /\ phase = "idle" /\ old \in allocated /\ new \in Node \ allocated
        /\ ReplaceNode(old, new) /\ UNCHANGED apiVars
    BY <1>7 DEF Replace, MayRemove, MayInsert
  <2>2. QuietNext
    BY <1>3, <2>1, ReplaceKeeps
  <2>3. scanned' = scanned /\ scan' = scan
    BY <2>1 DEF ReplaceNode, scanVars
  <2> QED BY <1>1, <1>2, <1>3, <2>1, <2>2, <2>3 DEF apiVars, ScanType
<1>8. CASE Scan
  <2>1. PICK x \in Sizes, a \in Alignments, r \in Ranges, m \in Modes :
          ScanInit(x, a, r[1], r[2], m)
    BY <1>8 DEF Scan
  <2>2. x \in Nat /\ a \in Nat /\ r[1] \in Int /\ r[2] \in Int /\ U64Max \in Int
    BY DrmMmApiConstants, DrmMmConstants
  <2>3. ScanType'
    BY <2>1, <2>2 DEF ScanInit, ScanType, Modes, SearchModes
  <2>4. InScanNext(roster) /\ roster' = roster /\ phase' = "scan"
    BY <1>1, <1>8, <2>1 DEF Scan, ScanInit, listVars, nodeVars, holeVars, InScan, InScanNext
  <2> QED BY <2>3, <2>4 DEF ApiInv, InScan, InScanNext, Phases
<1>9. ASSUME NEW n \in Node, AddBlock(n) PROVE ApiInv'
  <2>1. /\ phase = "scan" /\ n \in allocated \ scanned /\ ScanAddBlock(n)
        /\ roster' = ListPrepend(roster, n)
        /\ phase' \in {"scan", "unwind"}
    BY <1>9 DEF AddBlock, MayScanAdd
  <2>2. InScanNext(roster')
    BY <1>1, <2>1, ScanAddKeeps
  <2>3. ScanType'
    BY <1>1, <2>1, ScanAddFields
  <2> QED BY <2>1, <2>2, <2>3 DEF ApiInv, InScan, InScanNext, Phases
<1>10. CASE GiveUp
  <2>1. UNCHANGED <<mmVars, roster>> /\ phase' = "unwind"
    BY <1>10 DEF GiveUp
  <2> QED BY <1>1, <2>1 DEF ApiInv, InScan, ScanType, Phases, mmVars
<1>11. CASE RemoveBlock
  <2>1. /\ phase = "unwind" /\ roster # <<>> /\ ScanRemoveBlock(roster[1])
        /\ roster' = Tail(roster) /\ phase' = phase
    BY <1>11 DEF RemoveBlock
  <2>2. InScanNext(roster')
    BY <1>1, <2>1, ScanRemoveKeeps
  <2>3. scan' = scan
    BY <2>1 DEF ScanRemoveBlock
  <2> QED BY <1>1, <2>1, <2>2, <2>3 DEF ApiInv, InScan, InScanNext, ScanType
<1>12. CASE EndUnwind
  <2>1. UNCHANGED <<mmVars, roster>> /\ roster = <<>> /\ phase' \in Phases
    BY <1>12 DEF EndUnwind, Phases
  <2> QED BY <1>1, <2>1 DEF ApiInv, InScan, ScanType, mmVars
<1>13. ASSUME NEW n \in Node, Evict(n) PROVE ApiInv'
  <2>1. /\ phase = "evict" /\ n \in allocated /\ RemoveNode(n) /\ UNCHANGED roster
        /\ phase' \in Phases
    BY <1>1, <1>13 DEF Evict, MayRemove, Phases
  <2>2. QuietNext
    BY <1>3, <2>1, RemoveKeeps
  <2>3. scanned' = scanned /\ scan' = scan
    BY <2>1 DEF RemoveNode, scanVars
  <2> QED BY <1>1, <1>2, <1>3, <2>1, <2>2, <2>3 DEF ScanType
<1>14. ASSUME NEW n \in Node, InsertEvict(n) PROVE ApiInv'
  <2>1. /\ phase = "insert" /\ MayInsert(n) /\ phase' = "done" /\ UNCHANGED roster
        /\ InsertNode(n, scan.size, scan.alignment, scan.range_start, scan.range_end,
                      "EVICT", FALSE)
    BY <1>14 DEF InsertEvict
  <2>2. /\ scan.size \in Nat /\ scan.alignment \in Nat
        /\ scan.range_start \in Int /\ scan.range_end \in Int /\ "EVICT" \in SearchModes
    BY <1>1 DEF ScanType, SearchModes
  <2>3. QuietNext /\ scanned' = {} /\ scan' = scan
    BY <1>3, <2>1, <2>2, InsertKeeps
  <2> QED BY <1>1, <1>2, <1>3, <2>1, <2>3 DEF ScanType, Phases
<1>15. CASE EndScan
  <2>1. /\ phase = "done" /\ scan' = NoScan /\ phase' = "idle"
        /\ UNCHANGED <<listVars, nodeVars, holeVars, scanned, roster>>
    BY <1>15 DEF EndScan
  <2>2. ScanType'
    <3>1. U64Max \in Int
      BY DrmMmConstants
    <3> QED BY <2>1, <3>1 DEF ScanType, NoScan, SearchModes
  <2> QED BY <1>1, <2>1, <2>2 DEF ApiInv, InScan, Phases, listVars, nodeVars, holeVars
<1>16. CASE UNCHANGED vars
  BY <1>1, <1>16 DEF ApiInv, InScan, ScanType, vars, mmVars, apiVars
<1> QED BY <1>4, <1>5, <1>6, <1>7, <1>8, <1>9, <1>10, <1>11, <1>12, <1>13, <1>14, <1>15, <1>16
        DEF Next

-----------------------------------------------------------------------------

(* The inductive invariant: whatever legal callers do, the list is a ring  *)
(* in address order, stack and trees hold its gaps, and a scan can be      *)
(* undone.                                                                 *)
THEOREM ApiInvariant == Spec => []ApiInv
<1>1. Init => ApiInv
  BY InitApiInv
<1>2. ApiInv /\ [Next]_vars => ApiInv'
  BY NextApiInv
<1> QED BY <1>1, <1>2, PTL DEF Spec

(* No two nodes overlap and none leaves the range, whatever was asked for, *)
(* even where p + x wraps in drm_mm_reserve_node.                          *)
THEOREM NoOverlapCorrect == Spec => []NoOverlap
<1>1. ApiInv => NoOverlap
  BY ScanStateKeepsNoOverlap DEF ApiInv
<1> QED BY <1>1, ApiInvariant, PTL

(* node_list is in address order, and is so again after every scan.        *)
THEOREM ListInOrderCorrect == Spec => []ListInOrder
<1>1. ApiInv => ListInOrder
  BY ScanStateKeepsListInOrder DEF ApiInv
<1> QED BY <1>1, ApiInvariant, PTL

(* hole_stack, holes_size and holes_addr hold the holes there are, and no  *)
(* key of a tree changes under it.                                         *)
THEOREM HolesExactCorrect == Spec => []HolesExact
<1>1. ApiInv => HolesExact
  BY ScanStateKeepsHolesExact DEF ApiInv
<1> QED BY <1>1, ApiInvariant, PTL

(* drm_mm_reserve_node is refused only if part of the block is taken or    *)
(* outside the range, whichever hole find_hole comes out at.               *)
THEOREM ReserveIsRightCorrect == Spec => []ReserveIsRight
<1>1. ApiInv => ReserveIsRight
  <2> SUFFICES ASSUME ApiInv, phase = "idle", NEW p \in 0..U64Max, NEW x \in Sizes
               PROVE  ReserveFails(p, x) <=> p \notin Places(allocated, x, 0, 0, PoolSize)
    BY DEF ReserveIsRight
  <2>1. Quiet
    BY IdleIsQuiet DEF ApiInv
  <2>2. /\ x \in 1..U64Max /\ x \in Nat /\ p \in Int /\ PoolSize \in Int
    BY DrmMmConstants, DrmMmApiConstants
  <2>3. ReserveFails(p, x) <=> ~Apart(p, x, allocated, start, size)
    BY <2>1, <2>2, ReserveRefusesOnlyTaken
  <2>4. p \in Places(allocated, x, 0, 0, PoolSize) <=>
          p \in Int /\ Apart(p, x, allocated, start, size) /\ Asked(p, x, 0, 0, PoolSize)
    BY <2>2, PlacesAre
  <2>5. Apart(p, x, allocated, start, size) => Asked(p, x, 0, 0, PoolSize)
    BY DEF Apart, Asked
  <2> QED BY <2>2, <2>3, <2>4, <2>5
<1> QED BY <1>1, ApiInvariant, PTL

(* An insertion fails only if there is no place at all, LOW returns the    *)
(* lowest, HIGH the highest, and BEST one in a hole no larger than needed. *)
THEOREM SearchIsRightCorrect == Spec => []SearchIsRight
<1>1. ApiInv => SearchIsRight
  <2> SUFFICES ASSUME ApiInv, phase = "idle",
                      NEW x \in Sizes, NEW a \in Alignments, NEW r \in Ranges, NEW m \in Modes,
                      NEW res \in SearchResults(x, a, r[1], r[2], m, FALSE)
               PROVE  LET places == Places(allocated, x, a, r[1], r[2])
                      IN  IF places = {} THEN res = <<>>
                          ELSE /\ res # <<>> /\ res[2] \in places
                               /\ m = "LOW" => res[2] = Min(places)
                               /\ m = "HIGH" => res[2] = Max(places)
                               /\ m = "BEST" =>
                                    \A h \in Linked : hole_size[h] < hole_size[res[1]]
                                      => places \cap HoleStart(h)..HoleEnd(h) - x = {}
    BY DEF SearchIsRight
  <2> DEFINE places == Places(allocated, x, a, r[1], r[2])
             lo == r[1]
             hi == r[2]
  <2>1. Quiet /\ scanned = {}
    BY IdleIsQuiet DEF ApiInv
  <2>2. /\ x \in Nat /\ x \in Int /\ x > 0 /\ a \in Nat /\ lo \in Int /\ hi \in Int
        /\ m \in {"BEST", "LOW", "HIGH", "EVICT"} /\ FALSE \in BOOLEAN
    BY DrmMmConstants, DrmMmApiConstants DEF Modes
  <2>3. res \in SearchResults(x, a, lo, hi, m, FALSE)
    OBVIOUS
  <2>4. \A p : p \in places <=>
          p \in Int /\ Apart(p, x, allocated, start, size) /\ Asked(p, x, a, lo, hi)
    BY <2>2, PlacesAre
  <2> HIDE DEF lo, hi, places
  <2>5. res # <<>> => res[1] \in Behind(hole_size) /\ res[2] \in Int /\ res[2] \in places
    BY <2>1, <2>2, <2>3, <2>4, SearchIsSound
  <2>6. ASSUME NEW h \in Behind(hole_size), NEW p \in places,
               HoleStart(h) <= p, p + x <= HoleStop(h)
        PROVE  /\ res # <<>>
               /\ m = "LOW" => res[2] <= p
               /\ m = "HIGH" => p <= res[2]
               /\ m = "BEST" => hole_size[res[1]] <= hole_size[h]
    BY <2>1, <2>2, <2>3, <2>4, <2>6, SearchBeats
  <2>7. ASSUME NEW p \in places
        PROVE  res # <<>> /\ (m = "LOW" => res[2] <= p) /\ (m = "HIGH" => p <= res[2])
    <3>1. PICK h \in Behind(hole_size) : HoleStart(h) <= p /\ p + x <= HoleStop(h)
      BY <2>1, <2>2, <2>4, FreeBlockIsInHole DEF HoleStop
    <3> QED BY <2>6, <3>1
  <2>8. places = {} => res = <<>>
    BY <2>5
  <2>9. ASSUME places # {}
        PROVE  res # <<>> /\ res[2] \in places
    BY <2>5, <2>7, <2>9
  <2>10. \A p \in places : p \in Int
    BY <2>4
  <2>11. ASSUME places # {}, m = "LOW"
         PROVE  res[2] = Min(places)
    <3>1. res[2] \in places /\ \A p \in places : res[2] <= p
      BY <2>7, <2>9, <2>11
    <3>2. \A q \in places : (\A p \in places : q <= p) => q = res[2]
      BY <2>10, <3>1
    <3> QED BY <3>1, <3>2 DEF Min
  <2>12. ASSUME places # {}, m = "HIGH"
         PROVE  res[2] = Max(places)
    <3>1. res[2] \in places /\ \A p \in places : res[2] >= p
      BY <2>7, <2>9, <2>10, <2>12
    <3>2. \A q \in places : (\A p \in places : q >= p) => q = res[2]
      BY <2>10, <3>1
    <3> QED BY <3>1, <3>2 DEF Max
  <2>13. ASSUME places # {}, m = "BEST",
                NEW h \in Linked, hole_size[h] < hole_size[res[1]],
                NEW p \in places, p \in HoleStart(h)..HoleEnd(h) - x
         PROVE  FALSE
    <3>1. /\ h \in allocated \cup {HeadNode} /\ allocated \in SUBSET Node
          /\ Exact(hole_size, next, allocated, start, size) /\ Fields(start, size)
          /\ Ring(next, prev, allocated \cup {HeadNode}, start, size)
          /\ hole_size \in [Link -> Nat]
      BY <2>1 DEF Quiet, Settled, Linked, Trees
    <3>2. h \in Link /\ next[h] \in Link
      BY <3>1 DEF Link, Ring
    <3>3. start[h] \in Int /\ size[h] \in Int /\ start[next[h]] \in Int
          /\ hole_size[h] = start[next[h]] - (start[h] + size[h]) /\ hole_size[h] \in Int
      BY <3>1, <3>2 DEF Fields, Exact
    <3>4. HoleStart(h) = start[h] + size[h] /\ HoleEnd(h) = start[next[h]]
          /\ HoleStop(h) = start[h] + size[h] + hole_size[h]
      BY DEF HoleStart, HoleEnd, HoleStop, NodeEnd
    <3>5. p \in Int /\ start[h] + size[h] <= p /\ p <= start[next[h]] - x
      BY <2>2, <2>10, <2>13, <3>3, <3>4
    <3>6. HoleStart(h) <= p /\ p + x <= HoleStop(h) /\ hole_size[h] > 0
      BY <2>2, <3>3, <3>4, <3>5
    <3>7. h \in Behind(hole_size)
      BY <3>2, <3>6 DEF Behind
    <3>8. hole_size[res[1]] <= hole_size[h]
      BY <2>6, <2>13, <3>6, <3>7
    <3>9. res[1] \in Link
      BY <2>5, <2>9, <2>13 DEF Behind
    <3> QED BY <2>13, <3>1, <3>3, <3>8, <3>9
  <2> QED BY <2>8, <2>9, <2>11, <2>12, <2>13 DEF places
<1> QED BY <1>1, ApiInvariant, PTL

-----------------------------------------------------------------------------
(* What becomes of a scan                                                  *)

(* What the scan is for stays what the caller has asked for.               *)
RequestOK ==
  phase \in {"scan", "unwind", "evict", "insert"} =>
    /\ scan.size \in Sizes /\ scan.alignment \in Alignments
    /\ <<scan.range_start, scan.range_end>> \in Ranges
    /\ scan.size <= scan.range_end - scan.range_start

(* As long as it goes on, the nodes taken out leave no place that there is *)
(* not anyway.                                                             *)
NothingYet ==
  phase = "scan" =>
    /\ scan.hit_end = 0
    /\ \A p \in Int : /\ Wanted(p)
                      /\ Apart(p, scan.size, allocated \ scanned, start, size)
                      => Apart(p, scan.size, allocated, start, size)

(* Once it has found a place, what is in the way of that is still to be    *)
(* put back, or selected, and nothing else is selected.                    *)
HitOK ==
  phase \in {"unwind", "evict", "insert"} /\ Found =>
    /\ scan.hit_end = Hit + scan.size
    /\ Wanted(Hit)
    /\ Apart(Hit, scan.size, allocated \ (scanned \cup victims), start, size)
    /\ \A n \in victims : n \in allocated /\ ScanSelects(n)

Stages ==
  /\ phase \in {"evict", "insert"} => Found
  /\ phase \notin {"unwind", "evict"} => victims = {}
  /\ ~Found => victims = {}

Progress == RequestOK /\ NothingYet /\ HitOK /\ Stages
ScanInv == ApiInv /\ Progress

(* What a request is, as numbers.                                          *)
LEMMA RequestTypes ==
  ASSUME ApiInv, RequestOK, phase \in {"scan", "unwind", "evict", "insert"}
  PROVE  /\ Requested
         /\ scan.size \in Nat /\ scan.size > 0 /\ scan.size \in Int
         /\ scan.alignment \in Nat /\ scan.range_start \in Int /\ scan.range_end \in Int
         /\ scan.hit_start \in Int /\ scan.hit_end \in Int
<1>1. ScanType
  BY DEF ApiInv
<1>2. scan.size \in 1..U64Max /\ U64Max \in Nat
  BY DrmMmApiConstants, DrmMmConstants DEF RequestOK
<1> QED BY <1>1, <1>2 DEF Requested, ScanType

(* Before the first scan there is none to speak of.                        *)
LEMMA InitProgress ==
  ASSUME Init
  PROVE  Progress
BY DEF Init, Progress, RequestOK, NothingYet, HitOK, Stages

(* A new scan has taken nothing out.                                       *)
LEMMA ScanProgress ==
  ASSUME Stages, Scan
  PROVE  Progress'
<1>1. PICK x \in Sizes, a \in Alignments, r \in Ranges, m \in Modes :
        MayScan(x, r[1], r[2]) /\ ScanInit(x, a, r[1], r[2], m)
  BY DEF Scan
<1>2. r = <<r[1], r[2]>>
  BY DrmMmApiConstants
<1>3. /\ scan'.size = x /\ scan'.alignment = a
      /\ scan'.range_start = r[1] /\ scan'.range_end = r[2] /\ scan'.hit_end = 0
      /\ scanned' = {} /\ x <= r[2] - r[1]
  BY <1>1 DEF ScanInit, MayScan
<1>4. phase' = "scan" /\ victims' = {}
  BY DEF Scan, Stages
<1>5. RequestOK'
  BY <1>2, <1>3, <1>4 DEF RequestOK
<1>6. NothingYet'
  BY <1>3, <1>4 DEF NothingYet
<1> QED BY <1>4, <1>5, <1>6 DEF Progress, HitOK, Stages

(* Adding a node keeps on gaining nothing, or finds the place.             *)
LEMMA AddProgress ==
  ASSUME ApiInv, Progress, NEW n \in Node, AddBlock(n)
  PROVE  Progress'
<1>1. /\ phase = "scan" /\ n \in allocated \ scanned /\ victims' = victims /\ victims = {}
      /\ scanned' = scanned \cup {n}
      /\ allocated' = allocated /\ start' = start /\ size' = size
      /\ scan' = IF ScanHit(n) = {} THEN scan
                 ELSE LET p == CHOOSE p \in ScanHit(n) : TRUE
                      IN  [scan EXCEPT !.hit_start = p, !.hit_end = p + scan.size]
      /\ phase' = IF ScanHit(n) # {} THEN "unwind" ELSE "scan"
  BY DEF AddBlock, MayScanAdd, ScanAddBlock, Progress, Stages, nodeVars
<1>2. RequestOK /\ NothingYet
  BY DEF Progress
<1>3. allocated' \ scanned' = (allocated \ scanned) \ {n}
  BY <1>1
<1>4. CASE ScanHit(n) = {}
  <2>1. scan' = scan /\ phase' = "scan"
    BY <1>1, <1>4
  <2>2. RequestOK'
    BY <1>1, <1>2, <2>1 DEF RequestOK
  <2>3. ASSUME NEW p \in Int, Wanted(p),
               Apart(p, scan.size, (allocated \ scanned) \ {n}, start, size)
        PROVE  Apart(p, scan.size, allocated, start, size)
    <3>1. Apart(p, scan.size, allocated \ scanned, start, size)
      BY <1>1, <1>2, <1>4, <2>3, RequestTypes, MissGainsNothing DEF ApiInv
    <3> QED BY <1>1, <1>2, <2>3, <3>1 DEF NothingYet
  <2>4. NothingYet'
    BY <1>1, <1>2, <1>3, <2>1, <2>3 DEF NothingYet, Wanted
  <2>5. Stages' /\ HitOK'
    BY <1>1, <2>1 DEF Stages, HitOK
  <2> QED BY <2>2, <2>4, <2>5 DEF Progress
<1>5. CASE ScanHit(n) # {}
  <2>1. PICK p \in ScanHit(n) : scan' = [scan EXCEPT !.hit_start = p, !.hit_end = p + scan.size]
    BY <1>1, <1>5
  <2>2. /\ p \in Int /\ Wanted(p)
        /\ Apart(p, scan.size, (allocated \ scanned) \ {n}, start, size)
    BY <1>1, <1>2, RequestTypes, HitIsPlace DEF ApiInv
  <2>3. /\ scan'.size = scan.size /\ scan'.alignment = scan.alignment
        /\ scan'.range_start = scan.range_start /\ scan'.range_end = scan.range_end
        /\ scan'.hit_start = p /\ scan'.hit_end = p + scan.size
    BY <2>1 DEF ApiInv, ScanType
  <2>4. phase' = "unwind" /\ victims' = {}
    BY <1>1, <1>5
  <2>5. RequestOK'
    BY <1>1, <1>2, <2>3, <2>4 DEF RequestOK
  <2>6. HitOK'
    <3>1. Wanted(p)' /\ Hit' = p
      BY <2>2, <2>3 DEF Wanted, Hit
    <3>2. allocated' \ (scanned' \cup victims') = (allocated \ scanned) \ {n}
      BY <1>1, <2>4
    <3>3. Apart(Hit', scan'.size, allocated' \ (scanned' \cup victims'), start', size')
      BY <1>1, <2>2, <2>3, <3>1, <3>2
    <3>4. Wanted(Hit)'
      BY <2>2, <2>3, <3>1 DEF Wanted
    <3> QED BY <2>3, <2>4, <3>1, <3>3, <3>4 DEF HitOK
  <2>7. Stages' /\ NothingYet'
    BY <2>4 DEF Stages, NothingYet
  <2> QED BY <2>5, <2>6, <2>7 DEF Progress
<1> QED BY <1>4, <1>5

(* Of what is put back, what is in the way is selected.                    *)
LEMMA RemoveProgress ==
  ASSUME ApiInv, Progress, RemoveBlock
  PROVE  Progress'
<1> DEFINE n == roster[1]
<1>1. /\ phase = "unwind" /\ phase' = phase /\ n \in scanned /\ scan' = scan
      /\ scanned' = scanned \ {n}
      /\ allocated' = allocated /\ start' = start /\ size' = size
      /\ victims' = IF ScanSelects(n) THEN victims \cup {n} ELSE victims
  BY DEF RemoveBlock, MayScanRemove, ScanRemoveBlock, nodeVars
<1>2. RequestOK /\ HitOK /\ Stages
  BY DEF Progress
<1>3. n \in allocated /\ start[n] \in Int /\ size[n] \in Int /\ NodeEnd(n) = start[n] + size[n]
      /\ start[n] >= 0 /\ size[n] > 0
  BY <1>1, NodeTypes DEF ApiInv
<1>4. /\ scan.size \in Int /\ scan.size > 0 /\ scan.hit_start \in Int /\ scan.hit_end \in Int
  BY <1>1, <1>2, RequestTypes
<1>5. RequestOK' /\ NothingYet'
  BY <1>1, <1>2 DEF RequestOK, NothingYet
<1> HIDE DEF n
<1>6. CASE Found
  <2>1. /\ scan.hit_end = Hit + scan.size /\ Wanted(Hit)
        /\ Apart(Hit, scan.size, allocated \ (scanned \cup victims), start, size)
        /\ \A m \in victims : m \in allocated /\ ScanSelects(m)
    BY <1>1, <1>2, <1>6 DEF HitOK
  <2>2. ~ScanSelects(n) => start[n] + size[n] <= Hit \/ Hit + scan.size <= start[n]
    BY <1>3, <1>4, <2>1 DEF ScanSelects, Hit
  <2>3. \A m \in allocated' \ (scanned' \cup victims') :
          m \in allocated \ (scanned \cup victims) \/ (m = n /\ ~ScanSelects(n))
    <3>1. CASE ScanSelects(n)
      BY <1>1, <3>1
    <3>2. CASE ~ScanSelects(n)
      BY <1>1, <3>2
    <3> QED BY <3>1, <3>2
  <2>4. Apart(Hit, scan.size, allocated' \ (scanned' \cup victims'), start, size)
    BY <2>1, <2>2, <2>3 DEF Apart
  <2>5. \A m \in victims' : m \in allocated /\ ScanSelects(m)
    BY <1>1, <1>3, <2>1
  <2>6. \A m \in victims' : m \in allocated' /\ ScanSelects(m)'
    BY <1>1, <2>5 DEF ScanSelects, NodeEnd
  <2>7. Hit' = Hit /\ Wanted(Hit)'
    BY <1>1, <2>1 DEF Hit, Wanted
  <2>8. HitOK'
    BY <1>1, <2>1, <2>4, <2>6, <2>7 DEF HitOK
  <2>9. Stages'
    BY <1>1, <1>6 DEF Stages, Found
  <2> QED BY <1>5, <2>8, <2>9 DEF Progress
<1>7. CASE ~Found
  <2>1. ~ScanSelects(n) /\ victims = {}
    BY <1>2, <1>3, <1>4, <1>7 DEF ScanSelects, Found, Stages
  <2> QED BY <1>1, <1>5, <1>7, <2>1 DEF Progress, HitOK, Stages, Found
<1> QED BY <1>6, <1>7

(* An eviction takes one of the nodes in the way, and no other.            *)
LEMMA EvictProgress ==
  ASSUME ApiInv, Progress, NEW n \in Node, Evict(n)
  PROVE  Progress'
<1>1. /\ phase = "evict" /\ n \in victims /\ n \in allocated /\ scan' = scan
      /\ scanned' = scanned /\ victims' = victims \ {n} /\ allocated' = allocated \ {n}
      /\ phase' = IF victims = {n} THEN "insert" ELSE phase
      /\ start' = [start EXCEPT ![n] = 0] /\ size' = [size EXCEPT ![n] = 0]
  BY DEF Evict, MayRemove, RemoveNode, scanVars
<1>2. RequestOK /\ HitOK /\ Stages
  BY DEF Progress
<1>3. \A m \in allocated : m # n => start'[m] = start[m] /\ size'[m] = size[m]
  <2>1. start \in [Link -> Int] /\ size \in [Link -> Int] /\ allocated \in SUBSET Node
    BY NodeTypes DEF ApiInv, Fields
  <2> QED BY <1>1, <2>1 DEF Link
<1>4. Found /\ Found'
  BY <1>1, <1>2 DEF Stages, Found
<1>5. /\ scan.hit_end = Hit + scan.size /\ Wanted(Hit)
      /\ Apart(Hit, scan.size, allocated \ (scanned \cup victims), start, size)
      /\ \A m \in victims : m \in allocated /\ ScanSelects(m)
  BY <1>1, <1>2, <1>4 DEF HitOK
<1>6. RequestOK' /\ NothingYet'
  BY <1>1, <1>2 DEF RequestOK, NothingYet
<1>7. Hit' = Hit /\ Wanted(Hit)'
  BY <1>1, <1>5 DEF Hit, Wanted
<1>8. allocated' \ (scanned' \cup victims') \subseteq
        {m \in allocated \ (scanned \cup victims) : m # n}
  BY <1>1
<1>9. Apart(Hit, scan.size, allocated' \ (scanned' \cup victims'), start', size')
  BY <1>3, <1>5, <1>8 DEF Apart
<1>10. \A m \in victims' : m \in allocated' /\ ScanSelects(m)'
  BY <1>1, <1>3, <1>5 DEF ScanSelects, NodeEnd
<1>11. HitOK'
  BY <1>1, <1>5, <1>7, <1>9, <1>10 DEF HitOK
<1>12. Stages'
  BY <1>1, <1>4 DEF Stages
<1> QED BY <1>6, <1>11, <1>12 DEF Progress

(* The other steps leave a scan alone, or are the end of it.               *)
LEMMA NextProgress ==
  ASSUME ApiInv, Progress, [Next]_vars
  PROVE  Progress'
<1>1. RequestOK /\ NothingYet /\ HitOK /\ Stages
  BY DEF Progress
<1>2. ASSUME phase' \in {"idle", "done"}, victims' = {}
      PROVE  Progress'
  BY <1>2 DEF Progress, RequestOK, NothingYet, HitOK, Stages
<1>3. ASSUME NEW n \in Node, Insert(n) \/ Reserve(n) \/ Free(n) PROVE Progress'
  BY <1>1, <1>2, <1>3 DEF Insert, Reserve, Free, apiVars, Stages
<1>4. ASSUME NEW old \in Node, NEW new \in Node, Replace(old, new) PROVE Progress'
  BY <1>1, <1>2, <1>4 DEF Replace, apiVars, Stages
<1>5. CASE Scan
  BY <1>1, <1>5, ScanProgress
<1>6. ASSUME NEW n \in Node, AddBlock(n) PROVE Progress'
  BY <1>6, AddProgress
<1>7. CASE GiveUp
  <2>1. phase = "scan" /\ phase' = "unwind" /\ UNCHANGED <<mmVars, victims>>
    BY <1>7 DEF GiveUp
  <2>2. ~Found' /\ victims' = {}
    BY <1>1, <2>1 DEF NothingYet, Stages, Found, mmVars
  <2>3. RequestOK'
    BY <1>1, <2>1 DEF RequestOK, mmVars
  <2> QED BY <2>1, <2>2, <2>3 DEF Progress, NothingYet, HitOK, Stages
<1>8. CASE RemoveBlock
  BY <1>8, RemoveProgress
<1>9. CASE EndUnwind
  <2>1. /\ phase = "unwind" /\ UNCHANGED <<mmVars, victims>>
        /\ phase' = IF ~Found THEN "done" ELSE IF victims = {} THEN "insert" ELSE "evict"
    BY <1>9 DEF EndUnwind
  <2>2. CASE ~Found
    BY <1>1, <1>2, <2>1, <2>2 DEF Stages
  <2>3. CASE Found
    <3>1. phase' \in {"insert", "evict"} /\ (phase' = "insert" => victims' = {}) /\ Found'
      BY <2>1, <2>3 DEF Found, mmVars
    <3>2. RequestOK'
      BY <1>1, <2>1, <3>1 DEF RequestOK, mmVars
    <3>3. HitOK'
      BY <1>1, <2>1, <2>3, <3>1 DEF HitOK, mmVars, Hit, Wanted, ScanSelects, NodeEnd
    <3> QED BY <3>1, <3>2, <3>3 DEF Progress, NothingYet, Stages
  <2> QED BY <2>2, <2>3
<1>10. ASSUME NEW n \in Node, Evict(n) PROVE Progress'
  BY <1>10, EvictProgress
<1>11. ASSUME NEW n \in Node, InsertEvict(n) PROVE Progress'
  BY <1>1, <1>2, <1>11 DEF InsertEvict, Stages
<1>12. CASE EndScan
  BY <1>1, <1>2, <1>12 DEF EndScan, Stages
<1>13. CASE UNCHANGED vars
  BY <1>13 DEF Progress, RequestOK, NothingYet, HitOK, Stages, vars, mmVars, apiVars,
               Found, Hit, Wanted, ScanSelects, NodeEnd
<1> QED BY <1>3, <1>4, <1>5, <1>6, <1>7, <1>8, <1>9, <1>10, <1>11, <1>12, <1>13 DEF Next

(* The scan keeps track: it goes on while nothing is gained, and what it   *)
(* has found stays a place once the nodes it selects are gone.             *)
THEOREM ScanInvariant == Spec => []ScanInv
<1>1. Init => ScanInv
  BY InitApiInv, InitProgress DEF ScanInv
<1>2. ScanInv /\ [Next]_vars => ScanInv'
  BY NextApiInv, NextProgress DEF ScanInv
<1> QED BY <1>1, <1>2, PTL DEF Spec

(* When all it selected are gone, the place of the scan is free.           *)
LEMMA HitIsFree ==
  ASSUME ScanInv, phase = "insert"
  PROVE  /\ Quiet /\ scanned = {} /\ Wanted(Hit) /\ Hit \in Int
         /\ Apart(Hit, scan.size, allocated, start, size)
<1>1. Quiet /\ scanned = {}
  BY IdleIsQuiet DEF ScanInv, ApiInv
<1>2. HitOK /\ Stages /\ RequestOK /\ ApiInv
  BY DEF ScanInv, Progress
<1>3. Found /\ victims = {}
  BY <1>2 DEF Stages
<1>4. Wanted(Hit) /\ Apart(Hit, scan.size, allocated \ (scanned \cup victims), start, size)
  BY <1>2, <1>3 DEF HitOK
<1>5. Hit \in Int
  BY <1>2, RequestTypes DEF Hit
<1>6. allocated \ (scanned \cup victims) = allocated
  BY <1>1, <1>3
<1> QED BY <1>1, <1>4, <1>5, <1>6

(* Once the nodes it selects are removed, the block the scan was for fits: *)
(* drm_mm_insert_node_in_range never comes back with ENOSPC.               *)
THEOREM EvictionSufficesCorrect == Spec => []EvictionSuffices
<1>1. ScanInv => EvictionSuffices
  <2> SUFFICES ASSUME ScanInv, phase = "insert",
                      NEW r \in SearchResults(scan.size, scan.alignment, scan.range_start,
                                              scan.range_end, "EVICT", FALSE)
               PROVE  r # <<>>
    BY DEF EvictionSuffices
  <2>1. /\ Quiet /\ Wanted(Hit) /\ Hit \in Int
        /\ Apart(Hit, scan.size, allocated, start, size)
    BY HitIsFree
  <2>2. /\ scan.size \in Nat /\ scan.size \in Int /\ scan.size > 0 /\ scan.alignment \in Nat
        /\ scan.range_start \in Int /\ scan.range_end \in Int
    BY RequestTypes DEF ScanInv, Progress
  <2>3. PICK h \in Behind(hole_size) :
          HoleStart(h) <= Hit /\ Hit + scan.size <= HoleStart(h) + hole_size[h]
    BY <2>1, <2>2, FreeBlockIsInHole
  <2>4. Hit + scan.size <= HoleStop(h)
    BY <2>3 DEF HoleStop
  <2> QED BY <2>1, <2>2, <2>3, <2>4, SearchBeats DEF Wanted
<1> QED BY <1>1, ScanInvariant, PTL

(* The hole on top of the stack has the place of the scan in it.           *)
HitOnTop ==
  /\ Quiet /\ Wanted(Hit) /\ Hit \in Int
  /\ scan.size \in Nat /\ scan.size > 0 /\ scan.alignment \in Nat
  /\ scan.range_start \in Int /\ scan.range_end \in Int
  /\ hole_stack[1] \in Behind(hole_size)
  /\ HoleStart(hole_stack[1]) <= Hit /\ Hit + scan.size <= HoleStop(hole_stack[1])

(* The last eviction has made that hole, and pushed it.                    *)
LEMMA LastEvictOnTop ==
  ASSUME ScanInv, NEW n \in Node, Evict(n), victims = {n}
  PROVE  HitOnTop'
<1> DEFINE h == prev[n]
           q == next[n]
           A == allocated
<1>1. ApiInv /\ RequestOK /\ HitOK /\ Stages
  BY DEF ScanInv, Progress
<1>2. /\ phase = "evict" /\ n \in allocated /\ RemoveNode(n) /\ scan' = scan
      /\ start' = [start EXCEPT ![n] = 0] /\ size' = [size EXCEPT ![n] = 0]
      /\ hole_size' = [hole_size EXCEPT ![n] = 0, ![h] = start[q] - HoleStart(h)]
      /\ hole_stack' = PushHole(RmHole(RmHole(hole_stack, n), h), h)
  BY DEF Evict, MayRemove, RemoveNode, scanVars
<1>3. Quiet /\ scanned = {}
  BY <1>1, <1>2, IdleIsQuiet DEF ApiInv
<1>4. QuietNext
  BY <1>2, <1>3, RemoveKeeps
<1>5. /\ scan.size \in Nat /\ scan.size > 0 /\ scan.size \in Int
      /\ scan.alignment \in Nat /\ scan.range_start \in Int /\ scan.range_end \in Int
      /\ Hit \in Int
  BY <1>1, <1>2, RequestTypes DEF Hit
<1>6. /\ scan.hit_end = Hit + scan.size /\ Wanted(Hit) /\ ScanSelects(n)
      /\ Apart(Hit, scan.size, A \ {n}, start, size)
  <2>1. A \ (scanned \cup victims) = A \ {n}
    BY <1>3
  <2> QED BY <1>1, <1>2, <2>1 DEF HitOK, Stages
<1>7. /\ A \in SUBSET Node /\ Fields(start, size) /\ Blocks(A, start, size)
      /\ Ring(next, prev, A \cup {HeadNode}, start, size)
      /\ hole_size \in [Link -> Nat] /\ hole_stack \in Seq(Link)
  BY <1>3 DEF Quiet, Settled, Trees, Holds
<1>8. start[n] + size[n] > Hit /\ Hit + scan.size > start[n]
  BY <1>2, <1>5, <1>6, NodeTypes, <1>1 DEF ApiInv, ScanSelects, NodeEnd, Hit
<1>9. start[h] + size[h] <= Hit /\ Hit + scan.size <= start[q]
  <2> HIDE DEF h, q
  <2> QED BY <1>2, <1>5, <1>6, <1>7, <1>8, PlaceOverNode DEF h, q
<1>10. /\ n \in Link /\ h \in Link /\ q \in Link /\ h # n
       /\ start[h] \in Int /\ size[h] \in Int /\ start[q] \in Int
  <2>1. n \in A /\ h # n
    BY <1>2, <1>7, NotAlone
  <2>2. n \in Link /\ h \in Link /\ q \in Link
    BY <1>7, <2>1 DEF Ring, Link
  <2> HIDE DEF h, q
  <2> QED BY <1>7, <2>1, <2>2 DEF Fields
<1>11. start'[h] = start[h] /\ size'[h] = size[h] /\ hole_size'[h] = start[q] - (start[h] + size[h])
  <2>1. hole_size'[h] = start[q] - HoleStart(h)
    BY <1>2, <1>7, <1>10
  <2>2. start'[h] = start[h] /\ size'[h] = size[h]
    BY <1>2, <1>7, <1>10 DEF Fields
  <2> QED BY <2>1, <2>2 DEF HoleStart, NodeEnd
<1>12. hole_stack'[1] = h
  BY <1>2, <1>10 DEF PushHole, ListPrepend, RmHole
<1>13. hole_size'[h] > 0
  BY <1>5, <1>9, <1>10, <1>11
<1>14. /\ HoleStart(hole_stack[1])' <= Hit /\ Hit + scan.size <= HoleStop(hole_stack[1])'
       /\ hole_stack'[1] \in Behind(hole_size')
  <2>1. HoleStart(hole_stack[1])' = start[h] + size[h]
    BY <1>11, <1>12 DEF HoleStart, NodeEnd
  <2>2. HoleStop(hole_stack[1])' = start[q]
    BY <1>10, <1>11, <1>12, <2>1 DEF HoleStop
  <2>3. hole_stack'[1] \in Behind(hole_size')
    BY <1>10, <1>12, <1>13 DEF Behind
  <2> QED BY <1>9, <2>1, <2>2, <2>3
<1>15. Quiet'
  BY <1>4 DEF Quiet, QuietNext
<1>16. Hit' = Hit /\ scan'.size = scan.size /\ Wanted(Hit)'
  BY <1>2, <1>6 DEF Hit, Wanted
<1>17. HoleStart(hole_stack[1])' <= Hit' /\ Hit' + scan'.size <= HoleStop(hole_stack[1])'
  BY <1>14, <1>16
<1>18. Hit' \in Int /\ scan'.size \in Nat /\ scan'.size > 0 /\ scan'.alignment \in Nat
       /\ scan'.range_start \in Int /\ scan'.range_end \in Int
  BY <1>2, <1>5, <1>16
<1> QED BY <1>14, <1>15, <1>16, <1>17, <1>18 DEF HitOnTop

(* The block that the last removal has freed is on top of free_stack, and  *)
(* the insertion in mode EVICT finds it there without walking on.          *)
THEOREM FreedBlockOnTopCorrect == Spec => FreedBlockOnTop
<1>1. ASSUME ScanInv, [Next]_vars, phase = "evict", phase' = "insert"
      PROVE  HitOnTop'
  <2>1. \E n \in Node : Evict(n)
    BY <1>1 DEF Next, vars, apiVars, Insert, Reserve, Free, Replace, Scan, AddBlock, GiveUp,
                RemoveBlock, EndUnwind, InsertEvict, EndScan
  <2>2. PICK n \in Node : Evict(n)
    BY <2>1
  <2>3. victims = {n}
    BY <1>1, <2>2 DEF Evict
  <2> QED BY <1>1, <2>2, <2>3, LastEvictOnTop
<1>2. HitOnTop => ~InsertFails(scan.size, scan.alignment, scan.range_start, scan.range_end,
                               "EVICT", TRUE)
  BY TopHoleServes DEF HitOnTop, Wanted
<1>3. ScanInv /\ [Next]_vars => (phase = "evict" /\ phase' = "insert" => HitOnTop')
  BY <1>1
<1> QED BY <1>2, <1>3, ScanInvariant, PTL DEF Spec, FreedBlockOnTop

-----------------------------------------------------------------------------
(* The refinement: what RangeAllocator sees of the nodes and of a scan.    *)
View == [n \in allocated |-> [start |-> start[n], size |-> size[n]]]
Request == IF Stage = "idle" THEN [size |-> 0, alignment |-> 0, range |-> <<0, 0>>]
           ELSE [size |-> scan.size, alignment |-> scan.alignment,
                 range |-> <<scan.range_start, scan.range_end>>]
Offered == IF phase = "scan" THEN scanned ELSE {}
Promised == IF Stage = "promised" THEN scan.hit_start ELSE 0

AbstractStep == Abstract!Next \/ UNCHANGED Abstract!vars

(* A step of a scan that the abstract allocator does not see.              *)
LEMMA Stutters ==
  ASSUME View' = View, Stage' = Stage, Request' = Request, Offered' = Offered,
         Promised' = Promised
  PROVE  AbstractStep
BY DEF AbstractStep, Abstract!vars, View, Request, Offered, Promised

(* Taken and free mean the same to both.                                   *)
LEMMA SeenFree ==
  ASSUME NEW p \in Int, NEW x \in Int, NEW A \in SUBSET allocated
  PROVE  /\ Abstract!Taken = allocated
         /\ Abstract!Free(p, x, A) <=> Apart(p, x, A, start, size)
<1>1. \A n \in A : View[n].start = start[n] /\ View[n].size = size[n]
  BY DEF View
<1>2. Abstract!Free(p, x, A) <=> Apart(p, x, A, start, size)
  BY <1>1 DEF Abstract!Free, Apart, View
<1>3. Abstract!Taken = allocated
  BY DEF Abstract!Taken
<1> QED BY <1>2, <1>3

(* So does a place that was asked for.                                     *)
LEMMA SeenFits ==
  ASSUME Stage # "idle", scan.size \in Int, NEW p \in Int, NEW A \in SUBSET allocated
  PROVE  Abstract!Fits(p, A) <=> Apart(p, scan.size, A, start, size) /\ Wanted(p)
<1>1. /\ Request.size = scan.size /\ Request.alignment = scan.alignment
      /\ Request.range[1] = scan.range_start /\ Request.range[2] = scan.range_end
  BY DEF Request
<1>2. Abstract!Free(p, Request.size, A) <=> Apart(p, scan.size, A, start, size)
  BY <1>1, SeenFree
<1> QED BY <1>1, <1>2 DEF Abstract!Fits, Wanted, Asked, Request

(* A block is inside the range, where the abstract allocator looks for it. *)
LEMMA ApartInRange ==
  ASSUME NEW p \in Int, NEW x \in Nat, NEW A, NEW st, NEW sz, Apart(p, x, A, st, sz)
  PROVE  p \in 0..PoolSize
BY DrmMmConstants DEF Apart

(* What a node linked in looks like.                                       *)
LEMMA OccupySeen ==
  ASSUME ApiInv, NEW n \in Node \ allocated, NEW h, NEW p \in Int, NEW x \in Nat,
         Occupy(h, n, p, x)
  PROVE  View' = [m \in allocated \cup {n} |->
                    IF m = n THEN [start |-> p, size |-> x] ELSE View[m]]
<1>1. /\ allocated' = allocated \cup {n}
      /\ start' = [start EXCEPT ![n] = p] /\ size' = [size EXCEPT ![n] = x]
  BY DEF Occupy
<1>2. start \in [Link -> Int] /\ size \in [Link -> Int] /\ allocated \in SUBSET Node /\ n \in Link
  BY NodeTypes DEF ApiInv, Fields, Link
<1>3. start'[n] = p /\ size'[n] = x
  BY <1>1, <1>2
<1>4. \A m \in allocated : m # n /\ start'[m] = start[m] /\ size'[m] = size[m]
  BY <1>1, <1>2
<1>5. View' = [m \in allocated \cup {n} |-> [start |-> start'[m], size |-> size'[m]]]
  BY <1>1 DEF View
<1>6. \A m \in allocated \cup {n} :
        [start |-> start'[m], size |-> size'[m]] =
          IF m = n THEN [start |-> p, size |-> x] ELSE View[m]
  BY <1>3, <1>4 DEF View
<1> QED BY <1>5, <1>6

(* What is left when a node is taken out of the allocator.                 *)
LEMMA RemoveSeen ==
  ASSUME ApiInv, NEW n \in allocated, RemoveNode(n)
  PROVE  View' = [m \in allocated \ {n} |-> View[m]]
<1>1. /\ allocated' = allocated \ {n}
      /\ start' = [start EXCEPT ![n] = 0] /\ size' = [size EXCEPT ![n] = 0]
  BY DEF RemoveNode
<1>2. start \in [Link -> Int] /\ size \in [Link -> Int] /\ allocated \in SUBSET Node
  BY NodeTypes DEF ApiInv, Fields
<1>3. \A m \in allocated \ {n} : start'[m] = start[m] /\ size'[m] = size[m]
  BY <1>1, <1>2 DEF Link
<1>4. View' = [m \in allocated \ {n} |-> [start |-> start'[m], size |-> size'[m]]]
  BY <1>1 DEF View
<1> QED BY <1>3, <1>4 DEF View

(* Whatever the mode, an insertion hands out a free block.                 *)
LEMMA GiveStep ==
  ASSUME ApiInv, phase = "idle", UNCHANGED apiVars, scan' = scan,
         NEW n \in Node \ allocated, NEW h, NEW p \in Int, NEW x \in Sizes,
         Occupy(h, n, p, x), Apart(p, x, allocated, start, size)
  PROVE  AbstractStep
<1>1. x \in Nat /\ x \in Int
  <2>1. x \in 1..U64Max /\ U64Max \in Nat
    BY DrmMmApiConstants, DrmMmConstants
  <2> QED BY <2>1
<1>2. p \in 0..PoolSize
  BY <1>1, ApartInRange
<1>3. /\ View' = [m \in allocated \cup {n} |->
                    IF m = n THEN [start |-> p, size |-> x] ELSE View[m]]
  BY <1>1, OccupySeen
<1>4. Abstract!Taken = allocated /\ Abstract!Free(p, x, allocated)
  BY <1>1, SeenFree
<1>5. Stage = "idle" /\ Stage' = Stage /\ Offered' = Offered /\ Promised' = Promised
      /\ Request' = Request
  BY DEF apiVars, Stage, Offered, Promised, Request
<1>6. Abstract!Allocate(n, p, x)
  BY <1>3, <1>4, <1>5
     DEF Abstract!Allocate, Abstract!Give, View, Request, Offered, Promised
<1> QED BY <1>2, <1>6 DEF AbstractStep, Abstract!Next

(* drm_mm_insert_node_in_range hands out a free block, in any mode.        *)
LEMMA InsertStep ==
  ASSUME ApiInv, NEW n \in Node, Insert(n)
  PROVE  AbstractStep
<1>1. PICK x \in Sizes, a \in Alignments, r \in Ranges, m \in Modes, once \in BOOLEAN :
        InsertNode(n, x, a, r[1], r[2], m, once)
  BY DEF Insert
<1>2. phase = "idle" /\ n \in Node \ allocated /\ UNCHANGED apiVars
  BY DEF Insert, MayInsert
<1>3. /\ x \in Nat /\ x > 0 /\ a \in Nat /\ r[1] \in Int /\ r[2] \in Int
  <2>1. x \in 1..U64Max /\ U64Max \in Nat
    BY DrmMmApiConstants, DrmMmConstants
  <2> QED BY <2>1, DrmMmApiConstants
<1>4. PICK res \in SearchResults(x, a, r[1], r[2], m, once) :
        res # <<>> /\ Occupy(res[1], n, res[2], x)
  BY <1>1 DEF InsertNode
<1>5. Quiet
  BY <1>2, IdleIsQuiet DEF ApiInv
<1>6. res[2] \in Int /\ Apart(res[2], x, allocated, start, size)
  BY <1>3, <1>4, <1>5, SearchIsSound DEF Modes
<1>7. scan' = scan
  BY <1>4 DEF Occupy, scanVars
<1> QED BY <1>2, <1>4, <1>6, <1>7, GiveStep

(* So does drm_mm_reserve_node, at the place it was told.                  *)
LEMMA ReserveStep ==
  ASSUME ApiInv, NEW n \in Node, Reserve(n)
  PROVE  AbstractStep
<1>1. PICK p \in 0..U64Max, x \in Sizes : ReserveNode(n, p, x)
  BY DEF Reserve
<1>2. phase = "idle" /\ n \in Node \ allocated /\ UNCHANGED apiVars
  BY DEF Reserve, MayInsert
<1>3. x \in 1..U64Max /\ U64Max \in Nat /\ p \in Int /\ x \in Int
  BY DrmMmApiConstants, DrmMmConstants
<1>4. PICK h \in ReserveHoles(p, x) : Occupy(h, n, p, x)
  BY <1>1 DEF ReserveNode
<1>5. Quiet
  BY <1>2, IdleIsQuiet DEF ApiInv
<1>6. ~ReserveFails(p, x)
  <2>1. ReserveEnd(p, x) > p
    BY <1>1 DEF ReserveNode
  <2>2. ReserveEnd(p, x) \in Int
    <3>1. U64Max + 1 \in Nat \ {0} /\ p + x \in Int
      BY <1>3
    <3> QED BY <3>1 DEF ReserveEnd
  <2> QED BY <1>3, <1>4, <2>1, <2>2 DEF ReserveFails
<1>7. Apart(p, x, allocated, start, size)
  BY <1>3, <1>5, <1>6, ReserveRefusesOnlyTaken
<1>8. scan' = scan
  BY <1>4 DEF Occupy, scanVars
<1> QED BY <1>2, <1>3, <1>4, <1>7, <1>8, GiveStep

(* A node removed gives back its block, and only that.                     *)
LEMMA FreeStep ==
  ASSUME ApiInv, NEW n \in Node, Free(n)
  PROVE  AbstractStep
<1>1. phase = "idle" /\ n \in allocated /\ RemoveNode(n) /\ UNCHANGED apiVars /\ scan' = scan
  BY DEF Free, MayRemove, RemoveNode, scanVars
<1>2. View' = [m \in allocated \ {n} |-> View[m]]
  BY <1>1, RemoveSeen
<1>3. Stage = "idle" /\ Stage' = Stage /\ Offered' = Offered /\ Promised' = Promised
      /\ Request' = Request
  BY <1>1 DEF apiVars, Stage, Offered, Promised, Request
<1>4. Abstract!Taken = allocated
  BY DEF Abstract!Taken
<1>5. Abstract!Release(n)
  BY <1>1, <1>2, <1>3, <1>4
     DEF Abstract!Release, Abstract!Take, View, Request, Offered, Promised
<1> QED BY <1>5 DEF AbstractStep, Abstract!Next

(* A node that replaces another takes over its block.                      *)
LEMMA ReplaceStep ==
  ASSUME ApiInv, NEW old \in Node, NEW new \in Node, Replace(old, new)
  PROVE  AbstractStep
<1>1. /\ phase = "idle" /\ old \in allocated /\ new \notin allocated /\ UNCHANGED apiVars
      /\ scan' = scan /\ allocated' = (allocated \ {old}) \cup {new}
      /\ start' = [k \in Link |-> IF k = old THEN 0
                                  ELSE IF k = new THEN start[old] ELSE start[k]]
      /\ size' = [k \in Link |-> IF k = old THEN 0
                                 ELSE IF k = new THEN size[old] ELSE size[k]]
  BY DEF Replace, MayRemove, MayInsert, ReplaceNode, scanVars
<1>2. old # new /\ old \in Link /\ new \in Link /\ allocated \subseteq Link
  BY <1>1, NodeTypes DEF ApiInv, Link
<1>3. \A m \in (allocated \ {old}) \cup {new} :
        [start |-> start'[m], size |-> size'[m]] = View[IF m = new THEN old ELSE m]
  BY <1>1, <1>2 DEF View
<1>4. View' = [m \in (allocated \ {old}) \cup {new} |-> View[IF m = new THEN old ELSE m]]
  BY <1>1, <1>3 DEF View
<1>5. Stage = "idle" /\ Stage' = Stage /\ Offered' = Offered /\ Promised' = Promised
      /\ Request' = Request
  BY <1>1 DEF apiVars, Stage, Offered, Promised, Request
<1>6. Abstract!Taken = allocated
  BY DEF Abstract!Taken
<1>7. Abstract!Replace(old, new)
  BY <1>1, <1>4, <1>5, <1>6 DEF Abstract!Replace, View, Request, Offered, Promised
<1> QED BY <1>7 DEF AbstractStep, Abstract!Next

(* A scan is a request, and nothing has been offered yet.                  *)
LEMMA ScanStep ==
  ASSUME ApiInv, Scan
  PROVE  AbstractStep
<1>1. PICK x \in Sizes, a \in Alignments, r \in Ranges, m \in Modes :
        MayScan(x, r[1], r[2]) /\ ScanInit(x, a, r[1], r[2], m)
  BY DEF Scan
<1>2. /\ phase = "idle" /\ phase' = "scan" /\ scanned' = {}
      /\ allocated' = allocated /\ start' = start /\ size' = size
      /\ scan'.size = x /\ scan'.alignment = a
      /\ scan'.range_start = r[1] /\ scan'.range_end = r[2]
  BY <1>1 DEF Scan, ScanInit, MayScan, nodeVars
<1>3. r = <<r[1], r[2]>>
  BY DrmMmApiConstants
<1> DEFINE req == [size |-> x, alignment |-> a, range |-> r]
<1>4. req \in Abstract!Request
  BY DEF Abstract!Request
<1>5. /\ Stage = "idle" /\ Stage' = "asked" /\ View' = View
      /\ Offered = {} /\ Offered' = {} /\ Promised = 0 /\ Promised' = 0
  BY <1>2 DEF Stage, View, Offered, Promised
<1>6. Request' = req
  BY <1>2, <1>3, <1>5 DEF Request
<1>7. Abstract!Ask(req)
  BY <1>5, <1>6 DEF Abstract!Ask, View, Request, Offered, Promised
<1> QED BY <1>4, <1>7 DEF AbstractStep, Abstract!Next

(* A node that makes no room joins those that are offered; with one that   *)
(* does, the place found is promised.                                      *)
LEMMA AddBlockStep ==
  ASSUME ScanInv, ScanInv', NEW n \in Node, AddBlock(n)
  PROVE  AbstractStep
<1>1. /\ phase = "scan" /\ n \in allocated \ scanned /\ scanned' = scanned \cup {n}
      /\ allocated' = allocated /\ start' = start /\ size' = size
      /\ scan' = IF ScanHit(n) = {} THEN scan
                 ELSE LET p == CHOOSE p \in ScanHit(n) : TRUE
                      IN  [scan EXCEPT !.hit_start = p, !.hit_end = p + scan.size]
      /\ phase' = IF ScanHit(n) # {} THEN "unwind" ELSE "scan"
  BY DEF AddBlock, MayScanAdd, ScanAddBlock, nodeVars
<1>2. ApiInv /\ RequestOK /\ RequestOK' /\ NothingYet' /\ HitOK'
  BY DEF ScanInv, Progress
<1>3. View' = View /\ Stage = "asked" /\ Offered = scanned /\ Promised = 0
      /\ Abstract!Taken = allocated
  BY <1>1 DEF View, Stage, Offered, Promised, Abstract!Taken
<1>4. /\ scan.size \in Int /\ scan.size \in Nat /\ scan.size > 0
  BY <1>1, <1>2, RequestTypes
<1>5. CASE ScanHit(n) = {}
  <2>1. scan' = scan /\ phase' = "scan"
    BY <1>1, <1>5
  <2>2. Stage' = "asked" /\ Offered' = scanned \cup {n} /\ Promised' = 0 /\ Request' = Request
    BY <1>1, <1>3, <2>1 DEF Stage, Offered, Promised, Request
  <2>3. ASSUME NEW p \in 0..PoolSize, Abstract!Fits(p, allocated \ (scanned \cup {n}))
        PROVE  Abstract!Fits(p, allocated)
    <3>1. p \in Int /\ allocated \ (scanned \cup {n}) \in SUBSET allocated
      BY DrmMmConstants
    <3>2. Apart(p, scan.size, allocated \ (scanned \cup {n}), start, size) /\ Wanted(p)
      BY <1>3, <1>4, <2>3, <3>1, SeenFits
    <3>3. Apart(p, scan.size, allocated, start, size)
      BY <1>1, <1>2, <2>1, <3>1, <3>2 DEF NothingYet, Wanted
    <3> QED BY <1>3, <1>4, <3>1, <3>2, <3>3, SeenFits
  <2>4. Abstract!NothingGained(scanned \cup {n})
    BY <1>3, <2>3 DEF Abstract!NothingGained
  <2>5. Abstract!Offer(n)
    BY <1>1, <1>3, <2>2, <2>4 DEF Abstract!Offer, View, Request, Offered, Promised
  <2> QED BY <2>5 DEF AbstractStep, Abstract!Next
<1>6. CASE ScanHit(n) # {}
  <2>1. PICK p \in ScanHit(n) : scan' = [scan EXCEPT !.hit_start = p, !.hit_end = p + scan.size]
    BY <1>1, <1>6
  <2>2. /\ p \in Int /\ Wanted(p)
        /\ Apart(p, scan.size, (allocated \ scanned) \ {n}, start, size)
    BY <1>1, <1>2, RequestTypes, HitIsPlace DEF ApiInv
  <2>3. /\ scan'.size = scan.size /\ scan'.alignment = scan.alignment
        /\ scan'.range_start = scan.range_start /\ scan'.range_end = scan.range_end
        /\ scan'.hit_start = p /\ scan'.hit_end = p + scan.size /\ phase' = "unwind"
    BY <1>1, <1>2, <1>6, <2>1 DEF ApiInv, ScanType
  <2>4. p \in 0..PoolSize
    BY <1>4, <2>2, ApartInRange
  <2>5. scan'.hit_end > 0
    BY <1>4, <2>3, <2>4
  <2>6. Stage' = "promised" /\ Offered' = {} /\ Promised' = p /\ Request' = Request
    BY <1>3, <2>3, <2>5 DEF Stage, Found, Offered, Promised, Request
  <2>7. Abstract!Fits(p, allocated \ (scanned \cup {n}))
    <3>1. (allocated \ scanned) \ {n} = allocated \ (scanned \cup {n})
          /\ allocated \ (scanned \cup {n}) \in SUBSET allocated
      OBVIOUS
    <3> QED BY <1>3, <1>4, <2>2, <3>1, SeenFits
  <2>8. Abstract!Promise(n, p)
    BY <1>1, <1>3, <2>6, <2>7 DEF Abstract!Promise, View, Request, Offered, Promised
  <2> QED BY <2>4, <2>8 DEF AbstractStep, Abstract!Next
<1> QED BY <1>5, <1>6

(* A caller that runs out of nodes withdraws its request.                  *)
LEMMA GiveUpStep ==
  ASSUME ScanInv, GiveUp
  PROVE  AbstractStep
<1>1. phase = "scan" /\ phase' = "unwind" /\ UNCHANGED mmVars
  BY DEF GiveUp
<1>2. scan.hit_end = 0
  BY <1>1 DEF ScanInv, Progress, NothingYet
<1>3. /\ View' = View /\ Stage = "asked" /\ Stage' = "idle" /\ Promised = 0
      /\ Offered' = {} /\ Promised' = 0
  BY <1>1, <1>2 DEF mmVars, View, Stage, Found, Offered, Promised
<1>4. Request' = [size |-> 0, alignment |-> 0, range |-> <<0, 0>>]
  BY <1>3 DEF Request
<1>5. Abstract!Withdraw
  BY <1>3, <1>4
     DEF Abstract!Withdraw, Abstract!NoRequest, View, Request, Offered, Promised
<1> QED BY <1>5 DEF AbstractStep, Abstract!Next

(* Taking the roster off again is seen by no one.                          *)
LEMMA UnwindStep ==
  ASSUME ScanInv, RemoveBlock \/ EndUnwind
  PROVE  AbstractStep
<1>1. /\ phase = "unwind" /\ phase' \in {"unwind", "evict", "insert", "done"}
      /\ phase' = "done" <=> (phase' # "unwind" /\ ~Found)
      /\ scan' = scan /\ allocated' = allocated /\ start' = start /\ size' = size
  BY DEF RemoveBlock, EndUnwind, ScanRemoveBlock, nodeVars, mmVars
<1>2. View' = View /\ Stage' = Stage /\ Offered' = Offered
  BY <1>1 DEF View, Stage, Found, Offered
<1>3. Promised' = Promised /\ Request' = Request
  BY <1>1, <1>2 DEF Promised, Request
<1> QED BY <1>2, <1>3, Stutters

(* A node that is evicted is in the way of what was promised.              *)
LEMMA EvictStep ==
  ASSUME ScanInv, NEW n \in Node, Evict(n)
  PROVE  AbstractStep
<1>1. /\ phase = "evict" /\ phase' \in {"evict", "insert"}
      /\ n \in victims /\ n \in allocated /\ RemoveNode(n) /\ scan' = scan
  BY DEF Evict, MayRemove, RemoveNode, scanVars
<1>2. ApiInv /\ RequestOK /\ HitOK /\ Stages
  BY DEF ScanInv, Progress
<1>3. Found /\ ScanSelects(n) /\ scan.hit_end = Hit + scan.size
  BY <1>1, <1>2 DEF Stages, HitOK
<1>4. View' = [m \in allocated \ {n} |-> View[m]]
  BY <1>1, <1>2, RemoveSeen
<1>5. Stage = "promised" /\ Stage' = "promised" /\ Offered' = Offered
      /\ Promised = Hit /\ Promised' = Promised /\ Request' = Request
  BY <1>1, <1>3 DEF Stage, Found, Offered, Promised, Request, Hit
<1>6. /\ scan.size \in Int /\ Hit \in Int /\ Request.size = scan.size
  BY <1>1, <1>2, <1>5, RequestTypes DEF Request, Hit
<1>7. ~Apart(Hit, scan.size, {n}, start, size)
  <2>1. start[n] \in Int /\ size[n] \in Int /\ NodeEnd(n) = start[n] + size[n]
    BY <1>1, <1>2, NodeTypes DEF ApiInv
  <2>2. start[n] + size[n] > Hit /\ start[n] < Hit + scan.size
    BY <1>3, <2>1 DEF ScanSelects, Hit
  <2> QED BY <1>6, <2>1, <2>2 DEF Apart
<1>8. ~Abstract!Free(Promised, Request.size, {n})
  <2>1. {n} \in SUBSET allocated
    BY <1>1
  <2>2. ~Abstract!Free(Hit, scan.size, {n})
    BY <1>6, <1>7, <2>1, SeenFree
  <2> QED BY <1>5, <1>6, <2>2
<1>9. Abstract!Taken = allocated
  BY DEF Abstract!Taken
<1>10. Abstract!Evict(n)
  BY <1>1, <1>4, <1>5, <1>8, <1>9
     DEF Abstract!Evict, Abstract!Take, View, Request, Offered, Promised
<1> QED BY <1>10 DEF AbstractStep, Abstract!Next

(* The insertion after a scan gets what was asked for.                     *)
LEMMA InsertEvictStep ==
  ASSUME ScanInv, NEW n \in Node, InsertEvict(n)
  PROVE  AbstractStep
<1>1. /\ phase = "insert" /\ phase' = "done" /\ n \in Node \ allocated
      /\ InsertNode(n, scan.size, scan.alignment, scan.range_start, scan.range_end,
                    "EVICT", FALSE)
  BY DEF InsertEvict, MayInsert
<1>2. ApiInv /\ RequestOK /\ Stages
  BY DEF ScanInv, Progress
<1>3. /\ scan.size \in Nat /\ scan.size \in Int /\ scan.size > 0 /\ scan.alignment \in Nat
      /\ scan.range_start \in Int /\ scan.range_end \in Int
  BY <1>1, <1>2, RequestTypes
<1>4. PICK r \in SearchResults(scan.size, scan.alignment, scan.range_start,
                               scan.range_end, "EVICT", FALSE) :
        r # <<>> /\ Occupy(r[1], n, r[2], scan.size)
  BY <1>1 DEF InsertNode
<1>5. Quiet /\ Wanted(Hit) /\ Hit \in Int /\ Apart(Hit, scan.size, allocated, start, size)
  BY <1>1, HitIsFree
<1> DEFINE p == r[2]
<1>6. p \in Int /\ Apart(p, scan.size, allocated, start, size) /\ Wanted(p)
  <2>1. FALSE \in BOOLEAN /\ "EVICT" \in {"BEST", "LOW", "HIGH", "EVICT"}
    OBVIOUS
  <2> QED BY <1>3, <1>4, <1>5, <2>1, SearchIsSound DEF Wanted
<1>7. Occupy(r[1], n, p, scan.size)
  BY <1>4
<1> HIDE DEF p
<1>8. View' = [m \in allocated \cup {n} |->
                 IF m = n THEN [start |-> p, size |-> scan.size] ELSE View[m]]
  BY <1>1, <1>2, <1>3, <1>6, <1>7, OccupySeen
<1>9. p \in 0..PoolSize
  BY <1>3, <1>6, ApartInRange
<1>10. /\ Stage = "promised" /\ Promised = Hit /\ Offered = {} /\ Request.size = scan.size
  BY <1>1, <1>2 DEF Stages, Stage, Promised, Offered, Request, Hit
<1>11. Stage' = "idle" /\ Promised' = 0 /\ Offered' = {}
       /\ Request' = [size |-> 0, alignment |-> 0, range |-> <<0, 0>>]
  BY <1>1 DEF Stage, Promised, Offered, Request
<1>12. Abstract!Taken = allocated /\ Abstract!Fits(p, allocated) /\ Abstract!Fits(Hit, allocated)
  <2>1. Stage # "idle" /\ allocated \in SUBSET allocated
    BY <1>10
  <2>2. Abstract!Fits(p, allocated) /\ Abstract!Fits(Hit, allocated)
    BY <1>3, <1>5, <1>6, <2>1, SeenFits
  <2> QED BY <2>2 DEF Abstract!Taken
<1>13. Abstract!Fits(Promised, Abstract!Taken) /\ Abstract!Fits(p, Abstract!Taken)
  BY <1>10, <1>12
<1>14. Abstract!Give(n, p, Request.size)
  BY <1>8, <1>10, <1>12 DEF Abstract!Give, View
<1>15. Abstract!Meet(n, p)
  BY <1>1, <1>10, <1>11, <1>12, <1>13, <1>14
     DEF Abstract!Meet, Abstract!NoRequest, View, Request, Offered, Promised
<1> QED BY <1>9, <1>15 DEF AbstractStep, Abstract!Next

(* Every call is a step of the abstract allocator or none.                 *)
LEMMA NextStep ==
  ASSUME ScanInv, ScanInv', [Next]_vars
  PROVE  AbstractStep
<1>1. ApiInv
  BY DEF ScanInv
<1>2. CASE EndScan
  <2>1. phase = "done" /\ phase' = "idle" /\ View' = View
    BY <1>2 DEF EndScan, nodeVars, View
  <2>2. Stage' = Stage /\ Offered' = Offered /\ Promised' = Promised /\ Request' = Request
    BY <2>1 DEF Stage, Offered, Promised, Request
  <2> QED BY <2>1, <2>2, Stutters
<1>3. CASE UNCHANGED vars
  <2>1. View' = View /\ Stage' = Stage /\ Offered' = Offered /\ Promised' = Promised
        /\ Request' = Request
    BY <1>3 DEF vars, mmVars, apiVars, View, Stage, Found, Offered, Promised, Request
  <2> QED BY <2>1, Stutters
<1> QED BY <1>1, <1>2, <1>3, InsertStep, ReserveStep, FreeStep, ReplaceStep, ScanStep,
           AddBlockStep, GiveUpStep, UnwindStep, EvictStep, InsertEvictStep DEF Next

(* drm_mm is a RangeAllocator: it hands out free blocks only, a scan goes  *)
(* on only while all it has been offered gain nothing, what it then        *)
(* selects is in the way of the place it has found, and the insertion that *)
(* follows gets what was asked for.                                        *)
THEOREM RefinesRangeAllocator == Spec => ImplementsRangeAllocator
<1>1. Init => Abstract!Init
  <2> SUFFICES ASSUME Init PROVE Abstract!Init
    OBVIOUS
  <2>1. phase = "idle" /\ allocated = {}
    BY DEF Init, DrmMmInit
  <2>2. Stage = "idle"
    BY <2>1 DEF Stage
  <2> QED BY <2>1, <2>2 DEF Abstract!Init, Abstract!NoRequest
<1>2. ScanInv /\ ScanInv' /\ [Next]_vars => [Abstract!Next]_(Abstract!vars)
  BY NextStep DEF AbstractStep
<1> QED BY <1>1, <1>2, ScanInvariant, PTL
        DEF Spec, ImplementsRangeAllocator, Abstract!Spec
=============================================================================
