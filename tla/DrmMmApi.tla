----------------------------- MODULE DrmMmApi -----------------------------
(***************************************************************************)
(* The allocator of DrmMm under every caller that keeps to its rules: any  *)
(* sequence of insertions, reservations, removals and replacements, and    *)
(* scans as the comment "lru scan roster" in drm_mm.c lays down, where the *)
(* nodes put on the roster are taken off in the reverse order, those       *)
(* selected are removed, and the node the scan was for is inserted.        *)
(***************************************************************************)
EXTENDS DrmMm

CONSTANTS
  Sizes, Alignments,  \* what callers ask for
  Ranges              \* pairs of a range_start and a range_end

ASSUME DrmMmApiConstants ==
  /\ Sizes \subseteq 1..U64Max
  /\ Alignments \subseteq Nat
  /\ Ranges \subseteq (0..U64Max) \X (0..U64Max)
  /\ \A r \in Ranges : r[1] < r[2]

VARIABLES
  phase,   \* idle, scan, unwind, evict, insert or done
  roster,  \* the scanned nodes, last one first
  victims  \* the nodes the scan has selected and that are still allocated

apiVars == <<phase, roster, victims>>
vars == <<mmVars, apiVars>>

Modes == {"BEST", "LOW", "HIGH", "EVICT"}

Init == DrmMmInit /\ phase = "idle" /\ roster = <<>> /\ victims = {}

Insert(n) ==
  /\ phase = "idle" /\ MayInsert(n)
  /\ \E x \in Sizes, a \in Alignments, r \in Ranges, m \in Modes, once \in BOOLEAN :
       InsertNode(n, x, a, r[1], r[2], m, once)
  /\ UNCHANGED apiVars

Reserve(n) ==
  /\ phase = "idle" /\ MayInsert(n)
  /\ \E p \in 0..U64Max, x \in Sizes : ReserveNode(n, p, x)
  /\ UNCHANGED apiVars

Free(n) ==
  /\ phase = "idle" /\ MayRemove(n)
  /\ RemoveNode(n)
  /\ UNCHANGED apiVars

Replace(old, new) ==
  /\ phase = "idle" /\ MayRemove(old) /\ MayInsert(new)
  /\ ReplaceNode(old, new)
  /\ UNCHANGED apiVars

Scan ==
  /\ phase = "idle" /\ allocated # Node
  /\ \E x \in Sizes, a \in Alignments, r \in Ranges, m \in Modes :
       /\ MayScan(x, r[1], r[2])
       /\ ScanInit(x, a, r[1], r[2], m)
  /\ phase' = "scan"
  /\ UNCHANGED <<roster, victims>>

AddBlock(n) ==
  /\ phase = "scan" /\ MayScanAdd(n)
  /\ ScanAddBlock(n)
  /\ roster' = ListPrepend(roster, n)
  /\ phase' = IF ScanHit(n) # {} THEN "unwind" ELSE phase
  /\ UNCHANGED victims

(* The caller has nothing more to offer. *)
GiveUp ==
  /\ phase = "scan"
  /\ phase' = "unwind"
  /\ UNCHANGED <<mmVars, roster, victims>>

RemoveBlock ==
  /\ phase = "unwind" /\ roster # <<>>
  /\ MayScanRemove(roster[1])
  /\ ScanRemoveBlock(roster[1])
  /\ roster' = Tail(roster)
  /\ victims' = IF ScanSelects(roster[1]) THEN victims \cup {roster[1]} ELSE victims
  /\ UNCHANGED phase

Found == scan.hit_end > 0

EndUnwind ==
  /\ phase = "unwind" /\ roster = <<>>
  /\ phase' = IF ~Found THEN "done" ELSE IF victims = {} THEN "insert" ELSE "evict"
  /\ UNCHANGED <<mmVars, roster, victims>>

Evict(n) ==
  /\ phase = "evict" /\ n \in victims /\ MayRemove(n)
  /\ RemoveNode(n)
  /\ victims' = victims \ {n}
  /\ phase' = IF victims = {n} THEN "insert" ELSE phase
  /\ UNCHANGED roster

InsertEvict(n) ==
  /\ phase = "insert" /\ MayInsert(n)
  /\ InsertNode(n, scan.size, scan.alignment, scan.range_start, scan.range_end,
                "EVICT", FALSE)
  /\ phase' = "done"
  /\ UNCHANGED <<roster, victims>>

(* The caller's struct drm_mm_scan goes out of use. *)
EndScan ==
  /\ phase = "done"
  /\ scan' = NoScan
  /\ phase' = "idle"
  /\ UNCHANGED <<listVars, nodeVars, holeVars, scanned, roster, victims>>

Next ==
  \/ \E n \in Node : \/ Insert(n) \/ Reserve(n) \/ Free(n)
                     \/ AddBlock(n) \/ Evict(n) \/ InsertEvict(n)
  \/ \E old, new \in Node : Replace(old, new)
  \/ Scan \/ GiveUp \/ RemoveBlock \/ EndUnwind \/ EndScan

Spec == Init /\ [][Next]_vars

-----------------------------------------------------------------------------
(* Invariants *)

(* A search that may look at every hole fails only if there is no place at *)
(* all; LOW returns the lowest, HIGH the highest, and BEST a place in a    *)
(* hole no larger than any other with a place in it.                       *)
SearchIsRight ==
  phase = "idle" =>
    \A x \in Sizes, a \in Alignments, r \in Ranges, m \in Modes :
      LET places == Places(allocated, x, a, r[1], r[2])
      IN  \A res \in SearchResults(x, a, r[1], r[2], m, FALSE) :
            IF places = {} THEN res = <<>>
            ELSE /\ res # <<>> /\ res[2] \in places
                 /\ m = "LOW" => res[2] = Min(places)
                 /\ m = "HIGH" => res[2] = Max(places)
                 /\ m = "BEST" =>
                      \A h \in Linked : hole_size[h] < hole_size[res[1]]
                        => places \cap HoleStart(h)..HoleEnd(h) - x = {}

(* A reservation is refused only if part of it is taken or outside the     *)
(* range, though find_hole may answer with a hole next to the address.     *)
ReserveIsRight ==
  phase = "idle" =>
    \A p \in 0..U64Max, x \in Sizes :
      ReserveFails(p, x) <=> p \notin Places(allocated, x, 0, 0, PoolSize)

(* Once the selected nodes are gone, the block the scan was for fits.      *)
EvictionSuffices ==
  phase = "insert" =>
    <<>> \notin SearchResults(scan.size, scan.alignment, scan.range_start,
                              scan.range_end, "EVICT", FALSE)

(* The space just made is on top of the hole stack, so the first hole      *)
(* EVICT looks at will do (drm_mm_scan_remove_block: "will then return the *)
(* just freed block (because it's at the top of the free_stack list)").    *)
FreedBlockOnTop ==
  [][phase = "evict" /\ phase' = "insert" =>
       ~InsertFails(scan.size, scan.alignment, scan.range_start, scan.range_end,
                    "EVICT", TRUE)']_vars

-----------------------------------------------------------------------------
(* Refinement *)

(* Between the scan and the insertion it was for, a place is promised.     *)
Stage ==
  IF phase = "scan" THEN "asked"
  ELSE IF phase \in {"unwind", "evict", "insert"} /\ Found THEN "promised"
  ELSE "idle"

Abstract == INSTANCE RangeAllocator WITH
  blocks <- [n \in allocated |-> [start |-> start[n], size |-> size[n]]],
  stage <- Stage,
  request <- IF Stage = "idle" THEN [size |-> 0, alignment |-> 0, range |-> <<0, 0>>]
             ELSE [size |-> scan.size, alignment |-> scan.alignment,
                   range |-> <<scan.range_start, scan.range_end>>],
  offered <- IF phase = "scan" THEN scanned ELSE {},
  promise <- IF Stage = "promised" THEN scan.hit_start ELSE 0

(* The allocator keeps its promises: every block it hands out is free; a   *)
(* scan goes on only while the blocks on its roster would make no room     *)
(* even together, and stops at one with which they do; those it then       *)
(* selects, after all have been put back, are the ones in the way and no   *)
(* others; and the insertion that follows succeeds with what was asked.    *)
ImplementsRangeAllocator == Abstract!Spec
=============================================================================
