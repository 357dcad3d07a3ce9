# A verification of cma-pool-log

cma-pool-log replays a kernel log of the Raspberry Pi v3d driver on three
versions of a pool of contiguous memory and draws their state as a video. What
it is worth depends on the pools doing what the driver would do: a buffer laid
over another, a wanted buffer paged out before a purgeable one, or an overflow
that drifts would not be seen in the picture. This directory holds TLA+ models of the
pools, of the data structures below them and of the simulation that drives
them, the model-checking runs over these, and machine-checked proofs about both
pools, the range allocator, its interval tree and the simulation.

## The system

| Component | Code | State | Operations |
|---|---|---|---|
| CMA pool | `cma-pool-log.py`, `class Pool` | the dictionary `buffers`, `offset_list`, `mru_list`, `overflow` | `create`, `destroy`, `use`, `add_usecnt`, `remove_usecnt`, `madv`; page-in (first-fit, purge, page out the LRU buffer); compaction |
| drm_mm pool | `test-drm-mm/main.c` | `all_buffers`, `mru_buffers`, `overflow`, the allocator | the same commands, `dump`; page-in (insert, purge, insert, scan and evict, insert) |
| Range allocator | `test-drm-mm/drm_mm.c` | node list in address order, hole stack, trees of holes by size and by address, interval tree, scan in progress | init, insert in a range (best, low, high, evict, once), reserve, remove, replace, scan (init, add, remove), takedown |
| Lists | `linux/list.h` | | add, remove, replace, walks that survive a removal |
| Red-black trees | `rbtree.c`, `linux/rbtree*.h` | nodes, colours, augmented maximum, cached leftmost | insert, erase, rotate, first, next, prev, replace |
| Interval tree | `interval_tree_generic.h`, `drm_mm.c` | allocated nodes, largest end below each | add beside a hole, remove, replace, first interval in a range |
| ProcPool | `cma-pool-log.py`, `class ProcPool`; the input and output of `main.c` | the buffered pipe to the C program and the pipe back, the last answer, `overflow` | `process_command`, `paged_in_buffers` (dump, flush, read the answer) |
| Main loop and video clock | `cma-pool-log.py`, `main`, `class Video` | frame counter, position in the log, picture drawn last | read a line, draw and repeat frames up to its time, give it to the three pools, the frames at the end |
| Drawing | `cma-pool-log.py`, `draw_*` | none | reads the pools |
| Building, printing, compatibility headers | `ensure_test_drm_mm`, `drm_mm_print`, `linux/*.h` | none | |

How they interact. The main loop is single-threaded. It reads a line of the
log, draws as many frames as lie before its time stamp, and hands the command
to all three pools. The two `Pool`s are objects called directly, one with and
one without compaction. A `ProcPool` writes the command to a pipe; the C
program reads its end line by line, applies each command to its buffers and
calls the allocator. Only `dump` has an answer, of several lines. Each buffer of `main.c` embeds
the `drm_mm_node` that the allocator links into its own list, stack and trees,
so one free is a change in seven linked structures.

Where it is hard. Nothing runs concurrently but the two processes, which only
meet at the pipes: there, commands wait in buffers while frames are drawn, an
answer may be longer than the pipe holds, and either side may end before the
other. Elsewhere the difficulty is in the sequences. Every structure
trusts what earlier commands have left behind: first-fit that the list is
sorted, compaction that the neighbours are where they seem, the scan that its
blocks come back in the reverse order, the searches that a cached hole size is
current. Loops remove from the list they walk. Page-in consists of several
loops one after the other, and gives up only at the end of the last. Sizes,
offsets and overflow are unsigned and may wrap. `PROJECT.json` lists these
hazards by line with the properties aimed at each.

What makes each part correct:

* **CMA pool**: buffers lie apart and inside the pool; the three places that
  record membership agree; overflow is the size of what is paged out; what is
  pinned stays; purgeable buffers go first, then the one unused for longest;
  the program gives up only when nothing else could help; every command ends.
* **Range allocator**: no two nodes overlap; holes, their cached sizes and the
  trees describe the gaps of the list exactly; each search finds a place if the
  mode it is given can; a scan selects blocks whose removal makes the place it
  has found, and none it does not need.
* **drm_mm pool**: list, flags and allocator agree at each call; it keeps the
  allocator's rules; after eviction the insertion succeeds; at the end of the
  input the allocator is clean.
* **Trees**: search order, colours, equal black heights, exact augmentation.
* **ProcPool and main loop**: an answer reflects every command before it and is
  read to its end; the two programs never wait for each other; every frame shows
  the commands up to its time, in all three pools, which have the same buffers.

## The modules

| Module | Models |
|---|---|
| `Lists` | the operations of `list.h`, and of Python lists, on sequences |
| `BufferPool` | abstract: what a pool promises, however it looks for room |
| `CmaPool` | `class Pool`, commands and page-in step by step; implements `BufferPool` |
| `DrmMm` | `drm_mm.c`: the allocator's state and one operator per entry point |
| `RangeAllocator` | abstract: what the allocator promises its callers |
| `DrmMmApi` | the allocator driven by any caller that keeps its rules; implements `RangeAllocator` |
| `TestDrmMm` | `main.c` on top of the allocator; implements `BufferPool` |
| `MadvHistory` | `TestDrmMm` with a history of what the log has advised |
| `HoleOrder` | where a new hole goes in the order of either hole tree |
| `SortedHoles` | abstract: a tree of holes as a sequence in that order |
| `RbTree` | `rbtree.c` and its headers, rebalancing step by step |
| `HoleTree` | the two trees of holes; implements `SortedHoles` |
| `IntervalTree` | the augmented tree of allocated nodes |
| `ProcPool` | `class ProcPool`, the C program at the other end, and the two pipes |
| `Simulator` | the main loop and the video clock, on top of `ProcPool` |
| `MCCmaPool`, `MCDrmMmApi`, `MCTestDrmMm`, `MCHoleTree`, `MCIntervalTree`, `MCSimulator` | constants and symmetry for TLC |
| `ListsProofs` | lemmas about lists |
| `CmaPoolProofs` | theorems about the layout and the lists of the Python pool, the order of page-in and what compaction does; it implements `BufferPool` |
| `DrmMmProofs` | what each function of the allocator does to its list, its holes and its trees, and what its searches find |
| `DrmMmApiProofs` | theorems about the allocator under any legal caller; it implements `RangeAllocator` |
| `TestDrmMmProofs` | theorems about `main.c` on top of the allocator; it implements `BufferPool` |
| `RbTreeProofs` | what each operation and each round of rebalancing does to shape, order and colours, for any user of `RbTree` |
| `TreesProofs` | what follows from shape and colours about paths and walks, for any user of `RbTree`; theorems about the interval tree, its ends and its search, and about the trees of holes, their order and their searches |
| `SimulatorProofs` | theorems about the pipes and the video; the three pools stay alike |

`DrmMm` is extended by both `DrmMmApi` and `TestDrmMm`: the same operators run
once under all legal callers and once under the real one, which has to be
shown to be legal (`CallsAreLegal`).
`HoleTree` and `IntervalTree` extend `RbTree`. `DrmMm` and `SortedHoles` both
extend `HoleOrder`: what `HoleTree` is shown to implement is, operator for
operator, what the allocator's model uses in place of the trees. `CmaPool` and
`TestDrmMm`, which have no code in common, are both mapped to `BufferPool`.
`Simulator` composes the main loop with `ProcPool`, and keeps of each of the
three pools what decides whether they stay alike.

**CmaPool.** `buffers`, `mru_list`, `offset_list` and `overflow` are the
attributes of `Pool`; lists hold ids instead of references. A command that
needs no room is one action. `create` and `use` start page-in, whose loops run
as separate actions: `Insert` (an attempt that succeeds), `StartPurge`,
`PurgeOne`, `EndPurge`, `PageOutLru`, `Touch`. The failing attempt of the
`while` condition is part of the step that follows it. Asserts, `KeyError`,
the `TypeError` of comparing `None` and the exception of a pool that cannot
make space set `raised`, after which nothing moves. `recency` is a history
variable: the buffers in the order of creation or last use. `DriverLog`
restricts `add_usecnt` to buffers in the pool, which is what the driver's log
has (a command buffer in flight refers to memory that is there) and the
program trusts; it is needed by one property only.

**DrmMm.** A node is a model value; `next` and `prev` form the address-ordered
ring around `HeadNode`, `start` and `size` are the node's fields, `hole_size`
is the cached size of the hole behind it. `hole_stack` is the stack of holes.
The two trees are represented by the sequence of their in-order walk, which is
what every user of them sees: insertion at equal keys follows the comparison
the code makes. `find_hole` descends without ordering between exact matches,
so where it comes out depends on the tree's shape: `FindHole` is the set of
nodes some shape can give. Alignment, `u64` wrap-around and the range are
taken as in the code. `scan` is `struct drm_mm_scan`. An assertion is a guard
`May...`, used by a caller that keeps it or tested by one that may not.

**TestDrmMm.** `pc` names the point `page_in_buffer` or `main` has reached,
`at` the item a list walk will look at next, held across a removal as the safe
list walks do. `eviction_list` is the list that the scan fills. A failing
`BUG_ON` sets `aborted`. `overflow` is a `size_t`. `buf_madv` returns in the
first round of its loop whatever the word, and is modelled so; hence no buffer
of this model is ever purgeable and the removing branch of `PurgeStep` is never
taken, as in the program.

**RangeAllocator.** What a caller of `drm_mm` may rely on: a block handed out is
free, a scan goes on exactly as long as the nodes offered to it would make no room
for the request, what is then in the way of the place promised, and nothing else,
is evicted, and the request is met. Of `DrmMmApi`, insertion, reservation, removal and
replacement map to a step each; of a scan, taking nodes out of the list and putting
them back maps to nothing but the offers, so it has to leave blocks as they were. `promise`
is `hit_start`; the block may come to lie elsewhere, since the insertion that
follows is free to take another hole.

**BufferPool.** A set of buffers, some with a place. A buffer that waits for a
place is given free space; others are paged out only once it has been found that
there is none (`Crowd`), pinned ones never; it is refused only when pinned buffers
alone leave no room. Which of the others goes first, and which of several places
is taken, is left open: the two pools differ there. A usecnt that goes may move
the buffer down into free space if `Compact`, be it unmoveable or not, since
that is what the code does. `CmaPool` maps its `offset` to `start`, and its loops to
stutters until one of them changes the pool. `TestDrmMm` does likewise with the
places of the allocator's nodes; a scan takes nodes out and puts them back without
a step of the abstract pool. The latter implements it for buffers that are
not empty: an empty one ends in an assertion.

**ProcPool.** `written` is Python's buffer for the pipe, `to_c` and `from_c` are
the two pipes, all of bounded capacity and counted in lines; `call` says where a
call of `paged_in_buffers` stands, `parts` is the answer read so far, `answer` the
cached one. `c`, `c_buffers` and `reply` are the C program: what a command makes
of its account of buffers (a refused command only prints a message), and the
lines of a dump it has not got rid of. Which buffers are paged in is left open,
since `TestDrmMm` says it; so is whether an assertion fails while one is paged
in, in which case what is in the pipe is lost and Python finds out at its next
write or read. `overflow` is given as the number of commands applied when it was
computed, which shows how old it is. The C program reads names modulo `NameSpace`
(2^32).

**Simulator.** `pc` says where the main loop is. `times` are the time stamps read
so far; they may repeat and go back. `applied` counts the commands given to each
pool, and a picture is three such counts, the third taken from the C program's
answer: hence a frame shows exactly how far each pool was. `frames` is the video.
`Clock` divides with truncation as the code does. A `Pool` is the buffers that
exist and which are in use; an assert, a `KeyError` and a lack of room are one
action, `PoolRaises`, which ends the loop between two pools. `collided` is a
history variable: two buffers with the same lower 32 bits have existed at a time.

**RbTree.** `tree` holds the root, the cached leftmost node, and per node the two
children, the parent, the colour and the augmented end. Linking a node in and
taking one out are one action each; after that every round of the loops of
`__rb_insert` and `____rb_erase_color` is a step (case 1 of the latter, which
stays in its round, is a step of its own), so the loop invariants in their
comments can be stated at the loop heads: `node`, `parent` are the loops'
variables, `pc` says which loop runs. The code has each case twice, mirrored; the
model has it once, with a side `d`. Fields of a node in no tree, which the code
leaves as they are and sets before reading them, are reset, which keeps states
apart only where they differ. Keys and intervals are constants of a node, since
they do not change while it is linked in; a hole that changes leaves and
enters as another node. `HoleTree` adds the descents of `insert_hole_size`,
`RB_INSERT`, `best_hole` and `find_hole`; `IntervalTree` those of
`drm_mm_interval_tree_add_node` and the interval search.

An operator headed *Mistaken* is a plausible error in the definition below it
(a dropped guard, a wrong end, an index moved on). No specification uses it.
Put in that definition's place it breaks the property paired with it in
`PROJECT.json`, which shows that the property has something to say.

## What is checked

| Run | Instance | Result |
|---|---|---|
| `cma_pool_basic` | 4 buffers, sizes 1 and 2, pool 3, no compaction, any log | accounting, order of purge and eviction, giving up, pinned buffers stay: hold |
| `cma_pool_compact` | 3 buffers, sizes 0, 1, 3, pool 4, compaction, driver's logs | layout, snug compaction, a buffer in use is in the pool (no `TypeError`), the pool implements `BufferPool`: hold |
| `cma_pool_live` | 3 buffers, pool 3, compaction, fairness | every command ends: holds |
| `cma_pool_unmoveable` | 3 buffers, pool 3, compaction, driver's logs | unmoveable buffers keep their place: **violated** |
| `drm_mm_api` | 4 nodes, pool 6, `u64` up to 7, sizes 1 to 3, alignments 0, 2, 3, two ranges | structure, searches, reservation, room after a scan, the allocator implements `RangeAllocator`: hold |
| `hole_tree` | either tree; 8 places, sizes from 1 to 3, up to three holes of one size | the best-fit search ends at the last of equal holes, the search by address next to it; the tree implements `SortedHoles`: hold |
| `interval_tree` | 10 intervals, one of them under two nodes | colours and black heights between calls, the loop invariants of insertion and erasure, no subtree lost, walks either way, cached first node, exact ends in every step, the interval search: hold |
| `test_drm_mm` | 4 buffers, sizes 1 and 2, pool 4 | `main.c` and allocator agree, calls are legal, eviction makes room, clean at the end, the program implements `BufferPool`: hold |
| `test_drm_mm_pages` | 3 buffers, sizes 0, 1, 5, 6, pages of 2, pool 5, words up to 7, fairness | exact overflow, only bad sizes abort, every command ends: hold |
| `test_drm_mm_abort` | 2 buffers, sizes 0, 1, 4, pool 3 | assertions never fail: **violated** |
| `madv_history` | 3 buffers, sizes 1 and 2, pool 3 | what is not needed goes first: **violated** |
| `simulator` | logs of up to 4 lines, 3 names of which two share their lower part, pipes of one line, a buffer of two, fairness | answers are read to their end, frames show the log, lead-in and last second, the pools agree, both programs end: hold |

*Bounds.* Except in `Simulator`, no action has a bound of its own: state is finite
because ids, sizes and the pool are. Logs are therefore unlimited in length. Three buffers
are the fewest with a neighbour on either side; with four, sizes 1 and 2 and a
pool of 3 or 4, page-in has to evict several buffers for one, skips pinned
ones in any position, and finds the free space in pieces none of which is
large enough. Size 0 and sizes equal to the pool, larger than it, and no
multiple of the page are covered by runs of their own. In `drm_mm_api` a `u64`
holds 3 bits and the pool is 6, so that sums near the end wrap, and the ranges
include one that cuts through holes. In `test_drm_mm_pages` the sizes add up to
much more than a word can hold. The trees are built and torn
down in every order their nodes allow. Ten nodes are what it takes for
`____rb_erase_color` to go round its loop with a node that is not `NULL`.
Buffers are interchangeable, so the safety runs
use symmetry over them; the liveness runs do not. In `simulator` the log is
bounded by `MaxLines`: four lines are two that are due together between two that
are not, with a create, a second one of the same lower name, and two commands
on either. Time stamps go back by 1, repeat, or go on by 3, which is more than a
frame lasts (a second is 5 units and 2 frames, so the clock is rounded). A pipe of one line
and a buffer of two make both programs block at every point where they can: an
answer is always longer than its pipe, and commands pass the pipe before, in and
after a flush.

*Fairness.* `WF(PageIn)`, and `WF(PageIn \/ End)` in `main.c`: between two
lines of input a single-threaded program executes its next statement, and
after the end of the input it runs to its exit. In `Simulator`, `WF(Main)` and
`WF(CProgram)`: two operating system processes, each of which goes on unless it
is blocked on a pipe; nothing is assumed about which goes first, and the log is
a file that ends. Nothing is assumed of the
log: commands need not come. Page-in has at each point at most one
enabled step, so weak fairness of the disjunction is all that is needed. That
the rebalancing of a tree ends is not stated as a liveness property: its loops
climb, which the depth of the complete state graphs (finite, no deadlock) is no
proof of.

*Deadlock.* The pools really stop (an exception, a failed assertion, the end
of the input), and so does the simulation, so their runs do not check deadlock;
that the two processes do not block each other is part of `SimulationEnds`. `drm_mm_api` does: some
call is always open to a legal caller, in the middle of a scan too, so that
unwinding a scan in the reverse order never meets a failing assertion. So do the
runs of the trees, where a rebalancing without a next step would be noticed.

## What is proved

The Python pool, for every set of ids, sizes, pool size, with compaction or
without, and logs of either kind; the assumption is `ConstantsOK`, and those
named in the table.

| Theorem | Statement |
|---|---|
| `PoolInvariant` | `Spec => []IInv` |
| `TypeCorrect`, `LayoutCorrect`, `ListsCorrect`, `EmptyAtBottomCorrect` | the invariants of these names |
| `PinnedStayCorrect` | a pinned buffer leaves the pool only by being destroyed |
| `OverflowCorrect` | `overflow` is the total size of what is not in the pool |
| `InUseStillCorrect` | a buffer in use does not move |
| `UnmoveableStillCorrect` | nor does an unmoveable one, without compaction |
| `PageInInvariant` | `Spec => []PInv` |
| `PurgeFirstCorrect` | purgeable buffers that can go have gone before others are paged out |
| `EvictsLruCorrect` | what is paged out is the buffer unused for longest of those that may go |
| `GivesUpCorrect` | page-in fails only when all that is left is pinned and no gap is large enough |
| `InUseInPoolCorrect` | a buffer in use is in the pool, for logs of the driver (`DriverLog`) |
| `CompactsSnuglyCorrect` | with `Compact`, a buffer that is moved ends at 0 or at its neighbour's end |
| `RefinesBufferPool` | `Spec => ImplementsBufferPool` |

The inductive invariants are

    IInv == TypeOK /\ LayoutOK /\ ListsAgree /\ SearchState /\ EmptyAtBottom
    PInv == IInv /\ RecencyOK /\ PurgePast /\ MruOrder /\ GivesUpOnlyWhenPinned

`LayoutOK` alone is not inductive, for three reasons. Insertion changes
the offset of `cur`, so `cur` must not be in the pool while page-in looks for
room, and must be in it at `touch`: `SearchState`. Removal takes a buffer out of
both lists, which keeps them in agreement only if each holds it exactly once:
`ListsAgree`. Compaction stops at the first buffer whose offset is not
lower. A buffer of size 0 that shares its offset with the one to be moved would
stop it too early or let it pass; such a buffer can only be at offset 0, where
it stops nothing: `EmptyAtBottom`, which in turn holds because first-fit tries
the lowest gap first and a size of 0 always fits.

`PInv` adds what the order of page-in rests on. Buffers behind the index of the
purge loop are not purgeable, though the loop removes from the list it indexes
(`PurgePast`); `recency`, the order of creation or last use, lists the live
buffers once each (`RecencyOK`), and `mru_list` is in that order (`MruOrder`).

The argument. `ListsProofs` has the facts about sequences: what removal,
insertion and prepending do to membership, order and distinctness, and that a
non-empty set of positions has a greatest and a least one. In `CmaPoolProofs`
the lemmas `ListsRemove`, `ListsInsert` and `ListsCompact` carry the layout
over the three ways in which the pool changes, given `GapHasRoom` (the space
first-fit finds lies between its neighbours) and `LowerEndIsAbove` (compaction
finds the end of the nearest buffer below). One lemma per action shows that it
preserves `IInv`. The action properties follow from `StepHandles`: each step
treats every buffer that survives it in one of a few ways (`Handled`), none of
which moves or removes one that must stay. For `GivesUpOnlyWhenPinned` and for
the refinement first-fit has to be complete as well: `FreePlaceIsInGap` finds,
for any place that is free, a gap of the list it lies in. The refinement then has one lemma
per action, which names the abstract step or the stutter it is.

`OverflowExact` speaks of a fold over a set, defined by recursion over its subsets.
`SumIs` says in place of it that some enumeration of the set has the total for its last
partial sum. Such an enumeration exists, and all have the same total, since a smallest
set without one, or with two, could not be without its last element (`SumExists`,
`SumIsUnique`); hence the fold is this total (`FoldIsSum`), and changes by what is added to the
set or taken out of it (`TotalWith`, `TotalWithout`), which is all that the actions need.

The allocator, for every set of nodes, size of the range and width of a `u64`,
and whatever sizes, alignments and ranges its callers ask for; from
`DrmMmConstants` and `DrmMmApiConstants`, which say that sizes are positive and
that a range is not empty, which the assertions of a scan and of an insertion demand.

| Theorem | Statement |
|---|---|
| `ApiInvariant` | `Spec => []ApiInv` |
| `NoOverlapCorrect` | no two allocated nodes meet, none leaves the range |
| `ListInOrderCorrect` | the node list is in address order, and complete but for what a scan has taken out |
| `HolesExactCorrect` | with no scan under way, stack and both trees hold exactly the gaps, under their true sizes |
| `ReserveIsRightCorrect` | a reservation is refused only if part of the block is taken or outside the range |
| `SearchIsRightCorrect` | a search fails only if there is no place, and finds the lowest, the highest, or one in a smallest hole |
| `ScanInvariant` | `Spec => []ScanInv` |
| `EvictionSufficesCorrect` | once the nodes a scan selects are gone, the block it was for fits |
| `FreedBlockOnTopCorrect` | `Spec => FreedBlockOnTop`: the first hole that `EVICT` looks at will do |
| `RefinesRangeAllocator` | `Spec => ImplementsRangeAllocator` |

    ApiInv == /\ InScan(roster)
              /\ phase \in Phases
              /\ phase \notin {"scan", "unwind"} => roster = <<>>
              /\ ScanType
    ScanInv == ApiInv /\ RequestOK /\ NothingYet /\ HitOK /\ Stages

The three invariants are not inductive even together: while a scan is on they say
nothing of the links kept by the nodes it has taken out, nor that the holes are the
gaps there were. The list between two calls is a `Ring`: linked both ways
through the allocated nodes and `head_node`, each followed by the nearest node above it. `GapIsFree` is the step from this local
order to all of the range: a block in the gap behind a node meets no other node,
however far away in the list. `OccupyKeeps`, `RemoveKeeps` and `ReplaceKeeps` carry ring, stack and
trees (`Holds`, `BySize`, `ByAddr`) over the three ways in which the allocator
changes; that a hole goes into its tree at the right place is `InsertedBySize` and
`InsertedByAddr`, which rest on `PrefixCount`, since the place is the number of
holes that belong before it.

A scan takes nodes out of the list and leaves their own links alone. `InScan`
says that there is a list for each length of the roster, from the one before the
scan to the present one, each a ring, each but the first without one node more, and that
this node's links are those it had in the list before. Putting the last one back
therefore restores the list before it (`BackAgain`), and at the end of the
unwinding the allocator is what it was. The holes, which a scan does not touch, are
the gaps of the list before it throughout.

Insertions need that a search returns room: `SearchFindsRoom`, in all modes, with
the walk along a tree by size, by address from either end, along the stack, and
once or until the end, whichever neighbour `find_hole` comes out at. For a reservation
it is `ReserveFindsRoom`; an end that wraps past 0 comes out below the start, and is
refused (`ReserveEndWraps`).

That searches miss nothing is the other direction. A free block lies in the gap behind
the node that ends last of those that end before it (`FreeBlockIsInGap`), that gap is
a hole, and rounding to the alignment passes over no aligned place
(`AlignedIsComplete`). Two holes never touch (`HolesApart`), so their order by address is
that of their ends too, and wherever `find_hole` comes out, no hole with room is left
out of the walk that begins there (`FindHoleSides`, `WalkReaches`). `SearchBeats`
compares what is found with any other place.

A scan looks at one gap at a time, and at no list but the one without the nodes it
has taken out. `NothingYet` says that this is enough: by `PlaceOverNode`, a place that
the removal of a node opens is in the way of that node and therefore lies between
its neighbours, where the scan has looked. `HitOK` follows the place it
has found: what is in its way is still on the roster or has been selected. When the
roster is empty and the selected nodes are gone, the place is free; by
`SearchBeats` the insertion finds a place, and by `LastEvictOnTop` there is one in
the hole that the last removal has pushed. For the refinement one lemma per call
names the abstract step; `SeenFree` and `SeenFits` say that free means the same
to both.

`main.c` on top of the allocator, for every set of buffers, sizes, page size, size of
the pool and width of a `size_t`, from `TestDrmMmConstants` and `DrmMmConstants`:

| Theorem | Statement |
|---|---|
| `RunInvariant` | `Spec => []IInv` |
| `PagedInCorrect` | flag, mru list and allocator agree on what is paged in, its size and its alignment |
| `CallsAreLegalCorrect` | no call ever meets a failing assertion of `drm_mm`, other than for a bad size |
| `ScanStopsCorrect` | the scan stops at the first buffer with which there is room, no sooner, no later |
| `EvictionMakesRoomCorrect` | after an eviction the third attempt succeeds |
| `AbortsOnlyOnBadSizeCorrect` | only a size of 0, or one larger than the pool, ends the program |
| `OverflowCorrect` | `overflow` is the total size of what is paged out, modulo the width of a `size_t` |
| `CleanAtTakedownCorrect` | at the end: one hole, an empty list, no overflow |
| `RefinesBufferPool` | if no size is 0, `Spec => ImplementsBufferPool` |

    IInv == TypeOK /\ PoolOK /\ RunOK

None of these properties is inductive, and together they are not either: between two
steps of a loop the truth is in how far the loop has come. `PoolOK` says what holds
throughout, that program and allocator have the same buffers. `RunOK` says, for each value of
`pc`, which part of the mru list has been scanned (`Walked`: what is behind the walk
and not pinned is the eviction list, which is the allocator's roster), which part of the eviction
list has come off the scan again (`Unwinding`) or has been evicted (`Parted`), and what is known
of the place that is looked for: none yet (`~RoomFor`), or one that is clear of
everything but the eviction list (`Promised`). A bounded form of it was
checked by TLC before the proof. Of the allocator it needs the facts of
`DrmMmProofs` alone: that a scan is a stack of rings (`InScan`), that what an offer opens lies
over the node offered, that a node which is not selected is clear of the place. These lemmas
are shared with `DrmMmApiProofs`, where any legal caller uses them; here the calls are
shown to be legal.

`OverflowCorrect` uses the same sums as the Python pool. The account wraps in either
direction, so the invariant is about remainders; `WholeTurns` and `WrapAgain` say that
a wrapped summand changes nothing. For the refinement `FreeMeans` shows that the abstract
pool and the searches mean the same by free space. An empty buffer has
room anywhere in the abstract pool, but `drm_mm` refuses it, hence the assumption about sizes.

The simulation, for every set of names, sizes of pipes and buffer, log, time
stamps, frame rate and unit of time, from `ProcPoolConstants`, `NoneIsNoCommand`
and `SimulatorConstants`:

| Theorem | Statement |
|---|---|
| `SimulatorInvariant` | `Spec => []SimInv` |
| `SimulatorTypes` | type correctness |
| `NoAnswerUnreadCorrect` | an answer is read to its last line before anything else is sent |
| `FramesShowLogCorrect` | every frame shows the log up to the first line later than it |
| `LeadInAndOutCorrect` | a second of empty pools first, a second of the last state at the end |
| `AgreeInvariant` | `Spec => []AgreeInv` |
| `PoolsAgreeCorrect` | whenever a frame has been drawn, the three pools have the same buffers, the same ones in use |

    SimInv == TypeOK /\ InHand /\ Drawn /\ PipeInv /\ VideoInv
    PipeInv == Calls /\ Questions /\ Answers /\ Count
    VideoInv == Position /\ Due /\ FramesInv /\ Repeats
    AgreeInv == SimInv /\ Lines /\ Current /\ InStep

Types alone are not inductive: that the first line of an answer is the overflow
has to be known to give `overflow` its type. `Questions` says that a dump is the
last line on its way and the only one, `Answers` that an answer comes after it,
begins with the overflow and ends with the only brace, across the C program's
output, the pipe and what Python has read. `Count` relates the two ends: the
commands given to the pool are those the C program has applied and those on
their way, so the overflow of an answer is that of the present.
`Position` and `Due` say how far each pool and the clock are at each point of
the main loop; `FramesInv` needs, besides what is claimed of a frame, that
only the last frames show the whole log, since any other would be wrong when a line
is added to it. `ClockReached` shows that truncating the clock to whole
units loses nothing.

`InStep` is what makes the pools agree although the C program lags behind: the
commands in the pipe and in Python's buffer for it lead from the C program's
buffers to those of the two Pools. A run of commands is told by the states it
passes through (`Leads`) rather than by a fold, so that its first command can be
taken off (`LeadsTail`, the C program reads a line) and one added to it
(`LeadsAppend`, Python writes one) without induction. `AlikeAfter` compares one
command on both sides. `Lines` and `Current` say that the lines of an answer are
true of the C program's buffers, and stay so while the answer is kept, because
then nothing is on its way.

The interval tree, for every set of nodes and whatever their intervals, with one
base case and one step for each operation and each round of a rebalancing, from
`RbTreeConstants` and `IntervalTreeConstants` (no interval ends before it starts):

| Theorem | Statement |
|---|---|
| `TreeInvariant` | `Spec => []TreeInv` |
| `RedBlackCorrect` | the red-black rules between two calls; the invariants of both loops in every round |
| `LinksAgreeCorrect` | children and parents agree; `rb_next` and `rb_prev` walk in order; the cached leftmost node is the first |
| `EndsInvariant` | with `Augmented`, `Spec => [](TreeInv /\ LocalEnds(tree))` |
| `AugmentExactCorrect` | with `Augmented`, the end kept with a node is that of the last interval at or below it, in every round of a rebalancing too |
| `IterFirstCorrect` | with `Augmented`, the search finds the first interval that meets the range, if any does |

    TreeInv == \E below, hb : TreeOk(tree, below) /\ Loops(tree, pc, node, parent, hb)
    TreeOk(t, below) == /\ Shape(t, below) /\ FirstIs(t, below, t.leftmost)
                        /\ Ordered(t, below, IntervalOrder)

Both properties speak of paths, which are recursive functions of the tree: how long, how
many black nodes, which node comes next. `TreeInv` says the same locally, with two
witnesses. `below` gives each node its set of descendants: itself, and those of its two
children, which share none (`Shape`). `hb` gives it the number of black nodes
on any way down from it, which is that of either child and its own (`Paths`); during an erasure
one is missing on one side of `parent`. A rotation changes either witness at two nodes,
however large the tree is. The witnesses cannot be dropped: pointers that agree with
each other everywhere (`Links`) still allow a ring of nodes apart from the tree, which is what
`below` excludes, since no node is below its own child.
`Loops` is the loop invariant of `__rb_insert` (`node` is red, and is the only node
that may be red below a red one) and of `____rb_erase_color` (nothing is red below red, and
the ways out below `node` lack one black node).

For each operation there is a relation between the tree before and after it, field by
field: `Turned` for a rotation, `Removed` for a node with at most one child, `Added` for a leaf,
`Swapped` for a renaming. The code reaches them pointer by pointer and in an order of
its own. `TurnOnce` and `TurnHalf` show that its steps come to such a
rotation, the second for the first of two rotations, which leaves pointers behind that
the second one sets. An erasure of a node with two children is the removal of its
successor and then a renaming (`InnerSwap`), so that shape, order and colours follow from what is
known of either. `RebalanceKeeps`, `EraseKeeps` and `ReplaceKeeps` are the steps of `RbTree`, for
any transitive order; the place of a new node is that of `IntervalTree` (`PlaceFound`,
`PlaceInOrder`, `LeftmostPlace`).

The properties are then read off the invariant in every state. `LowestOf` and `HighestOf` take
the place of induction over a tree: a set of nodes that is not empty has a lowest and a highest
one. A recursive function has to be shown to satisfy its own
equation first; `Recursion` does so once, for values that depend on places of lower rank
only, with the sizes of subtrees for ranks. `BlacksAtExit` counts the black nodes of a way
out, `PathLengths` compares its length with them, and `WalksFit` says that the in-order walk
of a subtree is a run of neighbours between its outermost nodes.

The ends need the callbacks of `INTERVAL_TREE_DEFINE`, which `Augmented` stands
for: `RbTree` is also used without them, by the trees of holes. The invariant is again local: `LocalEnds` says that each end is the largest of
the node's own and those of its children, and `EndsAreLocal` that this is the same as the largest
below it. `Propagate` is a fold over the way up that does nothing once it has met
a node that need not change; `LocalEnds` holds but for one node of that way at a time, and where
it stops for none (`StepMends` has one case for each action, with `TurnKeepsEnds` for the
rotations). At an insertion `Raise` stops at the first end that is far enough, which it may because the ends
further up are no smaller. `IterFirstHolds` follows the search down: it keeps to subtrees
that hold the first match if there is one, and it may leave out the right subtree when the end of the
left one reaches the range, because a match on the left that starts too late puts everything on
the right later still.

The trees of holes, for every set of nodes and whatever the sizes and places of their holes;
from `RbTreeConstants` and `HoleTreeConstants` (no hole has size 0):

| Theorem | Statement |
|---|---|
| `HoleInvariant` | `HoleSpec => []HoleInv` |
| `HoleRedBlackCorrect`, `HoleLinksAgreeCorrect` | the rules, loop invariants and links as for the interval tree; the cached leftmost node is the first hole |
| `HoleTreeRefines` | `HoleSpec => ImplementsSortedHoles` |
| `SearchesCorrect` | `best_hole` ends at the last of the holes that are large enough, `find_hole` at one with the address or next to it |

    HoleInv == /\ by_size \in BOOLEAN
               /\ \E below, hb : /\ HoleOk(tree, below, by_size)
                                 /\ Loops(tree, pc, node, parent, hb)
    HoleOk(t, below, size) == /\ Shape(t, below) /\ FirstIs(t, below, t.leftmost)
                              /\ Ordered(t, below, KeyOrder(size))

`InsertPlace` follows the way down to the place of a new hole, and `InsertAdds` puts a leaf
there; the other steps are those of `RbTree`. `KeyOrder` does not tell apart holes
of one size, so for the refinement it says too little. But `InsertAdds`, `EraseKeeps`,
`ReplaceKeeps` and `RebalanceKeeps` hold for any order of the nodes, and so for the one in which
the walk had them before the step (`ListOrder`): a rebalancing keeps the tree in that order, an
insertion brings it into the order of the sequence with the new hole put in behind all that it
is not to go to the left of (`InsertedOrder`, `BehindsAre`), and so on. `OneOrder` says that
a tree in the order of a sequence of its nodes has that sequence for its walk; the step is
then the one of `SortedHoles`. Neither search can be followed by the sizes alone either: `LastFit`
says where `best_hole` has come to by the order of the walk, and `Nearest` what `find_hole`
may still miss below a node, which is nothing that has the address or lies nearer to it.

Only model-checked: that a legal caller of the allocator is never stuck (deadlock). Out of the prover's reach: `CommandEnds` and `SimulationEnds`
(liveness under fairness), and what a recursive definition computes for every input
(induction over data), but where a smallest counterexample does the work, as for totals
and trees.

## What the models show about the code

* **Compaction moves unmoveable buffers.** `_buf_remove_usecnt` calls
  `_compact_buffer` without looking at `unmoveable`, although the README says
  that such a buffer cannot be moved. The binning buffer of the log is
  unmoveable and used by command buffers. Run `cma_pool_unmoveable`.
* **A bad size ends the C program.** `page_out_buffers_for_insertion` hands the
  size to a scan whose assertion refuses 0 and anything larger than the range;
  the message the program has for a buffer that does not fit is not
  reached. Run `test_drm_mm_abort`; `AbortsOnlyOnBadSize` shows there is no
  other way into an assertion.
* **`madv dontneed` has no effect in the C program.** The `return` in `buf_madv`
  is behind the `if` instead of in it. The third pool of the video pages out
  buffers that the other two would keep. Run `madv_history`.

* **Names are narrowed in the C program.** Python keeps the whole address of a
  buffer, `main.c` 32 bits of it, as an identifier. Two live buffers that
  differ in the upper half only are one buffer to the C program: the second
  create is refused with a message, and destroying one of them destroys both.
  `PoolsAgree` therefore holds for logs in which this does not happen (`~collided`)
  and not for others; the addresses of a 32-bit kernel cannot collide.

## The plan

Done: the Python pool, the allocator, what it promises its callers
(`RangeAllocator`), `main.c` and the abstract pool that both pools implement, the pipes and the main
loop, and the trees, with proofs of all the safety properties and refinements that their runs
check.

Left: to replace the sequences of `DrmMm` by the trees themselves, which `HoleTreeRefines` would
justify, is of no use for the properties above and too large for TLC.

## Not modelled

`iter_next`, postorder and RCU walks of the trees, which nothing calls; drawing,
which only reads; building the C program; waiting for ffmpeg, which reads frames
and answers nothing; printing and debugging code of `drm_mm`, which has no state or
is compiled out; parsing of lines, beyond the narrowing of names and the skipping
of lines that are no commands, which change nothing; `color_adjust`, which is always NULL here.
