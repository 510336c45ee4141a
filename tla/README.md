# CIDL: verification project

CIDL (`libawn.so`) finds duplicate writes by causality.  A program maps its
files with `ts_mmap`; when it copies bytes out of a mapping (`ts_memcpy`,
`ts_read`) the library records which file and offset the bytes came from; when
it writes a buffer (`ts_write`, `ts_fwrite`) the library looks the records of
that buffer up, compares the bytes with the files and counts what is the same.
Nothing is persisted.  What can go wrong is the bookkeeping: lists of records
read by code that relies on their order, pools that hand out the lists' parts,
a sweep that compacts them in place, counters that add up lengths, and a
comparison in assembly whose result feeds those counters.

The modules in this directory model that bookkeeping as it is in the build
`make all` produces: `BASE_VERSION` undefined, `DELETE_TREENODE` 1,
`BYTE_COMPARE` 0, `PATCH` 0, `USE_FMAP_CACHE` 0, `DEL_REALLOC_ADDR` 0,
assertions on.

## 1. The system

| Part | State | Operations | Where | Module |
|---|---|---|---|---|
| Pools | for each of five types a pointer array, an index, a size | `initMemory`, `allocate...`, `withdraw...` | mem.h, mem.c | PoolOps, Pool |
| Record tree, inserting | `recTreeRoot`: page number -> node; a node is a list of blocks of 38 records, the block being filled, the index in it | `insertRec`, `writeRec`, `addTreeNode` | awn.c, tree.c | RecNode, RecTree |
| Record tree, sweep | `RECTREENODETHRESHOLD` | `recTreeNodeGrabageReclaim` and what it calls | tree.c | RecNode, RecTree |
| Write comparison | two counters, `diffPos` | `ts_write`, `ts_pwrite`, `ts_fwrite`, `cmpWrite` | awn.c | TsWrite |
| Vector comparison | registers | `memcmp_avx2_asm` | memcmp-avx2-addr.S | Memcmp |
| File map | `fileMapTreeRoot`, `fileMapNameTreeRoot`, `openFileArray`, `FD2PATH` | `ts_mmap`, `ts_munmap`, `ts_open`, `ts_openat`, `ts_fopen`, `ts_close` | awn.c, tree.c | FileMap (RecTree has `openFileArray` for the sweep) |
| Copies from mapped files | `lastTs_memcpyFmNode`, `lastRec` | `ts_memcpy`, `ts_memcpy_withFile`, `ts_read` | awn.c | FileMap (the lookup, the positions), RecTree (what they insert) |
| Copies from traced memory | none of its own | `ts_memcpy_traced`, `ts_realloc` | awn.c | TracedCopy, Realloc |
| Baseline build | tree of address ranges | `make base`: `insertRec`, `ts_memcpy_traced`, `do_ts_write` | awn.c, tree.c | BaseRec |
| Threads | `recTreeMutex` | - | tree.c | - |
| Start-up, statistics, debugging, headers | counters | printing | statistics.*, debug.*, awn.h | - |

**How they interact.**  Everything is a call in the caller's thread.
`ts_memcpy` and `ts_read` find the mapping in the file map and call
`insertRec` once for each page they touch; `ts_memcpy_traced` and `ts_realloc`
walk the lists of the source pages and call `insertRec` for each record they
find.  `insertRec` finds the page's node or calls `addTreeNode`, which takes a
node, a list head, a block and its array from four pools, and, when nodes run
low, sweeps the whole tree first.  The sweep looks each record's descriptor up
in `openFileArray`, which `ts_mmap` and `ts_munmap` maintain.  `do_ts_write`
and the loop of `ts_fwrite` walk the pages of the buffer, the records of each
page in list order, and call `cmpWrite`, which compares with
`memcmp_avx2_asm` and moves `diffPos`, the address up to which the buffer is
settled.

**What is hard**, and what makes each part correct:

* *Pools.*  Long sequences of allocations, withdrawals and growth; a growing
  pool copies part of its pointer array.  No cell may be free and in use, in
  use twice, or lost, and the assertions may fail only by exhaustion.
* *Inserting.*  Block, index and `recModEntry` move together at the end of a
  block; a copy below the last offset restarts the list; a restarted list keeps
  old content beyond its index.  Readers leave a page early because they take
  its offsets to ascend, and take every block but `recModEntry` as full.
* *The sweep.*  It compacts lists with two cursors that do not do what they
  seem to (`return keeped++`), and removes nodes from the tree that `twalk` is
  walking.  It runs inside an insert into an unrelated page.  It should drop
  records of unmapped files only, and must keep the pools balanced.
* *Write comparison.*  Unsigned lengths and counters, records before, across
  and beyond the write, a `diffPos` carried from page to page.  Each equal
  byte should be counted once and no record that could be compared missed.
* *Vector comparison.*  Branches on the length and the alignment, loads that
  overlap.  The first difference must be found and reported on every path.
* *File map.*  Two trees, each searched with the comparator of the other in one
  place; names freed while records point to them; descriptors taken modulo two
  table sizes; a key that is a cell of the node pool.  A lookup should find the
  mapping that holds the byte, and what is found should be mapped.
* *Copies from traced memory.*  Lists are cut, restarted and withdrawn by the
  inserts the walk over them makes.  A walk should stay on its list, copy the
  records of its source, and end.
* *Baseline build.*  Records are moved in the tree that is being searched, and
  the next search depends on the last record found.  The loops should end, the
  records stay disjoint and say what was copied.
* *Threads.*  The mutex covers one `tsearch`.

The complete list, with lines, is under "hazards" in PROJECT.json.

## 2. The modules

```
PoolOps  (pool values)        RecNode (one node's list)      PageLog (abstract)
   |          \                   |                             :
Pool  -implements-> Allocator   RecTree = RecNode + PoolOps  - implements -
   |                           /    |     \
PoolProofs           MCRecTree  TracedCopy  RecTreeProofs
   |                                |            |      \
PoolOpsProofs                    Realloc         |   PoolOpsProofs
                                 /     \         |
                      MCTracedCopy    TracedCopyProofs

FileMap (over PoolOps)   BaseRec          TsWrite          Memcmp
        |                   |                |            /      \
FileMapProofs         BaseRecProofs    TsWriteProofs  MCMemcmp  MemcmpProofs
        |
  PoolOpsProofs
```

**PoolOps** has the pools as values: `ptr`, `idx`, `size`, and `Grow`, `Top`,
`Pop`, `Push`.  **Pool** is one pool with its users: `Allocate` is the
allocator with its growing branch, `AllocateFails` the assertion of the
pools that do not grow, `Withdraw` the withdraw functions with theirs.
`holders` counts the users of each cell and exists only in the model.
`growable` chooses between the two kinds of pool.  **Allocator** is what the
library expects of a pool: a cell handed out is nobody's, until it is taken
back.

**RecNode** has the operators on one node.  `blocks` is the TAILQ from its
tail to its head, oldest block first: every reader starts at `TAILQ_LAST`.
`Places`, `RecAt` and `Log` are how readers walk it; `OutOfOrder`, `Restart`,
`NeedsBlock` and `WriteRec` are `insertRec` and `writeRec`; `SweepStep`,
`SweepEnd`, `Compact` and `CompactFrees` are the loop of
`reclaimSpecialRecTreeNode`.  `NextCursor` keeps the source's post-increment:
a cursor's index advances, the record it points to stays slot 0 of its block.
A block just taken from its pool holds `Unwritten`: malloc's memory, or a
former owner's records.

**RecTree** is the tree with its pools.  One action for each way through
`insertRec`: `InsertFound` (with its three outcomes: restart, new block, in
place), `InsertNew` (`addTreeNode` without a sweep) and `InsertReclaiming`
(with one, and the assertion that may fail after it); and `MapFile`,
`UnmapFile` for `openFileArray`.  `RECBLOCKENTRYPOOL` and `RECARRPOOL` are one
pool, `recBlocks`, since an entry and its array are allocated and withdrawn
side by side; nodes and heads are only counted.  A record is its offset in the
page and its descriptor: the file offset and the name decide nothing here.
POSIX leaves a `twalk` whose tree changes under it undefined; `Visitable` lets
it miss any pages after the first one removed.  It does not let it touch freed
memory: `tdelete` of glibc unlinks a node and rebalances, and that the walk
survives it is an assumption.  **PageLog** is what the readers of the tree
need while no sweep runs: a sequence of records for each page, each copy
appended or starting the page over.  **MCRecTree** has what only TLC needs.

**TracedCopy** adds a call of `ts_memcpy_traced` to the tree.  `copy` holds the
call's arguments and locals.  `FirstPage` is the search for the start of the
copy on the page of `src`, with the cut; `LaterPage` a further page;
`CopyRecord` one `insertRec`, with the actions of RecTree; `NextBlock` the move
to the next newer block, where `uplimit` is read again or not.  The fields
`wanted`, `below`, `short` and `ordered` are what readers saw when the call
began, kept for the properties.  The source and the destination share no page,
so the walk's own inserts leave the list it walks alone, and no sweep is due.

**Realloc** adds `ts_realloc` to the same tree, so that its walk meets lists
that cuts have left and `ts_memcpy_traced` meets lists that moves have left.
`copy` is the call in progress of either function.  `SearchPage` finds a page's
node and reads `mostRecBlock`, once; `EnterBlock` is the turn of the do-while
that takes a block, `Spin` the one that meets `continue`; `VisitRecord` looks
at one record and may insert it; `LeaveBlock` is `TAILQ_PREV`.  `PastLast` is
what the precheck reads, `rec[uplimit]`: the slot behind the last record, which
may hold any offset on a page (see the assumptions in section 5).  When `realloc` leaves the area where it is (source and
destination are equal), the inserts go to the page being read and restart the
very list of the walk: a newer block it stands on is withdrawn and the phase is
"lost", where the code reads memory that another list may own by now.
**MCTracedCopy** has the calls made and the bounds of both.

**FileMap** is the file map with the kernel's own view beside it (`fdFile`,
`kernelMap`).  A tree is the sequence of its cells in their order: `Ends`
gives every place where a search can end in some red-black tree of that size,
so a comparator that does not fit the order may find anything on its path, or
nothing.  `Register` is what `ts_mmap` does after the kernel's answer; `Drop`
what `ts_munmap` and `ts_close` share.  `heap` is the names `malloc` has given
out; `Free` aborts when the name is not allocated.  `FoundByName` are the
mappings that `ts_read` may find; `BytesRead` is what it copies and makes its
record for, with the unsigned length that is a huge one when the position is
behind the mapping.  `history` exists only in the model and says what has
happened so far: `orderly`, that the names' addresses have come in the order of
the mappings' and no mmap failed; `crowded`, that two mappings shared an entry
of `openFileArray`, or an mmap failed; `shared`, that a mapping was made with a
name that another mapping has or that was freed.

**BaseRec** is the record tree of `make base`: a set of address ranges.
`insertRec` takes out what overlaps and enters the record; `MoveRec` is a turn
of the loop of `ts_memcpy_traced`, `cmpWrite` one of `do_ts_write`.  `memory`
exists only in the model: which byte of the file each address holds.

**TsWrite** is one call, with `fn` telling which of the two loops.  What the
tree holds and how long a comparison agrees is chosen where the code finds out;
the records of a page come in ascending order, which is `PageOrdered` of
RecTree.  `credited` and `missed` exist only in the model: the bytes counted,
and the records passed over.  `AsInt` and `AsUnsigned` are what an `int` and an
unsigned counter hold of a number: `toTailLen` is an `int` computed from a
`size_t`.  `INT_MAX` and `ULONG_MAX` are constants of the model.

**Memcmp** has one action per stretch of instructions between labels.  The
data are the set of offsets at which the buffers differ; `DifferSets`, which of
these sets are tried for a length, is a constant operator that **MCMemcmp**
gives, so that the proofs are for any of them.

**PageLog**'s log of a page is what `Log` of RecNode reads off a node: the record
at each place, in the order of the places (`Rank`).

Operators commented "Mutation of" stand next to the definition they are a wrong
version of: with it, the property named in PROJECT.json fails.

## 3. The runs

| Run | Instance | States | What it shows |
|---|---|---|---|
| pool | 3 cells growing to 6, both kinds | 211011 | Every order of allocations and withdrawals through exhaustion and a growth keeps `NoAliasing`, trips an assertion only by exhaustion, and implements Allocator. |
| rectree_order | 2 pages of 4 offsets, blocks of 2, lists of 2, enough nodes | 16490 | Inserts in any order implement PageLog; readers see written records in ascending order (`PageOrdered`); nodes and indexes are typed. |
| rectree_sweep | 3 pages, 2 nodes, blocks of 2, 2 descriptors | 16487 | Compaction and removal, of one page with any list and two with one record: the filled block is the newest, the sweep follows only written records (`SweepReadsWritten`), the pools stay balanced, and a short page of a mapped file loses nothing (`ShortMappedPageKept`). |
| tswrite | pages of 3 bytes, writes of up to 6 | 23769 | `ts_fwrite` counts equal bytes once, `ts_write` misses no record, what is not found is bounded when an `int` can hold the length. |
| memcmp | 32 lengths, 3 alignments | 127222 | First difference reported, equal gives zero but for 2 and 3 bytes, loads in bounds, the function returns. |
| tracedcopy | pages of 3 offsets, blocks of 2; 2 traced copies and 3 reallocs, any number of times, between inserts | 819338 | The walks stay on their lists (`ReallocTypeOK`), records of one-block pages move complete (`ShortPagesMove`, `ReallocMoves`), what lies before a traced copy's source stays (`PrefixStays`), and `ts_realloc` hangs or loses its list only where finding 3 and section 5 say (`ReallocFailsOnlyThere`). |
| filemap | 2 descriptors, 2 names and a caller's path, 2 areas that touch, tables of 2 | 699901 | Opening, mapping, unmapping, closing in any order with failing mmaps: the address tree keeps order and holds no withdrawn node (`AddressTreeLive`), no entry of `openFileArray` is a withdrawn node (`EntriesLive`); what the name tree, the entries, the reads and the names need for the same (`NameTreeLive`, `EntryMeansMapped`, `ReadsStayMapped`, `NamesAllocated`); a lookup finds the mapping of the byte or one that touches it (`LookupTouches`). |
| baserec | 5 addresses, file of 2 bytes, copies of up to 3 | 618109 | Records stay disjoint, the assertion fails for empty copies only, records are true while copies are whole, a write misses only what section 5 names, its count is bounded, and every loop ends. |
| rectree_keeps_mapped | 2 pages, 1 node | violation | Finding 1. |
| memcmp_equal_short | lengths 2, 3 | violation | Finding 2. |
| realloc_ends | an area that ends at a page boundary | violation | Finding 3. |
| filemap_source | 2 files, 2 areas that touch | violation | Finding 4. |

**Why these bounds.**  *Pools:* one growth shows the copied and the new part of
the pointer array together with any leftover order; a second does nothing
new, and PoolProofs covers any number.  *Blocks* of two records and lists of
two blocks reach the first record of a block, a full block, a new one and a
restart from each, with old content in the second slot; with four offsets a
list of two full blocks is restarted.  *Sweeps:* the first sweep that finds an
empty node is the second one, so it must come while the program still has
pages to add.  The ratio 6/10 reaches that with four nodes and five pages;
`RECTREENODETHRESHOLDRATIO` is a constant of the model so that two nodes
(ratio 10/10) reach it as well.  Lists of two blocks are
needed for compaction to move a record and withdraw a block; `OnePageGrows`
(MCRecTree) lets one page have them and keeps the others to a record each.
Descriptors are symmetric: nothing orders them.  *Traced copies:* a second
copy, of a list the first one has cut and inserts have refilled, is where
leftover blocks, an index of 0 and unwritten slots meet; the copies go to a
larger offset and a smaller one, with a spill to the next page; the reallocs
move the area, leave it where it is, and end at a page boundary.  Page 2 holds
at most one record.  The view leaves out which cell each block is: nothing in
the walks or in the properties of this run depends on it, and `PoolsBalanced`
is not among them.  *FileMap:* two descriptors that map to different slots and,
by mapping one twice, to the same; two areas are enough for an order of
addresses that disagrees with the order of names, and they touch, which is
what the lookup takes for an overlap; a freed name is handed out again to the
next file.  With one file a mapping is told from another by its area; two
files are needed only where their bytes are compared (filemap_source).
`NameTreeBound` leaves room for one withdrawn node in the name tree: with it a
search by name can meet what it should not.  The view renames the pool's
cells.  *BaseRec:* five addresses hold three records and a copy between
them; copies of up to three bytes begin inside, at and before records, and
records begin at another's end.  *TsWrite:* six bytes on pages
of three touch three pages with a partly covered first and last one, a whole
page between them, and records before, on and behind `tail`; `ULONG_MAX` 63
keeps the counters above any sum the call can reach, so that they wrap only by
going below zero; with `INT_MAX` 7 a write of six bytes that begins two bytes
into its page is one byte too long for `toTailLen`, and shorter ones are not.  *Memcmp:* the lengths lie on both sides of every comparison in the
file and include one and two turns of the loop with each of its exits; a
second difference is next to the first, one vector later, or at the end.

**Deadlock** is checked only in rectree_order, where the program can always
go on.  The others stop: after a failed assertion or an abort (pool, sweep,
filemap, baserec), at the bound on growth (pool), at the bound on lists or pages
(tracedcopy), or when the call returns (TsWrite, Memcmp).

**Fairness** is assumed for the thread that runs a call, and for nothing else:
the caller may stop calling.  In Memcmp it is weak fairness of the whole
next-state relation, an instruction that can run does run; in BaseRec of `Loop`,
the turns of the loops; in Realloc of the steps of the walk.  The code is
sequential, so nothing more is needed, and nothing less would do: without it
the thread might stop in the middle of a call.

### Findings

1. The sweep looks at slot 0 of each block only.  It drops records of mapped
   files (when slot 0 of an older block is free for a newer one's, or when a
   block's slot 0 is unmapped) and keeps records of unmapped ones, against its
   comment (tree.c:466).  `ShortMappedPageKept` says what is true: a page
   whose records fit one block and are all of mapped files loses nothing.
   After a sweep a list's offsets need not ascend, and a block
   left behind as full may have slots nobody wrote since its allocation:
   `PageOrdered` is not among the properties of the runs that sweep.
2. `memcmp_avx2_asm` on two or three equal bytes returns the second byte of the
   first buffer, shifted (memcmp-avx2-addr.S:286-289): non-zero when it is not 0.
   `cmpWrite` then takes the last byte as the first difference.
3. `ts_realloc` means to pass over a block that lies beyond the area, but
   `continue` (awn.c:1653) leaves `blockEntry` where it is and the call hangs,
   when the slot behind the last record of a block on the page of `tail` holds an
   offset at or beyond it.  That slot is not a record of the list.
4. The lookup of `ts_memcpy` counts both ends of both areas (tree.c:275), so
   for two mappings that touch it may find the neighbour, and the record names
   the wrong file.

Found while modelling, and visible in the models without a run of their own:

* `do_ts_write` goes on to records beyond the write and adds a negative
  length to an unsigned counter (awn.c:631): `FwriteSameWithinWrite` holds of
  `ts_fwrite` only.
* `ts_fwrite` passes over a page when its first byte is behind `diffPos`,
  with all the records behind the difference (awn.c:959):
  `WriteMissesNoRecord` holds of `ts_write` only.
* What is left of a write is computed as a `size_t` and kept in an `int`
  (`toTailLen` and `notFoundLen`, awn.c:579 and 592-593, 672).  When more than
  `INT_MAX` bytes are left, the part of the first page before the buffer
  included, it may be negative; it is then less than `PAGESIZE`, and a negative
  number is added to the unsigned counter of bytes not found.  `NotFoundBound`
  needs its premise.
* `ts_read` at a position behind the mapping, whose file has grown since or
  whose descriptor was moved there, copies `nbytes` from whatever follows the
  mapping (awn.c:1590): `ReadsStayMapped` is about positions up to its end.
* `ts_memcpy_traced` compares `recModEntry` with `srcLastEntry`, which are
  equal, where it means the block at hand (awn.c:1088).  It therefore looks
  into every block up to the filled block's index only, and copies too few
  records of an older one.  The cut moves `recModEntry` back but leaves the newer
  blocks on the list, and readers take them as full, with slots nobody has
  written: the cut does not delete what lies behind the source address
  (awn.c:1102), and the premise of `ShortPagesMove` cannot be dropped.
* When the area stays where it is, the inserts of `ts_realloc` can restart the
  list it is reading and withdraw the block it is at (`ReallocFailsOnlyThere`).  A
  record exactly at `ptr` is not moved (`memAddr <= ptr`).
* `ts_munmap` frees a name that other mappings of the descriptor, records and
  `FD2PATH` still hold (`NamesAllocated` needs its premise), and it searches the
  name tree by start address: out of order, the wrong node is deleted or none
  (`NameTreeLive` needs its premise).
* In the base build the length of a moved record is counted from the source and
  not from the record (awn.c:1270), so a record that begins behind the source
  is moved with a length that is too large (`TruthfulWhenWhole` needs its
  premise); a record that begins where the source ends is moved as well.  A
  copy of no bytes trips the assertion.  `do_ts_write` passes over a record that
  begins where the last one ended (`+ 1`, awn.c:774), and compares each record
  to the end of the buffer (awn.c:729), so bytes are counted twice.

## 4. The proofs

**PoolOpsProofs** has the lemmas about `NewPool`, `Pop`, `Push`, `Grow` and
`PushAll`: what each does to a pool whose cells are partitioned into the free
and the used.  `InUseCount` counts the used ones, so that a run of withdrawals
(`PushAllPartitioned`) is known to find room.

**PoolProofs** proves `TypeCorrect`, `PoolNoAliasing`,
`PoolHaltOnlyWhenExhausted` and `PoolImplementsAllocator`: for every initial
size, kind of pool and bound on growth.  The inductive invariant is the
conjunction of the first three properties and `CountOK`, that the free cells
and the held ones together count `size`.  The partition alone does not show
that a withdrawal's `IDX < SIZE` holds: that needs the free entries, which are
distinct, to be fewer than the cells when one cell is held, a counting
argument over finite sets.

**RecTreeProofs** is about every size of page, block, pool and list, every set
of descriptors and every ratio of the threshold.  It has three parts.

*With sweeps.*  `Kept` is the invariant of the tree and its pools that needs no
assumption: each node is `Usable` (the filled block is the newest and every
other block has its slot 0 written), the blocks of all lists and the free ones
are all there are, each once, and nodes, heads and pages count up.  From it
follow `TreeTyped` (TypeOK), `NewestFilled` (FillingNewest),
`SweepsReadRecords` (SweepReadsWritten), `PoolsStayBalanced` (PoolsBalanced)
and `ShortMappedPagesStay` (the action property).  An insert changes one list,
and a restart gives back exactly the blocks it cuts off (`NewerEnts`).  The work
is in the sweep's loop.  `SweepEnd` is a recursive function of the turn; the
prover cannot use an induction theorem whose parameter is an operator, so
`SetInduction` of PoolOpsProofs states induction with a set of naturals in the
place of the predicate, and the lemmas about the loop apply it to the set of
turns at which the loop is sound.  What holds at each turn is where the two
cursors are: `keeped` trails `search` by slots, hence it writes only to blocks
that `search` has reached, and each block it reaches gets slot 0 first.
`SweepCompletes` says that the turns the model allows suffice: `search` has left
the list, which is when the code's loop ends, and what is left is a usable node
made of blocks it had.

*Without sweeps.*  `OrderedWhilePoolSuffices` (PageOrdered) and
`NodePoolNeverEmpty` assume `PoolSuffices`: the pages number at most
`RECTREENODEPOOLSIZE - Threshold(RECTREENODEPOOLSIZE)`, 3200 of 8000 as
shipped.  Beyond it sweeps begin, and order is lost: the statement without
the assumption is false (finding 1).  `PageOrdered` is not inductive.  `NodeInv`
adds that the node has at least one record and that everything a reader sees is
a record: then the last record written is the greatest, and comparing with it
alone (awn.c:179) is enough.  `OrderInv` adds that free nodes and traced pages
sum to the pool and that the threshold is still its first value, so that no
sweep is due (`NoSweepDue`).

*The refinement*, `RecTreeImplementsPageLog`, from `OrderInv` and the same
assumption.  What is added is that every rank up to the number of places is
taken (`Ranked`), so that `Log` has no gaps.  A write adds one place behind
all the others, hence one record at the end of the log (`LogGrows`); the record
the code compares with is the log's last (`LogEnds`), so that the list is
restarted exactly when PageLog starts over.

**TracedCopyProofs** proves the five properties of the run tracedcopy for
`ReallocSpec`, in which calls of both functions and plain inserts follow each
other in any order.  It has three invariants.

* `WalkInv`: every list is well formed, with any slot unwritten (after a cut a
  node no longer satisfies `Usable`), and the cursor of the call in progress is
  on a block of the list of its page, at a slot not above the limit it took.
  An insert of the walk touches the walk's list only when `ts_realloc` left the
  area in place.  `WalksStayOnLists` and `ReallocFailsNowhereElse` follow.
* `PrefixInv`: what readers saw before `src` is still seen.  `CutKeepsBelow` is
  about the cut: on an ordered page all records below `src` lie before the place
  it moves the filled position back to.
* `ShortInv`, for `ShortPagesMove` and `ReallocMoves`.  A list of one block is an
  ascending run of its array whatever calls were made before (`ShortLists`).
  `Left` is what the walk still comes to; `Progress` says that each wanted record
  is in `Left` or has arrived, and that on the page it arrived at the last record
  lies before everything that is still to come there, so that no later insert
  of the walk restarts a list the walk has written.  When `ts_realloc` stays in
  place the walk rewrites the list it reads: the first insert restarts it, the
  later ones write behind the cursor (`SlotsLeft`), so nothing is overwritten
  before it was read.

Two assumptions on the calls are used: a traced copy ends on the page of `src` or
a later one (`CallsAssumption`), and an area has `ptr <= tail`
(`ReallocsAssumption`); the code computes both from an unsigned length.

**FileMapProofs** proves the eight properties of the run filemap for every
number of files, descriptors, areas and table sizes.  `IInv` is the conjunction
of `Typed`; `TablesSound`, which holds of every history (the address tree ascends,
none of its nodes is free in the pool, no entry is a free node and each has a
descriptor of its slot); one part for each premise of the properties
(`UncrowdedSound`, `OrderlySound`, `UnsharedSound`: what the histories without
shared slots, out-of-order names and shared names have in addition).
`ReadsStayMapped` follows from `TablesSound` and `OrderlySound`: what a read
finds by name is a node of the address tree and no failed mmap, so it is
mapped, and the length is cut at its end.  What makes a deletion right is a lemma about `Ends`: in a
tree that ascends in the comparator's own order, every search ends at the
matching node if there is one, by induction over the range of nodes.  The name
tree is searched by address, so it needs `OrderlySound` for the same lemma, and
`LookupTouches` uses a comparator under which areas that touch are equal.  The
assumptions about the constants are named in FileMap: areas do not overlap,
`MAP_FAILED` lies above all of them, `None` and the caller's path are no
allocated cell or name.

**TsWriteProofs** proves all four properties of TsWrite for every page size,
length of write, and placing of records.  `WriteInv` bounds what is not found
by what the loop has passed and the part of the first page before the buffer;
`SameInv` says that every byte credited lies before `diffPos`, so that no byte
is credited twice and the count is a cardinality.  The counters are unsigned
and hold the length of any write, since that is a `size_t`
(`MaxLenAssumption`); `INT_MAX` may be anything up to `ULONG_MAX`
(`LimitsAssumption`).

**MemcmpProofs** proves the four safety properties of Memcmp for every set of
lengths, alignments and differences.  `MemInv` says at each label how many bytes
are left, that pointers and length still add up to the end of the buffers, and
how far the buffers are known to be equal (`Clean`).  The lemmas are about one
vector and one turn of the loop: a hit is the first difference, a miss extends
what is known.  The alignment step and the overlapping tails re-read bytes known
to be equal, which is why the invariant must say so.

**BaseRecProofs** proves the six safety properties of BaseRec for every size of
memory, file and copy.  `Inv` is that the records of the tree are disjoint and
not empty, with the types of a call's locals; `WriteInv` that each record
of the buffer that has been passed over lies behind a compared one; `TruthInv`
that what a record says is true of `memory`, with what a traced copy in progress
has not yet moved.

**What stays with TLC.**  Liveness, which the prover's temporal steps do not
cover: `Terminates`, `CallEnds`, and the violated `ReallocEnds`.  Every invariant
and action property of the passing runs is stated by a theorem.  Those that
hold only under an assumption are `PageOrdered` and `ImplementsPageLog`, which are
false once the tree has been swept.  The runs remain the check that the models do what the
theorems are about: they reach every action, and they refute the mutations.

## 5. Not modelled, and assumed

* A failing malloc: the code prints and fails an assertion.
* `ts_free` only calls `free`: its bookkeeping is commented out.
* The PATCH build and `TS_MEMCPY_CMPWRITE`.
* Timing, counters' printing and the functions that list trees.
* `RecTree`'s descriptors are entries of `openFileArray`: two descriptors equal
  modulo `MAX_FILE_NUM` are one.
* `PageOrdered` is about programs that do not call `ts_memcpy_traced`, which
  cuts its source's list.
* `ts_memcpy_traced` with source and destination on one page, or with a sweep
  due in the middle: the walk then holds pointers to blocks that may have been
  withdrawn and handed out again.
* `ts_realloc` after its list was withdrawn under it (phase "lost"): what it
  reads there is not followed.  Its area moves to pages it had nothing on, or
  stays.
* The slot that the precheck of `ts_realloc` reads behind the last record holds
  an offset on a page: memory from the pools is zero, or holds offsets that
  former owners of the block wrote.  Other content of memory that `malloc`
  returns is left out; it could make the call hang on any page.
* FileMap: mappings begin at offset 0 and have one length, a whole area is
  unmapped and the kernel does not refuse to, addresses of names are not reused
  while anything leaks them.  `ts_memcpy` copies one byte, so a copy over the
  end of a mapping is not in it.  A search is any path through any tree of the
  size: more than the real tree's shape allows, so the runs show the properties
  for every shape.
* `ts_fopen` with a failing `realpath` goes on with descriptor 0; FileMap opens
  files whose path is found, and empty ones.
* BaseRec: the pool's cells (those of overlapping records are never given back,
  awn.c:260), file names, and the assertion on large addresses.  How long a
  record agrees with its file is any length.
* One thread: calls do not overlap.  Nothing in the repository says that
  several threads may call the library, and the mutex guards one `tsearch`; what
  would fail with several is in plain sight (every pool index), and a model of
  it would refute no claim.
* In TsWrite the tree does not change during the call: `do_ts_write` inserts
  nothing.
* In Memcmp the flags and the vector instructions are what the manual says:
  a comparison of 32 bytes tells at which offsets they differ.

## 6. Plan

Done, in the order of what matters most to the program: the pools and the
record tree, its order, its refinement of PageLog, its account of blocks and
its sweep; the write comparison and the vector comparison; the walks over
traced memory; the file map; the baseline build; the proofs of section 4.

What remains:

1. *PATCH* and `TS_MEMCPY_CMPWRITE`, which change what `ts_write` does with what
   it finds.
2. *One page*: `ts_memcpy_traced` with source and destination on the same page,
   where the cut and the inserts meet on one list.
3. *The sweep's order*: which lists stay ordered through a sweep.  If those of
   one block do (a run has to say so first), `PageOrdered` of short pages needs
   no `PoolSuffices`.

## 7. Running

    tlc -workers 2 -config RecTree_sweep.cfg MCRecTree
    tlc -workers 2 -config Memcmp.cfg MCMemcmp
    tlapm RecTreeProofs.tla

filemap and baserec take two to three minutes, the other runs less.  From
scratch RecTreeProofs, FileMapProofs and TracedCopyProofs take several minutes
each, the other proofs less than two.

PROJECT.json pairs each run with its module and configuration, each definition
with the lines it models, and each property with the mutation that breaks it.
