------------------------------ MODULE RecTree ------------------------------
(* The record tree (awn.c insertRec and writeRec, tree.c addTreeNode and the
   reclaiming sweep, mem.h / mem.c pools): which copies were made into which
   page.  recTree is the search tree keyed by page number; a node is a
   RecNode.  The pools RECBLOCKENTRYPOOL and RECARRPOOL always move together
   (an entry and its array are allocated and withdrawn side by side), so one
   pool of blocks stands for both.  RECTREENODEPOOL and TAILHEADPOOL hand out
   cells only a tree node refers to: their indexes are kept.                *)
EXTENDS RecNode, PoolOps, FiniteSets, FiniteSetsExt

CONSTANTS
    Pages,                  \* page numbers the program copies into
    PAGESIZE,               \* offsets in a page
    Fds,                    \* file descriptors, modulo MAX_FILE_NUM
    RECTREENODEPOOLSIZE,    \* tree nodes; this pool does not grow
    RECTREENODETHRESHOLDRATIO,  \* in tenths: 6 as shipped
    RECBLOCKENTRYPOOLSIZE,  \* blocks before the first growth
    MaxBlocks               \* bound: blocks of one page's list

ASSUME PagesAssumption == Pages \subseteq Nat /\ IsFiniteSet(Pages)
ASSUME PageSizeAssumption == PAGESIZE \in Nat \ {0}
ASSUME NodePoolAssumption == RECTREENODEPOOLSIZE \in Nat \ {0}
ASSUME RatioAssumption == RECTREENODETHRESHOLDRATIO \in 0..10
ASSUME BlockPoolAssumption == RECBLOCKENTRYPOOLSIZE \in Nat \ {0}
ASSUME MaxBlocksAssumption == MaxBlocks \in Nat \ {0}

\* struct memRec, without the offset in the file and the file's name.
Rec == [pageOffset : 0..(PAGESIZE - 1), fd : Fds]

ASSUME UnwrittenAssumption == Unwritten \notin Rec

VARIABLES
    recTree,                \* page -> node, of the pages in the tree
    RECTREENODEPOOLIDX,     \* free tree nodes
    TAILHEADPOOLIDX,        \* free list heads
    RECTREENODETHRESHOLD,   \* a sweep is due when fewer nodes are free
    recBlocks,              \* the pool of blocks (RECBLOCKENTRY, RECARR)
    openFileArray,          \* fds with a mapping
    halted                  \* assert(RECTREENODEPOOLIDX > 0) failed

vars == <<recTree, RECTREENODEPOOLIDX, TAILHEADPOOLIDX, RECTREENODETHRESHOLD,
          recBlocks, openFileArray, halted>>

Traced == DOMAIN recTree

\* IDX * RECTREENODETHRESHOLDRATIO, truncated to int.
Threshold(idx) == (idx * RECTREENODETHRESHOLDRATIO) \div 10

\* initMemory
Init ==
    /\ recTree = [p \in {} |-> NewNode(Unset)]
    /\ RECTREENODEPOOLIDX = RECTREENODEPOOLSIZE
    /\ TAILHEADPOOLIDX = RECTREENODEPOOLSIZE
    /\ RECTREENODETHRESHOLD = Threshold(RECTREENODEPOOLSIZE)
    /\ recBlocks = NewPool(RECBLOCKENTRYPOOLSIZE)
    /\ openFileArray = {}
    /\ halted = FALSE

-----------------------------------------------------------------------------
(* The file map, as far as the record tree sees it.                        *)

\* ts_mmap and ts_munmap: only whether openFileArray has an entry for the fd.
MapFile(fd) ==
    /\ ~halted
    /\ fd \notin openFileArray
    /\ openFileArray' = openFileArray \cup {fd}
    /\ UNCHANGED <<recTree, RECTREENODEPOOLIDX, TAILHEADPOOLIDX,
                   RECTREENODETHRESHOLD, recBlocks, halted>>

UnmapFile(fd) ==
    /\ ~halted
    /\ fd \in openFileArray
    /\ openFileArray' = openFileArray \ {fd}
    /\ UNCHANGED <<recTree, RECTREENODEPOOLIDX, TAILHEADPOOLIDX,
                   RECTREENODETHRESHOLD, recBlocks, halted>>

(* The records callers pass to insertRec: a copy out of a mapped file
   (ts_memcpy, ts_read), or the copy of a record of a traced page, which
   repeats its fd though the file may be unmapped by now (ts_realloc; for
   ts_memcpy_traced see TracedCopy).                                       *)
FdsInTree ==
    {r.fd : r \in UNION {{RecAt(recTree[p], pl) : pl \in Places(recTree[p])}
                            : p \in Traced} \ {Unwritten}}
Insertable(r) == r.fd \in openFileArray \cup FdsInTree

-----------------------------------------------------------------------------
(* insertRec(r) with r's page in the tree.                                 *)

\* The newer blocks are withdrawn and r goes into slot 0 of the oldest.
RestartAndWrite(p, r) ==
    /\ recTree' = [recTree EXCEPT ![p] = WriteRec(Restart(@), r, Unset)]
    /\ recBlocks' = PushAll(recBlocks, NewerThan(recTree[p], 1))

WriteInNewBlock(p, r) ==
    LET fresh == Replenish(recBlocks)
    IN  /\ Len(recTree[p].blocks) < MaxBlocks
        /\ recTree' = [recTree EXCEPT ![p] = WriteRec(@, r, Top(fresh))]
        /\ recBlocks' = Pop(fresh)

WriteInPlace(p, r) ==
    /\ recTree' = [recTree EXCEPT ![p] = WriteRec(@, r, Unset)]
    /\ UNCHANGED recBlocks

InsertFound(p, r) ==
    /\ ~halted
    /\ p \in Traced
    /\ \E outOfOrder \in OutOfOrder(recTree[p], r.pageOffset) :
          IF outOfOrder THEN RestartAndWrite(p, r)
          ELSE IF NeedsBlock(recTree[p]) THEN WriteInNewBlock(p, r)
          ELSE WriteInPlace(p, r)
    /\ UNCHANGED <<RECTREENODEPOOLIDX, TAILHEADPOOLIDX, RECTREENODETHRESHOLD,
                   openFileArray, halted>>

-----------------------------------------------------------------------------
(* insertRec(r) with r's page not in the tree: addTreeNode.                *)

SweepDue ==
    RECTREENODETHRESHOLD > RECTREENODEPOOLIDX \/ RECTREENODEPOOLIDX = 0

(* tree is recTree, swept or not; nodes, heads and pool the free cells.  The
   node, its head and its block are allocated, and r is written.           *)
AddTreeNode(tree, nodes, heads, pool, p, r) ==
    LET fresh == Replenish(pool)
        node  == WriteRec(NewNode(Top(fresh)), r, Unset)
    IN  /\ recTree' = [q \in DOMAIN tree \cup {p} |->
                         IF q = p THEN node ELSE tree[q]]
        /\ RECTREENODEPOOLIDX' = nodes - 1
        /\ TAILHEADPOOLIDX' = heads - 1
        /\ recBlocks' = Pop(fresh)

InsertNew(p, r) ==
    /\ ~halted
    /\ p \notin Traced
    /\ ~SweepDue
    /\ AddTreeNode(recTree, RECTREENODEPOOLIDX, TAILHEADPOOLIDX, recBlocks, p, r)
    /\ UNCHANGED <<RECTREENODETHRESHOLD, openFileArray, halted>>

(* The pages twalk may call reclaimRecTreeNode on.  It goes in page order,
   and removes empty nodes (tdelete) while it walks, which POSIX leaves
   undefined: the rebalancing can hide any of the later pages from the walk,
   none of the earlier ones and never all of the tree.                     *)
Visitable ==
    LET empty == {p \in Traced : IsEmptyNode(recTree[p])}
    IN  IF empty = {} THEN {Traced}
        ELSE {V \in SUBSET Traced : \A p \in Traced : p <= Min(empty) => p \in V}

\* Mutation of Removed: the test of memRecIdx is dropped.
RemovedSingle(V) == {p \in V : Len(recTree[p].blocks) = 1}

Removed(V) == {p \in V : IsEmptyNode(recTree[p])}

\* The tree after the visits to V.
Reclaimed(V) ==
    [p \in Traced \ Removed(V) |->
        IF p \in V THEN Compact(recTree[p], openFileArray) ELSE recTree[p]]

\* The blocks the visits to V give back, page after page.
BlocksReclaimed(V) ==
    LET Freed(p) == IF p \in Removed(V) THEN <<recTree[p].blocks[1].ent>>
                    ELSE CompactFrees(recTree[p], openFileArray)
        UpTo[p \in 0..Max(Pages)] ==
            (IF p = 0 THEN <<>> ELSE UpTo[p - 1])
                \o (IF p \in V THEN Freed(p) ELSE <<>>)
    IN  UpTo[Max(Pages)]

(* recTreeNodeGrabageReclaim, then the allocation, whose assertion can fail. *)
InsertReclaiming(p, r) ==
    /\ ~halted
    /\ p \notin Traced
    /\ SweepDue
    /\ \E V \in Visitable :
         LET tree  == Reclaimed(V)
             nodes == RECTREENODEPOOLIDX + Cardinality(Removed(V))
             heads == TAILHEADPOOLIDX + Cardinality(Removed(V))
             pool  == PushAll(recBlocks, BlocksReclaimed(V))
         IN  /\ RECTREENODETHRESHOLD' = Threshold(nodes)
             /\ IF nodes > 0
                THEN /\ AddTreeNode(tree, nodes, heads, pool, p, r)
                     /\ UNCHANGED halted
                ELSE /\ halted' = TRUE
                     /\ recTree' = tree
                     /\ recBlocks' = pool
                     /\ RECTREENODEPOOLIDX' = nodes
                     /\ TAILHEADPOOLIDX' = heads
    /\ UNCHANGED openFileArray

Next ==
    \/ \E fd \in Fds : MapFile(fd) \/ UnmapFile(fd)
    \/ \E p \in Pages, r \in Rec :
          /\ Insertable(r)
          /\ InsertFound(p, r) \/ InsertNew(p, r) \/ InsertReclaiming(p, r)

Spec == Init /\ [][Next]_vars

-----------------------------------------------------------------------------
(* Properties.                                                             *)

Block == [ent : Int, recArr : [Slots -> Rec \cup {Unwritten}]]

IsNode(n) ==
    /\ n \in [blocks : Seq(Block), recModEntry : Int, memRecIdx : Int]
    /\ n.recModEntry \in 1..Len(n.blocks)
    /\ n.memRecIdx \in 0..MEMRECPERENTRY

(* Every node is a non-empty list with the filled block in it and the index
   in the range insertRec checks for (awn.c:213, awn.c:224).               *)
TypeOK ==
    /\ recTree = [p \in Traced |-> recTree[p]]
    /\ Traced \subseteq Pages
    /\ \A p \in Traced : IsNode(recTree[p])
    /\ RECTREENODEPOOLIDX \in 0..RECTREENODEPOOLSIZE
    /\ TAILHEADPOOLIDX \in 0..RECTREENODEPOOLSIZE
    /\ RECTREENODETHRESHOLD \in 0..RECTREENODEPOOLSIZE
    /\ IsPool(recBlocks)
    /\ openFileArray \subseteq Fds
    /\ halted \in BOOLEAN

\* Every slot a reader of the node takes was written, and the offsets it
\* meets ascend.
AllWritten(n) == \A pl \in Places(n) : RecAt(n, pl) # Unwritten
Ascending(n) ==
    \A a, b \in Places(n) :
        Before(a, b) => RecAt(n, a).pageOffset < RecAt(n, b).pageOffset

(* A reader of a page meets only slots that were written since their block
   was allocated, and the offsets it meets ascend: writeRec's comment
   (awn.c:119-120) and the early exits of do_ts_write, ts_fwrite and
   ts_realloc ("because of the ordered queue, later recorder must be
   larger", awn.c:1650) depend on it.                                      *)
PageOrdered ==
    \A p \in Traced : AllWritten(recTree[p]) /\ Ascending(recTree[p])

(* The block being filled is the newest of its list, so that a block full
   for the reader is one writeRec has left behind, sweeps or not.          *)
FillingNewest == \A p \in Traced : recTree[p].recModEntry = Len(recTree[p].blocks)

\* Where the blocks in use are: the lists of the nodes.
ListPlaces == UNION {{p} \X (1..Len(recTree[p].blocks)) : p \in Traced}
EntAt(pl) == recTree[pl[1]].blocks[pl[2]].ent

(* Through sweeps, restarts and growth no block is lost, freed twice, or on
   two lists, and there are as many free heads as free nodes (mem.h:129:
   "the number of TAILHEADs and of RECTREENODEs is always the same").      *)
PoolsBalanced ==
    /\ \A a, b \in ListPlaces : EntAt(a) = EntAt(b) => a = b
    /\ Partitioned(recBlocks, {EntAt(a) : a \in ListPlaces})
    /\ RECTREENODEPOOLIDX = RECTREENODEPOOLSIZE - Cardinality(Traced)
    /\ TAILHEADPOOLIDX = RECTREENODEPOOLIDX

(* The sweep follows the fd of slot 0 of every block of a node it does not
   remove: that slot was always written since the block was allocated.     *)
SweepReadsWritten ==
    \A p \in Traced : ~IsEmptyNode(recTree[p]) =>
        \A j \in 1..Len(recTree[p].blocks) :
            recTree[p].blocks[j].recArr[0] # Unwritten

\* addTreeNode was called: the only step that may sweep.
NewPage == ~(DOMAIN recTree' \subseteq Traced) \/ halted' # halted

(* A sweep takes nothing from the readers of a page whose records fit one
   block and are all of mapped files, whichever other pages it compacts or
   removes.  (It does from a longer list: SweepKeepsMapped.)               *)
ShortMappedPageKept ==
    [][NewPage =>
         \A q \in Traced :
            LET n == recTree[q]
            IN  /\ Len(n.blocks) = 1 /\ ~IsEmptyNode(n)
                /\ \A pl \in Places(n) : RecAt(n, pl).fd \in openFileArray
                => q \in DOMAIN recTree' /\ Log(recTree'[q]) = Log(n)]_vars

\* What the readers of each page see, and the abstract log it implements.
PageLogView == [p \in Pages |-> IF p \in Traced THEN Log(recTree[p]) ELSE <<>>]
L == INSTANCE PageLog WITH log <- PageLogView
ImplementsPageLog == L!Spec

-----------------------------------------------------------------------------
(* What comments and assertions say and the sweep does not do.             *)

(* tree.c:466: the sweep goes through the elements "and clears those whose
   original file has been unmapped": the others should survive it.         *)
SweepKeepsMapped ==
    [][NewPage =>
         \A q \in Traced : \A pl \in Places(recTree[q]) :
            LET r == RecAt(recTree[q], pl)
            IN  r.fd \in openFileArray =>
                  /\ q \in DOMAIN recTree'
                  /\ \E pm \in Places(recTree'[q]) : RecAt(recTree'[q], pm) = r]_vars
=============================================================================
