------------------------------ MODULE RecNode ------------------------------
(* One node of the record tree (struct recTreeNode) and what the code does
   to it.  A node lists the copies made into one page of memory: a TAILQ of
   blocks (struct recBlockEntry), each with an array of MEMRECPERENTRY
   records.  The TAILQ has the newest block at its head; here `blocks` is
   the same list OLDEST FIRST, which is the order every reader walks it
   (TAILQ_LAST, then TAILQ_PREV).  recModEntry is the position in `blocks`
   of the block being filled, memRecIdx the slot it is filled at.          *)
EXTENDS Integers, Sequences, SequencesExt

CONSTANTS
    MEMRECPERENTRY,     \* records in a block
    Unwritten           \* content of a slot since its block was allocated

ASSUME MemRecPerEntryAssumption == MEMRECPERENTRY \in Nat \ {0}

Slots == 0..(MEMRECPERENTRY - 1)

NewBlock(e) == [ent |-> e, recArr |-> [i \in Slots |-> Unwritten]]

\* addTreeNode: a list with one block, nothing written.
NewNode(e) ==
    [blocks |-> <<NewBlock(e)>>, recModEntry |-> 1, memRecIdx |-> 0]

-----------------------------------------------------------------------------
(* Reading.                                                                *)

\* How many slots of block j a reader takes: memRecIdx of the block being
\* filled, all of any other.
VisibleIn(node, j) ==
    IF j = node.recModEntry THEN node.memRecIdx ELSE MEMRECPERENTRY

\* The places a reader visits, and their order.
Places(node) ==
    {pl \in (1..Len(node.blocks)) \X Slots : pl[2] < VisibleIn(node, pl[1])}
Before(a, b) == a[1] < b[1] \/ (a[1] = b[1] /\ a[2] < b[2])
RecAt(node, pl) == node.blocks[pl[1]].recArr[pl[2]]

\* How many places come before pl.
Rank(node, pl) == Cardinality({q \in Places(node) : Before(q, pl)})

\* The records in that order.
Log(node) ==
    [k \in 1..Cardinality(Places(node)) |->
        RecAt(node, CHOOSE pl \in Places(node) : Rank(node, pl) = k - 1)]

-----------------------------------------------------------------------------
(* Writing: insertRec and writeRec.                                        *)

ModBlock(node) == node.blocks[node.recModEntry].recArr
LastRec(node) == ModBlock(node)[node.memRecIdx - 1]

\* Mutation of OutOfOrder: > for >=.
OutOfOrderStrict(node, off) ==
    IF node.memRecIdx = 0 THEN {FALSE}
    ELSE IF LastRec(node) = Unwritten THEN BOOLEAN
    ELSE {LastRec(node).pageOffset > off}

\* idx > 0 && lastMemRec[idx-1].pageOffset >= offset, in the two outcomes an
\* uninitialised record leaves open.
OutOfOrder(node, off) ==
    IF node.memRecIdx = 0 THEN {FALSE}
    ELSE IF LastRec(node) = Unwritten THEN BOOLEAN
    ELSE {LastRec(node).pageOffset >= off}

\* Mutation of Restart: the index is not reset.
RestartKeepsIdx(node) == [node EXCEPT !.blocks = <<@[1]>>, !.recModEntry = 1]

\* The list is cut back to its oldest block, to be filled from slot 0.
Restart(node) ==
    [blocks |-> <<node.blocks[1]>>, recModEntry |-> 1, memRecIdx |-> 0]

NeedsBlock(node) == node.memRecIdx >= MEMRECPERENTRY

\* What writeRec does while the block has room.
Fill(node, r) ==
    [node EXCEPT !.blocks[node.recModEntry].recArr[node.memRecIdx] = r,
                 !.memRecIdx = @ + 1]

\* Mutation of WriteRec: the index is not reset for a new block.
WriteRecIdxKept(node, r, e) ==
    IF NeedsBlock(node)
    THEN [blocks |-> Append(node.blocks,
                            [NewBlock(e) EXCEPT !.recArr[0] = r]),
          recModEntry |-> Len(node.blocks) + 1,
          memRecIdx |-> node.memRecIdx + 1]
    ELSE Fill(node, r)

\* Mutation of WriteRec: in a new block the index is incremented first.
WriteRecSlotOne(node, r, e) ==
    IF NeedsBlock(node)
    THEN [blocks |-> Append(node.blocks,
                            [NewBlock(e) EXCEPT !.recArr[1] = r]),
          recModEntry |-> Len(node.blocks) + 1,
          memRecIdx |-> 2]
    ELSE Fill(node, r)

\* writeRec: at memRecIdx while the block has room, else in slot 0 of block e.
WriteRec(node, r, e) ==
    IF NeedsBlock(node)
    THEN [blocks |-> Append(node.blocks,
                            [NewBlock(e) EXCEPT !.recArr[0] = r]),
          recModEntry |-> Len(node.blocks) + 1,
          memRecIdx |-> 1]
    ELSE Fill(node, r)

\* The blocks newer than position j, newest first: the order they are
\* withdrawn in.
NewerThan(node, j) ==
    [i \in 1..(Len(node.blocks) - j) |->
        node.blocks[Len(node.blocks) + 1 - i].ent]

-----------------------------------------------------------------------------
(* Reclaiming: reclaimSpecialRecTreeNode.                                  *)

\* memRecIdx == 0 and a single block: the node is removed, not compacted.
IsEmptyNode(node) == node.memRecIdx = 0 /\ Len(node.blocks) = 1

\* keepMaxIdx / searchMaxIdx of a cursor that enters block j.
LastSlot(node, j) ==
    IF j < Len(node.blocks) THEN MEMRECPERENTRY - 1 ELSE node.memRecIdx - 1

(* NEXTKEEPED and NEXTSEARCHING.  A cursor is a block, the index it believes
   to be at, and the last index of the block.  `return keeped++` returns the
   pointer before the increment, so the record a cursor points at is slot 0
   of its block, whatever its index says.                                  *)
NextCursor(node, c) ==
    IF c.idx < c.max THEN [c EXCEPT !.idx = @ + 1]
    ELSE [block |-> c.block + 1, idx |-> 0, max |-> LastSlot(node, c.block + 1)]

AtEnd(s) == s.search.block > Len(s.node.blocks)

(* One turn of the compaction loop.  s has the node and the two cursors; a
   record is live when its file is in open.                                *)
SweepStep(s, open) ==
    LET found == s.node.blocks[s.search.block].recArr[0]
        Moved(n) == [node |-> n, keep |-> NextCursor(n, s.keep),
                     search |-> NextCursor(n, s.search)]
    IN  IF found.fd \notin open
        THEN Moved([s.node EXCEPT !.recModEntry = s.keep.block,
                                  !.memRecIdx = s.keep.idx])
        ELSE IF s.keep.block # s.search.block
        THEN Moved([s.node EXCEPT !.blocks[s.keep.block].recArr[0] = found])
        ELSE [s EXCEPT !.search = NextCursor(s.node, @)]

SweepStart(node) ==
    LET c == [block |-> 1, idx |-> 0, max |-> LastSlot(node, 1)]
    IN  [node |-> node, keep |-> c, search |-> c]

\* The loop run to its end: each turn moves `search`, so that
\* MEMRECPERENTRY turns for each block are enough.
SweepEnd(node, open) ==
    LET turns == MEMRECPERENTRY * Len(node.blocks)
        After[n \in 0..turns] ==
            IF n = 0 THEN SweepStart(node)
            ELSE LET s == After[n - 1]
                 IN  IF AtEnd(s) THEN s ELSE SweepStep(s, open)
    IN  After[turns].node

\* Mutation of Compact: the newer blocks stay on the list.
CompactKeepsBlocks(node, open) == SweepEnd(node, open)

\* The compacted node: the blocks newer than recModEntry are given back.
Compact(node, open) ==
    LET n == SweepEnd(node, open)
    IN  [n EXCEPT !.blocks = SubSeq(@, 1, n.recModEntry)]

\* Mutation of CompactFrees: the first block to go is not withdrawn.
CompactFreesButOne(node, open) ==
    LET n == SweepEnd(node, open)
    IN  SubSeq(NewerThan(n, n.recModEntry), 2, Len(n.blocks) - n.recModEntry)

CompactFrees(node, open) ==
    LET n == SweepEnd(node, open) IN NewerThan(n, n.recModEntry)
=============================================================================
