----------------------------- MODULE TracedCopy -----------------------------
(* ts_memcpy_traced(dest, src, n): a copy between two stretches of traced
   memory.  The walk over the lists of the source pages inserts a record at
   the destination for each record it finds, and first cuts the list of the
   first source page back to the place where the copy starts.

   A step is the search on a page, one record, or the move to the next block:
   between two of them the walk keeps what it has read (srcLastEntry, uplimit)
   and reads the node again.  The source and the destination share no page,
   and no insert comes when a sweep is due.                                 *)
EXTENDS RecTree

CONSTANTS
    FilledPages,    \* bound: pages records get into by other calls
    Calls           \* bound: the calls made, with the page of src + n for n

ASSUME FilledPagesAssumption == FilledPages \subseteq Pages

VARIABLE copy   \* the call: its arguments, its locals and ghosts

tracedVars == <<vars, copy>>

PageOf(a) == a \div PAGESIZE
OffsetOf(a) == a % PAGESIZE
getAddr(page, off) == page * PAGESIZE + off

ASSUME CallsAssumption ==
    \A c \in Calls : /\ c \in [src : Nat, dest : Nat, last : Nat]
                     /\ PageOf(c.src) <= c.last

NoCall == [phase |-> "idle"]
Calling == copy.phase # "idle"

TracedInit == Init /\ copy = NoCall

-----------------------------------------------------------------------------
(* What a call sets out with.  `last` is the page of src + n.              *)

Source(src, last) == PageOf(src)..last
Destination(src, dest, last) == PageOf(dest)..(PageOf(dest) + last - PageOf(src) + 1)

\* Ghosts: what the readers see of the source, and where the copy puts it.
SeenAt(p) ==
    IF p \in Traced
    THEN {RecAt(recTree[p], pl) : pl \in Places(recTree[p])} \ {Unwritten}
    ELSE {}
CopyOf(src, dest, p, r) ==
    LET a == dest + getAddr(p, r.pageOffset) - src
    IN  [page |-> PageOf(a), rec |-> [r EXCEPT !.pageOffset = OffsetOf(a)]]
Wanted(src, dest, last) ==
    UNION {{CopyOf(src, dest, p, r) :
               r \in {q \in SeenAt(p) : getAddr(p, q.pageOffset) >= src}}
              : p \in Source(src, last)}
Below(src) == {r \in SeenAt(PageOf(src)) : r.pageOffset < OffsetOf(src)}

Call(src, dest, last) ==
    /\ ~Calling /\ ~halted
    /\ Source(src, last) \cap Destination(src, dest, last) = {}
    /\ copy' = [phase |-> "page", src |-> src, dest |-> dest, last |-> last,
                start |-> PageOf(src), blockEntry |-> 0, idx |-> 0,
                uplimit |-> 0, srcLastEntry |-> 0,
                wanted |-> Wanted(src, dest, last), below |-> Below(src),
                short |-> \A p \in Source(src, last) \cap Traced :
                             Len(recTree[p].blocks) = 1,
                ordered |-> PageOf(src) \in Traced =>
                               /\ AllWritten(recTree[PageOf(src)])
                               /\ Ascending(recTree[PageOf(src)])]
    /\ UNCHANGED vars

-----------------------------------------------------------------------------
(* A source page.                                                          *)

srcRes == recTree[copy.start]

NextPage ==
    copy' = IF copy.start < copy.last
            THEN [copy EXCEPT !.phase = "page", !.start = @ + 1]
            ELSE [copy EXCEPT !.phase = "done"]

\* Mutation of AtOrAbove: > for >=.
AboveOnly(recs, m, off) ==
    LET May(r)  == r = Unwritten \/ r.pageOffset > off
        Must(r) == r # Unwritten /\ r.pageOffset > off
    IN  {i \in 0..m : (i < m => May(recs[i])) /\ \A k \in 0..(i - 1) : ~Must(recs[k])}

(* The first of recs[0 .. m-1] whose offset is not below off, or m, in every
   outcome unwritten records leave open.                                   *)
AtOrAbove(recs, m, off) ==
    LET May(r)  == r = Unwritten \/ r.pageOffset >= off
        Must(r) == r # Unwritten /\ r.pageOffset >= off
    IN  {i \in 0..m : (i < m => May(recs[i])) /\ \A k \in 0..(i - 1) : ~Must(recs[k])}

\* The blocks the search may stop at, as positions; Len + 1 for none.  All
\* are tested at the filled block's index: recModEntry IS srcLastEntry.
StartBlocks(off) ==
    LET tested == [k \in 0..(Len(srcRes.blocks) - 1) |->
                     srcRes.blocks[k + 1].recArr[srcRes.memRecIdx - 1]]
    IN  {k + 1 : k \in AtOrAbove(tested, Len(srcRes.blocks), off)}

\* Mutation of CutAt: the block is cut to nothing.
CutAtStart(block, i) ==
    recTree' = [recTree EXCEPT ![copy.start].recModEntry = block,
                               ![copy.start].memRecIdx = 0]

CutAt(block, i) ==
    recTree' = [recTree EXCEPT ![copy.start].recModEntry = block,
                               ![copy.start].memRecIdx = i]

Walk(block, i, limit) ==
    copy' = [copy EXCEPT !.phase = "records", !.blockEntry = block, !.idx = i,
                         !.uplimit = limit, !.srcLastEntry = srcRes.recModEntry]

(* The page of src.  memRecIdx may be 0 after an earlier cut: the test then
   reads before the array, and whatever it finds nothing is copied.        *)
FirstPage ==
    /\ copy.phase = "page" /\ copy.start = PageOf(copy.src)
    /\ copy.start \in Traced /\ srcRes.memRecIdx > 0
    /\ LET off   == OffsetOf(copy.src)
           limit == srcRes.memRecIdx
       IN  \E block \in StartBlocks(off) :
             IF block > Len(srcRes.blocks)
             THEN NextPage /\ UNCHANGED recTree
             ELSE \E i \in AtOrAbove(srcRes.blocks[block].recArr, limit, off) :
                    /\ Walk(block, i, limit)
                    /\ IF i < limit THEN CutAt(block, i) ELSE UNCHANGED recTree
    /\ UNCHANGED <<RECTREENODEPOOLIDX, TAILHEADPOOLIDX, RECTREENODETHRESHOLD,
                   recBlocks, openFileArray, halted>>

LaterPage ==
    /\ copy.phase = "page" /\ copy.start # PageOf(copy.src)
    /\ copy.start \in Traced
    /\ Walk(1, 0, srcRes.memRecIdx)
    /\ UNCHANGED vars

PassPage ==
    /\ copy.phase = "page"
    /\ copy.start \in Traced =>
         copy.start = PageOf(copy.src) /\ srcRes.memRecIdx = 0
    /\ NextPage
    /\ UNCHANGED vars

-----------------------------------------------------------------------------
(* The records of a block.                                                 *)

curMemRec == srcRes.blocks[copy.blockEntry].recArr[copy.idx]

CopyRecord ==
    /\ copy.phase = "records"
    /\ copy.idx < copy.uplimit
    /\ \E r \in IF curMemRec = Unwritten THEN Rec ELSE {curMemRec} :
         LET c == CopyOf(copy.src, copy.dest, copy.start, r)
         IN  /\ c.page \in Pages \ Source(copy.src, copy.last)
             /\ InsertFound(c.page, c.rec) \/ InsertNew(c.page, c.rec)
    /\ copy' = [copy EXCEPT !.idx = @ + 1]

BlockDone == copy.phase = "records" /\ copy.idx >= copy.uplimit

(* uplimit stays what it was for the block before, unless the next one is
   the block that was filled when the page was reached.                    *)
NextBlock ==
    /\ BlockDone
    /\ copy.blockEntry < Len(srcRes.blocks)
    /\ LET next == copy.blockEntry + 1
       IN  copy' = [copy EXCEPT
                      !.blockEntry = next, !.idx = 0,
                      !.uplimit = IF next = copy.srcLastEntry
                                  THEN srcRes.memRecIdx ELSE @]
    /\ UNCHANGED vars

PageDone ==
    /\ BlockDone
    /\ copy.blockEntry = Len(srcRes.blocks)
    /\ NextPage
    /\ UNCHANGED vars

Return == copy.phase = "done" /\ copy' = NoCall /\ UNCHANGED vars

TracedNext ==
    \/ /\ ~Calling
       /\ \/ \E fd \in Fds : MapFile(fd) \/ UnmapFile(fd)
          \/ \E p \in FilledPages, r \in Rec :
                Insertable(r) /\ (InsertFound(p, r) \/ InsertNew(p, r))
       /\ UNCHANGED copy
    \/ \E c \in Calls : Call(c.src, c.dest, c.last)
    \/ FirstPage \/ LaterPage \/ PassPage
    \/ CopyRecord \/ NextBlock \/ PageDone
    \/ Return

TracedSpec == TracedInit /\ [][TracedNext]_tracedVars

-----------------------------------------------------------------------------
(* Properties.                                                             *)

(* The tree stays a tree of lists with the filled block in them through any
   number of cuts, and the walk stays on its page's list.                  *)
TracedTypeOK ==
    /\ TypeOK
    /\ copy.phase = "records" =>
         /\ copy.start \in Source(copy.src, copy.last) \cap Traced
         /\ copy.blockEntry \in 1..Len(srcRes.blocks)
         /\ copy.uplimit \in 0..MEMRECPERENTRY
         /\ copy.idx \in 0..copy.uplimit

Returning == copy.phase = "done"

(* A copy from pages of one block each moves their records: every record of
   the source from src on is seen at the destination, and none of those of
   src's page is left at the source.                                       *)
ShortPagesMove ==
    Returning /\ copy.short =>
        /\ \A w \in copy.wanted : w.rec \in SeenAt(w.page)
        /\ SeenAt(PageOf(copy.src)) = copy.below

(* However long the lists, the cut takes from the readers of an ordered
   source page nothing that lies before src.                               *)
PrefixStays ==
    Returning /\ copy.ordered => copy.below \subseteq SeenAt(PageOf(copy.src))
=============================================================================
