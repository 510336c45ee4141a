------------------------------- MODULE Realloc -------------------------------
(* ts_realloc(ptr, size, tail): after realloc has moved the area, or left it
   where it is, each record of an address between ptr and tail is inserted
   again at its new address.  The old records stay (DEL_REALLOC_ADDR is 0).

   The walk shares `copy` with TracedCopy: at most one of the two runs.  A
   step is the search of a page, the turn of the do-while that enters a block,
   or one record.  The area moves to pages it had nothing on, or stays.      *)
EXTENDS TracedCopy

CONSTANT Reallocs   \* bound: the calls made; dest is what realloc returns

ASSUME ReallocsAssumption ==
    \A c \in Reallocs : c \in [src : Nat, dest : Nat, tail : Nat] /\ c.src <= c.tail

Reallocating == Calling /\ "tail" \in DOMAIN copy
InPhase(phase) == Reallocating /\ copy.phase = phase

-----------------------------------------------------------------------------
(* What a call sets out with: locals, and as ghosts the records that lie in
   the area and whether its pages have ordered lists of one block.           *)

InArea(src, tail, a) == a > src /\ a < tail
AreaRecords(src, dest, tail) ==
    UNION {{CopyOf(src, dest, p, r) :
               r \in {q \in SeenAt(p) : InArea(src, tail, getAddr(p, q.pageOffset))}}
              : p \in Source(src, PageOf(tail))}

ReallocCall(src, dest, tail) ==
    /\ ~Calling /\ ~halted
    /\ LET pages == Source(src, PageOf(tail))
       IN  /\ src = dest \/ Destination(src, dest, PageOf(tail)) \cap pages = {}
           /\ copy' = [phase |-> "search", src |-> src, dest |-> dest, tail |-> tail,
                       last |-> PageOf(tail), start |-> PageOf(src),
                       blockEntry |-> 0, idx |-> 0, uplimit |-> 0,
                       mostRecBlock |-> 0,
                       wanted |-> AreaRecords(src, dest, tail),
                       short |-> \A p \in pages \cap Traced :
                                    /\ Len(recTree[p].blocks) = 1
                                    /\ AllWritten(recTree[p])
                                    /\ Ascending(recTree[p])]
    /\ UNCHANGED vars

-----------------------------------------------------------------------------
(* A page.  mostRecBlock is read once, when the page is found.               *)

\* Mutation of NextReallocPage: the page of tail is left out.
NextButLast ==
    copy' = IF copy.start + 1 < copy.last
            THEN [copy EXCEPT !.phase = "search", !.start = @ + 1]
            ELSE [copy EXCEPT !.phase = "moved"]

NextReallocPage ==
    copy' = IF copy.start < copy.last
            THEN [copy EXCEPT !.phase = "search", !.start = @ + 1]
            ELSE [copy EXCEPT !.phase = "moved"]

SearchPage ==
    /\ InPhase("search")
    /\ IF copy.start \in Traced
       THEN copy' = [copy EXCEPT !.phase = "block", !.blockEntry = 1,
                                 !.mostRecBlock = srcRes.recModEntry]
       ELSE NextReallocPage
    /\ UNCHANGED vars

-----------------------------------------------------------------------------
(* A block: `do` to `while (blockEntry)`.                                    *)

uplimitHere ==
    IF copy.blockEntry = copy.mostRecBlock THEN srcRes.memRecIdx ELSE MEMRECPERENTRY

(* The offsets rec[uplimit] may hold: the slot behind the last record.  It
   was not written, or before a restart, or it lies in the next array.  What
   this list did not write is taken to be an offset on a page: zero, or what
   an earlier list left there.                                               *)
PastLast ==
    LET m == uplimitHere
        r == srcRes.blocks[copy.blockEntry].recArr[m]
    IN  IF m = MEMRECPERENTRY \/ r = Unwritten THEN 0..(PAGESIZE - 1)
        ELSE {r.pageOffset}

\* Mutation of Beyond: ptr for tail.
BeyondPtr(off) == getAddr(copy.start, off) >= copy.src

Beyond(off) == getAddr(copy.start, off) >= copy.tail

EnterBlock ==
    /\ InPhase("block")
    /\ \E off \in PastLast : ~Beyond(off)
    /\ copy' = [copy EXCEPT !.phase = "rec", !.idx = 0, !.uplimit = uplimitHere]
    /\ UNCHANGED vars

(* `continue` goes to the condition of the do-while, which is true, with
   blockEntry where it was: the next turn reads the same memory.  The phase
   "spin" has no way out.                                                    *)
Spin ==
    /\ InPhase("block")
    /\ \E off \in PastLast : Beyond(off)
    /\ copy' = [copy EXCEPT !.phase = "spin"]
    /\ UNCHANGED vars

-----------------------------------------------------------------------------
(* The records of a block.                                                   *)

(* The insert may restart the list the walk is on, when the area stayed: a
   newer block the walk is at is then withdrawn under it.  What it reads next
   is not followed: the phase is "lost".                                     *)
MoveRecord(r) ==
    LET c == CopyOf(copy.src, copy.dest, copy.start, r)
    IN  /\ c.page \in Pages
        /\ InsertFound(c.page, c.rec) \/ InsertNew(c.page, c.rec)
        /\ copy' = IF Len(recTree'[copy.start].blocks) < copy.blockEntry
                   THEN [copy EXCEPT !.phase = "lost"]
                   ELSE [copy EXCEPT !.idx = @ + 1]

VisitRecord ==
    /\ InPhase("rec") /\ copy.idx < copy.uplimit
    /\ \E r \in IF curMemRec = Unwritten THEN Rec ELSE {curMemRec} :
         IF getAddr(copy.start, r.pageOffset) <= copy.src
         THEN copy' = [copy EXCEPT !.idx = @ + 1] /\ UNCHANGED vars
         ELSE IF Beyond(r.pageOffset)
         THEN copy' = [copy EXCEPT !.idx = copy.uplimit] /\ UNCHANGED vars
         ELSE MoveRecord(r)

\* Mutation of LeaveBlock: TAILQ_PREV is taken once more.
LeaveBlockLate ==
    /\ InPhase("rec") /\ copy.idx >= copy.uplimit
    /\ copy' = [copy EXCEPT !.blockEntry = @ + 1, !.idx = 0]
    /\ UNCHANGED vars

\* TAILQ_PREV, and the end of the page when there is no newer block.
LeaveBlock ==
    /\ InPhase("rec") /\ copy.idx >= copy.uplimit
    /\ IF copy.blockEntry < Len(srcRes.blocks)
       THEN copy' = [copy EXCEPT !.phase = "block", !.blockEntry = @ + 1]
       ELSE NextReallocPage
    /\ UNCHANGED vars

ReallocStep ==
    SearchPage \/ EnterBlock \/ Spin \/ VisitRecord \/ LeaveBlock

ReallocReturn == InPhase("moved") /\ copy' = NoCall /\ UNCHANGED vars

ReallocNext ==
    \/ TracedNext
    \/ \E c \in Reallocs : ReallocCall(c.src, c.dest, c.tail)
    \/ ReallocStep
    \/ ReallocReturn

ReallocSpec == TracedInit /\ [][ReallocNext]_tracedVars

(* A call that was made goes on: it runs in the caller's thread. *)
FairReallocSpec == ReallocSpec /\ WF_tracedVars(ReallocStep \/ ReallocReturn)

-----------------------------------------------------------------------------
(* Properties.                                                               *)

(* The walks of ts_memcpy_traced and of ts_realloc stay on the list of their
   page, at a slot they have taken the limit of, through lists that earlier
   cuts, moves and restarts have left (awn.c:1091-1111, 1624-1655).          *)
ReallocTypeOK ==
    /\ TracedTypeOK
    /\ InPhase("rec") =>
         /\ copy.start \in Source(copy.src, copy.last) \cap Traced
         /\ copy.blockEntry \in 1..Len(srcRes.blocks)
         /\ copy.uplimit \in 0..MEMRECPERENTRY
         /\ copy.idx \in 0..copy.uplimit

(* From ordered pages of one block each, the records strictly inside the area
   are all seen at their new addresses, whether the area moved or stayed and
   the walk restarted the lists it was reading (awn.c:1655-1673).            *)
ReallocMoves ==
    InPhase("moved") /\ copy.short =>
        \A w \in copy.wanted : w.rec \in SeenAt(w.page)

(* Where ts_realloc goes wrong: it hangs only on the page of tail, never when
   that page has no records; and the list is withdrawn under the walk only
   when the area stayed and the walk had gone on to a newer block.           *)
ReallocFailsOnlyThere ==
    /\ InPhase("spin") => copy.start = PageOf(copy.tail)
    /\ InPhase("lost") => copy.src = copy.dest /\ copy.blockEntry > 1

(* awn.c:1651: a block whose records lie beyond the area is passed over
   ("later recorder must be larger, continue"), so the walk comes to its end
   and the call returns, or reaches a list withdrawn under it.               *)
ReallocEnds == Reallocating ~> (~Reallocating \/ InPhase("lost"))
=============================================================================
