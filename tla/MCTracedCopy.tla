---------------------------- MODULE MCTracedCopy ----------------------------
(* Traced copies for TLC: from page 1, or pages 1 and 2, to the pages from 4
   on, at a larger offset, a smaller one or the same.                       *)
EXTENDS Realloc

MCCalls ==
    {[src |-> getAddr(1, 0), dest |-> getAddr(4, 1), last |-> 1],
     [src |-> getAddr(1, 1), dest |-> getAddr(4, 0), last |-> 2]}

(* Areas of pages 1 and 2: moved to the pages from 4 on with the end inside
   page 2, or at its first byte; and left where they are.                   *)
MCReallocs ==
    {[src |-> getAddr(1, 0), dest |-> getAddr(4, 1), tail |-> getAddr(2, 1)],
     [src |-> getAddr(1, 0), dest |-> getAddr(1, 0), tail |-> getAddr(1, 2)],
     [src |-> getAddr(1, 0), dest |-> getAddr(4, 0), tail |-> getAddr(2, 0)]}

\* An area that ends where page 2 begins.
MCAligned == {[src |-> getAddr(1, 0), dest |-> getAddr(4, 0), tail |-> getAddr(2, 0)]}

(* Bounds: page 2 holds at most a record of offset 0, and files stay mapped
   once there are records.                                                 *)
OnePageFills ==
    /\ 2 \in Traced => /\ recTree[2].memRecIdx <= 1
                       /\ recTree[2].blocks[1].recArr[0].pageOffset = 0
    /\ openFileArray = Fds \/ Traced = {}

(* What the walk and the readers can tell apart: which cell of the pool a
   block is decides nothing.                                               *)
Contents ==
    [p \in Traced |-> [recTree[p] EXCEPT
                         !.blocks = [j \in DOMAIN @ |-> @[j].recArr]]]
ContentsView == <<Contents, openFileArray, halted, copy>>
=============================================================================
