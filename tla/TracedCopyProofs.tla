-------------------------- MODULE TracedCopyProofs --------------------------
(* What holds of the walks of ts_memcpy_traced and ts_realloc, for every
   instance of Realloc: they stay on the lists they walk, through the cuts,
   moves and restarts earlier calls have left; ts_realloc fails only in the
   two places known; the cut takes nothing before its place; and from pages
   of one block each, all that is wanted arrives.                           *)
EXTENDS Realloc, RecTreeProofs

-----------------------------------------------------------------------------
(* Addresses.                                                               *)

(* A page and an offset make an address, and one only.                      *)
LEMMA AddressSplit ==
    ASSUME NEW a \in Int
    PROVE  /\ PageOf(a) \in Int /\ OffsetOf(a) \in 0..(PAGESIZE - 1)
           /\ a = PageOf(a) * PAGESIZE + OffsetOf(a)
  BY PageSizeAssumption DEF PageOf, OffsetOf

LEMMA AddressJoined ==
    ASSUME NEW q \in Int, NEW off \in 0..(PAGESIZE - 1)
    PROVE  /\ getAddr(q, off) \in Int
           /\ PageOf(getAddr(q, off)) = q /\ OffsetOf(getAddr(q, off)) = off
  BY PageSizeAssumption DEF PageOf, OffsetOf, getAddr

(* Higher addresses are on higher pages, or at higher offsets of the page.  *)
LEMMA PagesOrdered ==
    ASSUME NEW a \in Int, NEW b \in Int, a <= b
    PROVE  /\ PageOf(a) <= PageOf(b)
           /\ PageOf(a) = PageOf(b) => OffsetOf(a) <= OffsetOf(b)
           /\ PageOf(a) = PageOf(b) /\ a < b => OffsetOf(a) < OffsetOf(b)
<1> DEFINE x == PageOf(a)
           y == PageOf(b)
           P == PAGESIZE
<1>1. /\ x \in Int /\ a = x * P + OffsetOf(a) /\ OffsetOf(a) \in 0..(P - 1)
      /\ y \in Int /\ b = y * P + OffsetOf(b) /\ OffsetOf(b) \in 0..(P - 1)
      /\ P \in Nat \ {0}
  BY AddressSplit, PageSizeAssumption
<1> HIDE DEF x, y, P
<1>2. x <= y
  <2> SUFFICES ASSUME y + 1 <= x PROVE FALSE
    BY <1>1
  <2>1. (y + 1) * P <= x * P
    BY <1>1
  <2> QED BY <1>1, <2>1
<1>3. x = y => b - a = OffsetOf(b) - OffsetOf(a)
  BY <1>1
<1> QED BY <1>1, <1>2, <1>3 DEF x, y

(* The pages of an area moved from src to dest.                             *)
LEMMA MovedInside ==
    ASSUME NEW src \in Nat, NEW dest \in Nat, NEW end \in Nat,
           NEW a \in Int, src <= a, PageOf(a) <= PageOf(end)
    PROVE  PageOf(dest + a - src) \in Destination(src, dest, PageOf(end))
<1> DEFINE P == PAGESIZE
           s == PageOf(src)
           d == PageOf(dest)
           x == PageOf(a)
           y == PageOf(dest + a - src)
<1>1. /\ s \in Int /\ d \in Int /\ x \in Int /\ y \in Int /\ P \in Nat \ {0}
      /\ PageOf(end) \in Int
      /\ s * P <= src /\ src < s * P + P
      /\ d * P <= dest /\ dest < d * P + P
      /\ x * P <= a /\ a < x * P + P
      /\ y * P <= dest + a - src
  <2>1. \A b \in Int : PageOf(b) \in Int /\ PageOf(b) * P <= b /\ b < PageOf(b) * P + P
    <3> SUFFICES ASSUME NEW b \in Int
                 PROVE  PageOf(b) \in Int /\ PageOf(b) * P <= b /\ b < PageOf(b) * P + P
      OBVIOUS
    <3>1. /\ PageOf(b) \in Int /\ OffsetOf(b) \in 0..(P - 1)
          /\ b = PageOf(b) * P + OffsetOf(b)
      BY AddressSplit
    <3> HIDE DEF P
    <3> QED BY <3>1, PageSizeAssumption DEF P
  <2>2. src \in Int /\ dest \in Int /\ end \in Int /\ dest + a - src \in Int
    OBVIOUS
  <2> HIDE DEF P
  <2> QED BY <2>1, <2>2, PageSizeAssumption DEF P
<1>2. d <= y
  <2>1. dest \in Int /\ dest + a - src \in Int /\ dest <= dest + a - src
    OBVIOUS
  <2> QED BY <2>1, PagesOrdered
<1>3. x <= PageOf(end)
  OBVIOUS
<1> HIDE DEF P, s, d, x, y
<1>4. y <= d + x - s + 1
  <2> SUFFICES ASSUME d + x - s + 2 <= y PROVE FALSE
    BY <1>1
  <2>1. (d + x - s + 2) * P <= y * P
    BY <1>1
  <2>2. (d + x - s + 2) * P = d * P + x * P - s * P + 2 * P
    BY <1>1
  <2> QED BY <1>1, <2>1, <2>2
<1>5. y \in d..(d + PageOf(end) - s + 1)
  BY <1>1, <1>2, <1>3, <1>4
<1> QED BY <1>5 DEF Destination, d, s, y

(* A record's copy is a record.                                             *)
LEMMA CopyTyped ==
    ASSUME NEW src \in Nat, NEW dest \in Nat, NEW p \in Int, NEW r \in Rec
    PROVE  /\ CopyOf(src, dest, p, r).rec \in Rec
           /\ CopyOf(src, dest, p, r).page = PageOf(dest + getAddr(p, r.pageOffset) - src)
           /\ getAddr(p, r.pageOffset) \in Int
           /\ PageOf(getAddr(p, r.pageOffset)) = p
<1> DEFINE a == dest + getAddr(p, r.pageOffset) - src
<1>1. r.pageOffset \in 0..(PAGESIZE - 1)
  BY DEF Rec
<1>2. /\ getAddr(p, r.pageOffset) \in Int
      /\ PageOf(getAddr(p, r.pageOffset)) = p
  BY <1>1, AddressJoined
<1>3. a \in Int
  BY <1>2
<1>4. OffsetOf(a) \in 0..(PAGESIZE - 1)
  BY <1>3, AddressSplit
<1>5. CopyOf(src, dest, p, r) = [page |-> PageOf(a), rec |-> [r EXCEPT !.pageOffset = OffsetOf(a)]]
  BY DEF CopyOf
<1> HIDE DEF a
<1>6. [r EXCEPT !.pageOffset = OffsetOf(a)] \in Rec
  BY <1>4 DEF Rec
<1> QED BY <1>2, <1>5, <1>6 DEF a

-----------------------------------------------------------------------------
(* The tree, when lists may have been cut at any block.                     *)

TreeInv ==
    /\ recTree = [p \in Traced |-> recTree[p]]
    /\ Traced \subseteq Pages
    /\ \A p \in Traced : Formed(recTree[p])
    /\ Accounted(recTree, recBlocks)
    /\ Counted(RECTREENODEPOOLIDX, TAILHEADPOOLIDX, Traced)
    /\ RECTREENODETHRESHOLD \in 0..RECTREENODEPOOLSIZE
    /\ openFileArray \subseteq Fds
    /\ halted \in BOOLEAN

\* What inserting r into page p does to the lists.
Inserted(p, r) ==
    /\ Traced' = Traced \cup {p}
    /\ \A q \in Traced : q # p => recTree'[q] = recTree[q]
    /\ p \in Traced => Became(recTree[p], recTree'[p], r)
    /\ p \notin Traced => \E e : recTree'[p] = WriteRec(NewNode(e), r, Unset)

LEMMA InsertTree ==
    ASSUME TreeInv, NEW p \in Pages, NEW r \in Rec, InsertFound(p, r) \/ InsertNew(p, r)
    PROVE  TreeInv' /\ Inserted(p, r)
<1>0. /\ Accounted(recTree, recBlocks) /\ Traced = DOMAIN recTree
      /\ Traced' = DOMAIN recTree' /\ Traced \subseteq Pages
      /\ \A q \in Traced : Formed(recTree[q])
  BY DEF TreeInv, Traced
<1>1. CASE InsertFound(p, r)
  <2>1. p \in Traced /\ UNCHANGED <<RECTREENODEPOOLIDX, TAILHEADPOOLIDX,
                                    RECTREENODETHRESHOLD, openFileArray, halted>>
    BY <1>1 DEF InsertFound
  <2>2. PICK m : /\ Became(recTree[p], m, r)
                 /\ recTree' = With(recTree, p, m)
                 /\ Accounted(recTree', recBlocks')
    BY <1>0, <1>1, <2>1, TreeChanges
  <2>3. Formed(m)
    BY <1>0, <2>1, <2>2, BecameFormed
  <2>4. /\ DOMAIN recTree' = DOMAIN recTree
        /\ recTree' = [q \in DOMAIN recTree' |-> recTree'[q]]
        /\ \A q \in DOMAIN recTree : recTree'[q] = IF q = p THEN m ELSE recTree[q]
    BY <2>2 DEF With
  <2>5. \A q \in Traced' : Formed(recTree'[q])
    BY <1>0, <2>3, <2>4
  <2>6. TreeInv'
    BY <1>0, <2>1, <2>2, <2>4, <2>5 DEF TreeInv
  <2>7. Inserted(p, r)
    BY <1>0, <2>1, <2>2, <2>4 DEF Inserted
  <2> QED BY <2>6, <2>7
<1>2. CASE InsertNew(p, r)
  <2>1. /\ AddTreeNode(recTree, RECTREENODEPOOLIDX, TAILHEADPOOLIDX, recBlocks, p, r)
        /\ p \notin Traced /\ RECTREENODEPOOLIDX # 0
        /\ UNCHANGED <<RECTREENODETHRESHOLD, openFileArray, halted>>
    BY <1>2 DEF InsertNew, SweepDue
  <2>2. PICK e : /\ recTree' = Plus(recTree, p, WriteRec(NewNode(e), r, Unset))
                 /\ Accounted(recTree', recBlocks')
    BY <1>0, <2>1, TreeGrows
  <2> DEFINE m == WriteRec(NewNode(e), r, Unset)
  <2>3. Formed(m)
    BY NewNodeUsable, UsableFormed
  <2>e. \E x : m = WriteRec(NewNode(x), r, Unset)
    OBVIOUS
  <2>4. recTree' = Plus(recTree, p, m)
    BY <2>2
  <2> HIDE DEF m
  <2>5. /\ DOMAIN recTree' = DOMAIN recTree \cup {p}
        /\ recTree' = [q \in DOMAIN recTree' |-> recTree'[q]]
        /\ \A q \in DOMAIN recTree' : recTree'[q] = IF q = p THEN m ELSE recTree[q]
    BY <2>4 DEF Plus
  <2>6. \A q \in Traced' : Formed(recTree'[q])
    BY <1>0, <2>3, <2>5
  <2>7. Counted(RECTREENODEPOOLIDX, TAILHEADPOOLIDX, Traced)'
    <3>1. Counted(RECTREENODEPOOLIDX, TAILHEADPOOLIDX, Traced)
      BY DEF TreeInv
    <3>2. IsFiniteSet(Traced)
      <4>1. Traced \in SUBSET Pages /\ IsFiniteSet(Pages)
        BY <1>0, PagesAssumption
      <4> QED BY <4>1, FS_Subset
    <3>3. RECTREENODEPOOLIDX > 0
      BY <2>1, <3>1, NodePoolAssumption DEF Counted
    <3>4. Counted(RECTREENODEPOOLIDX - 1, TAILHEADPOOLIDX - 1, Traced \cup {p})
      BY <2>1, <3>1, <3>2, <3>3, PageCounted
    <3>5. /\ RECTREENODEPOOLIDX' = RECTREENODEPOOLIDX - 1
          /\ TAILHEADPOOLIDX' = TAILHEADPOOLIDX - 1
      BY <2>1 DEF AddTreeNode
    <3>6. Traced' = Traced \cup {p}
      BY <1>0, <2>5
    <3> QED BY <3>4, <3>5, <3>6 DEF Counted
  <2>8. TreeInv'
    BY <1>0, <2>1, <2>2, <2>5, <2>6, <2>7 DEF TreeInv
  <2>9. Inserted(p, r)
    BY <1>0, <2>1, <2>5, <2>e DEF Inserted
  <2> QED BY <2>8, <2>9
<1> QED BY <1>1, <1>2

(* The cut: a node is filled further on from another place.                 *)
LEMMA CutTree ==
    ASSUME TreeInv, copy.start \in Traced, NEW block \in 1..Len(srcRes.blocks),
           NEW i \in 0..MEMRECPERENTRY, CutAt(block, i),
           UNCHANGED <<RECTREENODEPOOLIDX, TAILHEADPOOLIDX, RECTREENODETHRESHOLD,
                       recBlocks, openFileArray, halted>>
    PROVE  /\ TreeInv' /\ Traced' = Traced
           /\ \A q \in Traced : q # copy.start => recTree'[q] = recTree[q]
           /\ recTree'[copy.start].blocks = srcRes.blocks
           /\ recTree'[copy.start].recModEntry = block
           /\ recTree'[copy.start].memRecIdx = i
<1> DEFINE p == copy.start
           n == recTree[p]
           m == [n EXCEPT !.recModEntry = block, !.memRecIdx = i]
<1>0. /\ Accounted(recTree, recBlocks) /\ Traced = DOMAIN recTree
      /\ Traced' = DOMAIN recTree' /\ Traced \subseteq Pages
      /\ \A q \in Traced : Formed(recTree[q])
      /\ recTree = [q \in Traced |-> recTree[q]]
  BY DEF TreeInv, Traced
<1>1. PICK E : n \in NodeOver(E)
  BY <1>0 DEF Formed
<1>2. block \in 1..Len(n.blocks) /\ Len(n.blocks) \in Nat \ {0} /\ p \in Traced
  BY <1>0 DEF srcRes, Formed
<1>3. /\ m \in NodeOver(E) /\ m.blocks = n.blocks
      /\ m.recModEntry = block /\ m.memRecIdx = i
  <2>1. block \in Int /\ i \in Int
    BY <1>2, MemRecPerEntryAssumption
  <2> HIDE DEF n
  <2> QED BY <1>1, <2>1 DEF NodeOver
<1>4. recTree' = With(recTree, p, m)
  <2>1. recTree' = [recTree EXCEPT ![copy.start].recModEntry = block,
                                   ![copy.start].memRecIdx = i]
    BY DEF CutAt
  <2>2. [recTree EXCEPT ![copy.start].recModEntry = block, ![copy.start].memRecIdx = i]
          = [recTree EXCEPT ![p] = m]
    BY <1>0, <1>2
  <2> QED BY <2>1, <2>2 DEF With
<1>5. Formed(m)
  BY <1>2, <1>3 DEF Formed
<1> HIDE DEF m, n, p
<1>6. /\ DOMAIN recTree' = DOMAIN recTree
      /\ recTree' = [q \in DOMAIN recTree' |-> recTree'[q]]
      /\ \A q \in DOMAIN recTree : recTree'[q] = IF q = p THEN m ELSE recTree[q]
  BY <1>4 DEF With
<1>7. Distinct(m) /\ Ents(m) = Ents(n)
  <2>1. Distinct(n)
    BY <1>0, <1>2 DEF Accounted, Apart, n
  <2> QED BY <1>3, <2>1 DEF Distinct, Ents
<1>8. Accounted(recTree', recBlocks')
  <2>1. Ents(n) \subseteq Used(recTree)
    BY <1>0, <1>2 DEF Used, n
  <2>2. Apart(recTree') /\ Used(recTree') = (Used(recTree) \ Ents(recTree[p])) \cup Ents(m)
    <3>1. Apart(recTree) /\ p \in DOMAIN recTree
      BY <1>0, <1>2 DEF Accounted
    <3>2. Ents(m) \cap (Used(recTree) \ Ents(recTree[p])) = {}
      BY <1>7 DEF n
    <3> QED BY <1>4, <1>7, <3>1, <3>2, NodeReplaced
  <2>3. Used(recTree') = Used(recTree)
    BY <1>7, <2>1, <2>2 DEF n
  <2> QED BY <1>0, <2>2, <2>3 DEF Accounted
<1>9. \A q \in Traced' : Formed(recTree'[q])
  BY <1>0, <1>5, <1>6
<1>10. TreeInv'
  BY <1>0, <1>6, <1>8, <1>9 DEF TreeInv
<1>11. recTree'[copy.start] = m /\ srcRes = n
  BY <1>0, <1>2, <1>6 DEF p, n, srcRes
<1> QED BY <1>0, <1>3, <1>6, <1>10, <1>11 DEF p

-----------------------------------------------------------------------------
(* The walks.                                                               *)

TracedFields == {"phase", "src", "dest", "last", "start", "blockEntry", "idx",
                 "uplimit", "srcLastEntry", "wanted", "below", "short", "ordered"}
ReallocFields == {"phase", "src", "dest", "tail", "last", "start", "blockEntry",
                  "idx", "uplimit", "mostRecBlock", "wanted", "short"}

\* The walk is on the list of its page, before a slot it may read.
OnList == copy.start \in Traced /\ copy.blockEntry \in 1..Len(srcRes.blocks)
AtSlot == copy.uplimit \in 0..MEMRECPERENTRY /\ copy.idx \in 0..copy.uplimit

InTraced ==
    /\ copy = [f \in TracedFields |-> copy[f]]
    /\ copy.phase \in {"page", "records", "done"}
    /\ copy.src \in Nat /\ copy.dest \in Nat /\ copy.last \in Nat
    /\ copy.start \in Source(copy.src, copy.last)
    /\ Source(copy.src, copy.last) \cap Destination(copy.src, copy.dest, copy.last) = {}
    /\ copy.phase = "records" => OnList /\ AtSlot

InRealloc ==
    /\ copy = [f \in ReallocFields |-> copy[f]]
    /\ copy.phase \in {"search", "block", "rec", "moved", "spin", "lost"}
    /\ copy.src \in Nat /\ copy.dest \in Nat /\ copy.tail \in Nat
    /\ copy.last = PageOf(copy.tail)
    /\ copy.start \in Source(copy.src, copy.last)
    /\ \/ copy.src = copy.dest
       \/ Source(copy.src, copy.last) \cap Destination(copy.src, copy.dest, copy.last) = {}
    /\ copy.phase \in {"block", "rec"} => OnList
    /\ copy.phase = "rec" => AtSlot
    /\ copy.phase = "spin" => copy.start = PageOf(copy.tail)
    /\ copy.phase = "lost" => copy.src = copy.dest /\ copy.blockEntry > 1

WalkInv == TreeInv /\ (copy = NoCall \/ InTraced \/ InRealloc)

(* Which of the three it is the phase says.                                 *)
LEMMA WalkPhases ==
    ASSUME WalkInv
    PROVE  /\ ~Calling => copy = NoCall
           /\ copy.phase \in {"page", "records", "done"} => InTraced
           /\ Reallocating => InRealloc
           /\ InTraced => ~Reallocating /\ Calling
           /\ InRealloc => copy.phase \notin {"page", "records", "done"} /\ Calling
<1>1. NoCall.phase = "idle" /\ DOMAIN NoCall = {"phase"}
  BY DEF NoCall
<1>2. InTraced => DOMAIN copy = TracedFields
  BY DEF InTraced
<1>3. "tail" \notin TracedFields /\ "tail" \notin {"phase"}
  BY DEF TracedFields
<1>4. InTraced => copy.phase \in {"page", "records", "done"}
  BY DEF InTraced
<1>5. InRealloc => copy.phase \in {"search", "block", "rec", "moved", "spin", "lost"}
  BY DEF InRealloc
<1> QED BY <1>1, <1>2, <1>3, <1>4, <1>5 DEF WalkInv, Calling, Reallocating

(* A record of a block the walk is on.                                      *)
LEMMA SlotTyped ==
    ASSUME TreeInv, OnList, NEW i \in Slots
    PROVE  srcRes.blocks[copy.blockEntry].recArr[i] \in Rec \cup {Unwritten}
<1>1. Formed(srcRes)
  BY DEF TreeInv, OnList, srcRes
<1>2. PICK E : srcRes \in NodeOver(E)
  BY <1>1 DEF Formed
<1>3. srcRes.blocks \in Seq(BlockOver(E)) /\ copy.blockEntry \in 1..Len(srcRes.blocks)
  BY <1>2 DEF NodeOver, OnList
<1>4. srcRes.blocks[copy.blockEntry] \in BlockOver(E)
  BY <1>3
<1> QED BY <1>4 DEF BlockOver

(* The library's own steps between calls.                                   *)
LEMMA OutsideWalk ==
    ASSUME WalkInv, ~Calling, UNCHANGED copy,
           \/ \E fd \in Fds : MapFile(fd) \/ UnmapFile(fd)
           \/ \E p \in FilledPages, r \in Rec :
                 Insertable(r) /\ (InsertFound(p, r) \/ InsertNew(p, r))
    PROVE  WalkInv'
<1>1. copy' = NoCall
  BY WalkPhases
<1>2. ASSUME NEW fd \in Fds, MapFile(fd) \/ UnmapFile(fd) PROVE TreeInv'
  <2>1. openFileArray' \subseteq Fds
    BY <1>2 DEF MapFile, UnmapFile, WalkInv, TreeInv
  <2> QED BY <1>2, <2>1 DEF MapFile, UnmapFile, WalkInv, TreeInv, Traced
<1>3. ASSUME NEW p \in FilledPages, NEW r \in Rec, InsertFound(p, r) \/ InsertNew(p, r)
      PROVE  TreeInv'
  BY <1>3, FilledPagesAssumption, InsertTree DEF WalkInv
<1>4. TreeInv'
  BY <1>2, <1>3
<1> QED BY <1>1, <1>4 DEF WalkInv

(* A step that leaves the tree.                                             *)
LEMMA TreeUnchanged ==
    ASSUME WalkInv, UNCHANGED vars
    PROVE  TreeInv' /\ Traced' = Traced /\ \A p : recTree'[p] = recTree[p]
  BY DEF WalkInv, TreeInv, vars, Traced

(* Calls begin ...                                                          *)
LEMMA CallWalks ==
    ASSUME WalkInv, NEW c \in Calls, Call(c.src, c.dest, c.last)
    PROVE  TreeInv' /\ InTraced'
<1>1. TreeInv'
  BY TreeUnchanged DEF Call
<1>2. c.src \in Nat /\ c.dest \in Nat /\ c.last \in Nat /\ PageOf(c.src) <= c.last
  BY CallsAssumption
<1>3. PageOf(c.src) \in Int
  BY <1>2, AddressSplit
<1>4. /\ DOMAIN copy' = TracedFields /\ copy' = [f \in TracedFields |-> copy'[f]]
      /\ copy'.phase = "page" /\ copy'.src = c.src /\ copy'.dest = c.dest
      /\ copy'.last = c.last /\ copy'.start = PageOf(c.src)
  BY DEF Call, TracedFields
<1>5. PageOf(c.src) \in Source(c.src, c.last)
  BY <1>2, <1>3 DEF Source
<1>6. Source(c.src, c.last) \cap Destination(c.src, c.dest, c.last) = {}
  BY DEF Call
<1>7. InTraced'
  BY <1>2, <1>4, <1>5, <1>6 DEF InTraced
<1> QED BY <1>1, <1>7

LEMMA ReallocCallWalks ==
    ASSUME WalkInv, NEW c \in Reallocs, ReallocCall(c.src, c.dest, c.tail)
    PROVE  TreeInv' /\ InRealloc'
<1>1. TreeInv'
  BY TreeUnchanged DEF ReallocCall
<1>2. c.src \in Nat /\ c.dest \in Nat /\ c.tail \in Nat /\ c.src <= c.tail
  BY ReallocsAssumption
<1>3. PageOf(c.src) \in Int /\ PageOf(c.tail) \in Int /\ PageOf(c.src) <= PageOf(c.tail)
  BY <1>2, AddressSplit, PagesOrdered
<1>4. /\ DOMAIN copy' = ReallocFields /\ copy' = [f \in ReallocFields |-> copy'[f]]
      /\ copy'.phase = "search" /\ copy'.src = c.src /\ copy'.dest = c.dest
      /\ copy'.tail = c.tail /\ copy'.last = PageOf(c.tail) /\ copy'.start = PageOf(c.src)
  BY DEF ReallocCall, ReallocFields
<1>5. PageOf(c.src) \in Source(c.src, PageOf(c.tail))
  BY <1>3 DEF Source
<1>6. \/ c.src = c.dest
      \/ Source(c.src, PageOf(c.tail)) \cap Destination(c.src, c.dest, PageOf(c.tail)) = {}
  BY DEF ReallocCall
<1>7. InRealloc'
  BY <1>2, <1>4, <1>5, <1>6 DEF InRealloc
<1> QED BY <1>1, <1>7

(* ... and go on: ts_memcpy_traced from page to page ...                    *)
LEMMA NextPageWalks ==
    ASSUME InTraced, NextPage, Traced' = Traced
    PROVE  InTraced'
<1>1. /\ copy' = [f \in TracedFields |-> copy'[f]] /\ copy'.phase \in {"page", "done"}
      /\ copy'.src = copy.src /\ copy'.dest = copy.dest /\ copy'.last = copy.last
      /\ copy'.start = IF copy.start < copy.last THEN copy.start + 1 ELSE copy.start
  BY DEF InTraced, NextPage, TracedFields
<1>2. PageOf(copy.src) \in Int /\ copy.last \in Nat
  BY AddressSplit DEF InTraced
<1>3. copy.start \in PageOf(copy.src)..copy.last
  BY DEF InTraced, Source
<1>4. copy'.start \in PageOf(copy.src)..copy.last
  BY <1>1, <1>2, <1>3
<1> QED BY <1>1, <1>4 DEF InTraced, Source

LEMMA WalkStarts ==
    ASSUME InTraced, NEW block, NEW i, NEW limit, Walk(block, i, limit)
    PROVE  /\ copy' = [f \in TracedFields |-> copy'[f]] /\ copy'.phase = "records"
           /\ copy'.src = copy.src /\ copy'.dest = copy.dest /\ copy'.last = copy.last
           /\ copy'.start = copy.start /\ copy'.blockEntry = block
           /\ copy'.idx = i /\ copy'.uplimit = limit
  BY DEF InTraced, Walk, TracedFields

(* The search of the first page stays on the list and in the block.         *)
LEMMA FirstPageWalks ==
    ASSUME WalkInv, FirstPage
    PROVE  TreeInv' /\ InTraced' /\ Traced' = Traced
<1>1. InTraced /\ TreeInv /\ copy.start \in Traced /\ Formed(srcRes)
  BY WalkPhases DEF FirstPage, WalkInv, TreeInv, srcRes
<1>2. srcRes.memRecIdx \in 0..MEMRECPERENTRY /\ Len(srcRes.blocks) \in Nat \ {0}
  BY <1>1 DEF Formed
<1> DEFINE off == OffsetOf(copy.src)
           limit == srcRes.memRecIdx
<1>3. /\ UNCHANGED <<RECTREENODEPOOLIDX, TAILHEADPOOLIDX, RECTREENODETHRESHOLD,
                     recBlocks, openFileArray, halted>>
      /\ \E block \in StartBlocks(off) :
             IF block > Len(srcRes.blocks)
             THEN NextPage /\ UNCHANGED recTree
             ELSE \E i \in AtOrAbove(srcRes.blocks[block].recArr, limit, off) :
                    /\ Walk(block, i, limit)
                    /\ IF i < limit THEN CutAt(block, i) ELSE UNCHANGED recTree
  BY DEF FirstPage
<1>4. PICK block \in StartBlocks(off) :
             IF block > Len(srcRes.blocks)
             THEN NextPage /\ UNCHANGED recTree
             ELSE \E i \in AtOrAbove(srcRes.blocks[block].recArr, limit, off) :
                    /\ Walk(block, i, limit)
                    /\ IF i < limit THEN CutAt(block, i) ELSE UNCHANGED recTree
  BY <1>3
<1>5. block \in 1..(Len(srcRes.blocks) + 1)
  <2>1. \A recs, m, o : AtOrAbove(recs, m, o) \subseteq 0..m
    BY DEF AtOrAbove
  <2>2. PICK k \in 0..Len(srcRes.blocks) : block = k + 1
    BY <2>1 DEF StartBlocks
  <2> QED BY <1>2, <2>2
<1>6. ASSUME UNCHANGED recTree PROVE TreeInv' /\ Traced' = Traced
  <2>1. UNCHANGED vars
    BY <1>3, <1>6 DEF vars
  <2> QED BY <2>1, TreeUnchanged
<1>7. CASE block > Len(srcRes.blocks)
  <2>1. NextPage /\ UNCHANGED recTree
    BY <1>4, <1>7
  <2> QED BY <1>1, <1>6, <2>1, NextPageWalks
<1>8. CASE ~(block > Len(srcRes.blocks))
  <2>1. PICK i \in AtOrAbove(srcRes.blocks[block].recArr, limit, off) :
          /\ Walk(block, i, limit)
          /\ IF i < limit THEN CutAt(block, i) ELSE UNCHANGED recTree
    BY <1>4, <1>8
  <2>2. i \in 0..limit
    BY DEF AtOrAbove
  <2> HIDE DEF off
  <2>3. i \in 0..MEMRECPERENTRY /\ block \in 1..Len(srcRes.blocks)
    BY <1>2, <1>5, <1>8, <2>2, MemRecPerEntryAssumption
  <2>4. TreeInv' /\ Traced' = Traced /\ recTree'[copy.start].blocks = srcRes.blocks
    <3>1. CASE i < limit
      BY <1>1, <1>3, <2>1, <2>3, <3>1, CutTree
    <3>2. CASE ~(i < limit)
      BY <1>6, <2>1, <3>2 DEF srcRes
    <3> QED BY <3>1, <3>2
  <2>5. /\ copy' = [f \in TracedFields |-> copy'[f]] /\ copy'.phase = "records"
        /\ copy'.src = copy.src /\ copy'.dest = copy.dest /\ copy'.last = copy.last
        /\ copy'.start = copy.start /\ copy'.blockEntry = block
        /\ copy'.idx = i /\ copy'.uplimit = limit
    BY <1>1, <2>1, WalkStarts
  <2>6. OnList'
    BY <1>1, <2>3, <2>4, <2>5 DEF OnList, srcRes
  <2>7. AtSlot'
    BY <1>2, <2>2, <2>5 DEF AtSlot
  <2>8. InTraced'
    BY <1>1, <2>5, <2>6, <2>7 DEF InTraced
  <2> QED BY <2>4, <2>8
<1> QED BY <1>7, <1>8

LEMMA LaterPageWalks ==
    ASSUME WalkInv, LaterPage
    PROVE  TreeInv' /\ InTraced'
<1>1. InTraced /\ TreeInv /\ copy.start \in Traced /\ Formed(srcRes)
  BY WalkPhases DEF LaterPage, WalkInv, TreeInv, srcRes
<1>2. srcRes.memRecIdx \in 0..MEMRECPERENTRY /\ Len(srcRes.blocks) \in Nat \ {0}
  BY <1>1 DEF Formed
<1>3. TreeInv' /\ Traced' = Traced /\ \A p : recTree'[p] = recTree[p]
  BY TreeUnchanged DEF LaterPage
<1>4. /\ copy' = [f \in TracedFields |-> copy'[f]] /\ copy'.phase = "records"
      /\ copy'.src = copy.src /\ copy'.dest = copy.dest /\ copy'.last = copy.last
      /\ copy'.start = copy.start /\ copy'.blockEntry = 1
      /\ copy'.idx = 0 /\ copy'.uplimit = srcRes.memRecIdx
  BY <1>1, WalkStarts DEF LaterPage
<1>5. OnList' /\ AtSlot'
  BY <1>1, <1>2, <1>3, <1>4 DEF OnList, AtSlot, srcRes
<1> QED BY <1>1, <1>3, <1>4, <1>5 DEF InTraced

LEMMA CopyRecordWalks ==
    ASSUME WalkInv, CopyRecord
    PROVE  TreeInv' /\ InTraced'
<1>1. InTraced /\ TreeInv /\ OnList /\ AtSlot /\ copy.idx < copy.uplimit
  BY WalkPhases DEF CopyRecord, WalkInv, InTraced
<1>2. copy.idx \in Slots /\ copy.idx \in Nat
  BY <1>1, MemRecPerEntryAssumption DEF AtSlot, Slots
<1>3. curMemRec \in Rec \cup {Unwritten}
  BY <1>1, <1>2, SlotTyped DEF curMemRec
<1>4. PICK r \in Rec :
        LET c == CopyOf(copy.src, copy.dest, copy.start, r)
        IN  /\ c.page \in Pages \ Source(copy.src, copy.last)
            /\ InsertFound(c.page, c.rec) \/ InsertNew(c.page, c.rec)
  BY <1>3 DEF CopyRecord
<1> DEFINE c == CopyOf(copy.src, copy.dest, copy.start, r)
<1>5. c.rec \in Rec
  <2>1. copy.src \in Nat /\ copy.dest \in Nat /\ copy.start \in Int
    BY <1>1 DEF InTraced, Source
  <2> QED BY <2>1, CopyTyped
<1>6. c.page \in Pages /\ c.page # copy.start
  BY <1>1, <1>4 DEF InTraced
<1>7. InsertFound(c.page, c.rec) \/ InsertNew(c.page, c.rec)
  BY <1>4
<1> HIDE DEF c
<1>8. TreeInv' /\ Inserted(c.page, c.rec)
  BY <1>1, <1>5, <1>6, <1>7, InsertTree
<1>9. copy.start \in Traced' /\ recTree'[copy.start] = recTree[copy.start]
  BY <1>1, <1>6, <1>8 DEF Inserted, OnList
<1>10. copy' = [copy EXCEPT !.idx = @ + 1]
  BY DEF CopyRecord
<1>11. /\ copy' = [f \in TracedFields |-> copy'[f]] /\ copy'.phase = copy.phase
       /\ copy'.src = copy.src /\ copy'.dest = copy.dest /\ copy'.last = copy.last
       /\ copy'.start = copy.start /\ copy'.blockEntry = copy.blockEntry
       /\ copy'.idx = copy.idx + 1 /\ copy'.uplimit = copy.uplimit
  BY <1>1, <1>10 DEF InTraced, TracedFields
<1>12. OnList'
  BY <1>1, <1>9, <1>11 DEF OnList, srcRes
<1>13. AtSlot'
  BY <1>1, <1>2, <1>11, MemRecPerEntryAssumption DEF AtSlot
<1> QED BY <1>1, <1>8, <1>11, <1>12, <1>13 DEF InTraced

LEMMA NextBlockWalks ==
    ASSUME WalkInv, NextBlock
    PROVE  TreeInv' /\ InTraced'
<1>1. InTraced /\ TreeInv /\ OnList /\ AtSlot /\ copy.blockEntry < Len(srcRes.blocks)
  BY WalkPhases DEF NextBlock, BlockDone, WalkInv, InTraced
<1>2. Formed(srcRes)
  BY <1>1 DEF OnList, TreeInv, srcRes
<1>3. TreeInv' /\ Traced' = Traced /\ \A p : recTree'[p] = recTree[p]
  BY TreeUnchanged DEF NextBlock
<1>4. /\ copy' = [f \in TracedFields |-> copy'[f]] /\ copy'.phase = copy.phase
      /\ copy'.src = copy.src /\ copy'.dest = copy.dest /\ copy'.last = copy.last
      /\ copy'.start = copy.start /\ copy'.blockEntry = copy.blockEntry + 1
      /\ copy'.idx = 0 /\ copy'.uplimit \in {srcRes.memRecIdx, copy.uplimit}
  BY <1>1 DEF NextBlock, InTraced, TracedFields
<1>5. OnList'
  <2>1. Len(srcRes.blocks) \in Nat /\ copy.blockEntry \in 1..Len(srcRes.blocks)
    BY <1>1, <1>2 DEF OnList, Formed
  <2>2. copy.blockEntry + 1 \in 1..Len(srcRes.blocks)
    BY <1>1, <2>1
  <2> QED BY <1>1, <1>3, <1>4, <2>2 DEF OnList, srcRes
<1>6. AtSlot'
  <2>1. copy'.uplimit \in 0..MEMRECPERENTRY
    BY <1>1, <1>2, <1>4 DEF AtSlot, Formed
  <2> QED BY <1>4, <2>1, MemRecPerEntryAssumption DEF AtSlot
<1> QED BY <1>1, <1>3, <1>4, <1>5, <1>6 DEF InTraced

LEMMA PassPageWalks ==
    ASSUME WalkInv, PassPage \/ PageDone
    PROVE  TreeInv' /\ InTraced'
<1>1. InTraced /\ NextPage /\ UNCHANGED vars
  BY WalkPhases DEF PassPage, PageDone, BlockDone
<1> QED BY <1>1, TreeUnchanged, NextPageWalks

(* ... and ts_realloc.                                                      *)
LEMMA NextReallocPageWalks ==
    ASSUME InRealloc, NextReallocPage, Traced' = Traced
    PROVE  InRealloc'
<1>1. /\ copy' = [f \in ReallocFields |-> copy'[f]]
      /\ copy'.phase \in {"search", "moved"}
      /\ copy'.src = copy.src /\ copy'.dest = copy.dest /\ copy'.tail = copy.tail
      /\ copy'.last = copy.last
      /\ copy'.start = IF copy.start < copy.last THEN copy.start + 1 ELSE copy.start
  BY DEF InRealloc, NextReallocPage, ReallocFields
<1>2. PageOf(copy.src) \in Int /\ copy.last \in Int
  BY AddressSplit DEF InRealloc
<1>3. copy.start \in PageOf(copy.src)..copy.last
  BY DEF InRealloc, Source
<1>4. copy'.start \in PageOf(copy.src)..copy.last
  BY <1>1, <1>2, <1>3
<1> QED BY <1>1, <1>4 DEF InRealloc, Source

LEMMA SearchPageWalks ==
    ASSUME WalkInv, SearchPage
    PROVE  TreeInv' /\ InRealloc'
<1>1. InRealloc /\ TreeInv
  BY WalkPhases DEF SearchPage, InPhase, WalkInv
<1>2. TreeInv' /\ Traced' = Traced /\ \A p : recTree'[p] = recTree[p]
  BY TreeUnchanged DEF SearchPage
<1>3. CASE copy.start \in Traced
  <2>1. copy' = [copy EXCEPT !.phase = "block", !.blockEntry = 1,
                             !.mostRecBlock = srcRes.recModEntry]
    BY <1>3 DEF SearchPage
  <2>2. /\ copy' = [f \in ReallocFields |-> copy'[f]] /\ copy'.phase = "block"
        /\ copy'.src = copy.src /\ copy'.dest = copy.dest /\ copy'.tail = copy.tail
        /\ copy'.last = copy.last /\ copy'.start = copy.start /\ copy'.blockEntry = 1
    BY <1>1, <2>1 DEF InRealloc, ReallocFields
  <2>3. Len(srcRes.blocks) \in Nat \ {0}
    BY <1>1, <1>3 DEF TreeInv, Formed, srcRes
  <2>4. OnList'
    BY <1>2, <1>3, <2>2, <2>3 DEF OnList, srcRes
  <2> QED BY <1>1, <1>2, <2>2, <2>4 DEF InRealloc
<1>4. CASE copy.start \notin Traced
  BY <1>1, <1>2, <1>4, NextReallocPageWalks DEF SearchPage
<1> QED BY <1>3, <1>4

LEMMA EnterBlockWalks ==
    ASSUME WalkInv, EnterBlock
    PROVE  TreeInv' /\ InRealloc'
<1>1. InRealloc /\ TreeInv /\ OnList
  BY WalkPhases DEF EnterBlock, InPhase, WalkInv, InRealloc
<1>2. TreeInv' /\ Traced' = Traced /\ \A p : recTree'[p] = recTree[p]
  BY TreeUnchanged DEF EnterBlock
<1>3. uplimitHere \in 0..MEMRECPERENTRY
  <2>1. srcRes.memRecIdx \in 0..MEMRECPERENTRY
    BY <1>1 DEF TreeInv, Formed, srcRes, OnList
  <2> QED BY <2>1, MemRecPerEntryAssumption DEF uplimitHere
<1>4. copy' = [copy EXCEPT !.phase = "rec", !.idx = 0, !.uplimit = uplimitHere]
  BY DEF EnterBlock
<1>5. /\ copy' = [f \in ReallocFields |-> copy'[f]] /\ copy'.phase = "rec"
      /\ copy'.src = copy.src /\ copy'.dest = copy.dest /\ copy'.tail = copy.tail
      /\ copy'.last = copy.last /\ copy'.start = copy.start
      /\ copy'.blockEntry = copy.blockEntry
      /\ copy'.idx = 0 /\ copy'.uplimit = uplimitHere
  BY <1>1, <1>4 DEF InRealloc, ReallocFields
<1>6. OnList' /\ AtSlot'
  BY <1>1, <1>2, <1>3, <1>5, MemRecPerEntryAssumption DEF OnList, AtSlot, srcRes
<1> QED BY <1>1, <1>2, <1>5, <1>6 DEF InRealloc

(* The slot behind the last record lies beyond the area on its last page
   only.                                                                    *)
LEMMA SpinWalks ==
    ASSUME WalkInv, Spin
    PROVE  TreeInv' /\ InRealloc'
<1>1. InRealloc /\ TreeInv /\ OnList
  BY WalkPhases DEF Spin, InPhase, WalkInv, InRealloc
<1>2. TreeInv' /\ Traced' = Traced /\ \A p : recTree'[p] = recTree[p]
  BY TreeUnchanged DEF Spin
<1>3. copy' = [copy EXCEPT !.phase = "spin"]
  BY DEF Spin
<1>4. /\ copy' = [f \in ReallocFields |-> copy'[f]] /\ copy'.phase = "spin"
      /\ copy'.src = copy.src /\ copy'.dest = copy.dest /\ copy'.tail = copy.tail
      /\ copy'.last = copy.last /\ copy'.start = copy.start
  BY <1>1, <1>3 DEF InRealloc, ReallocFields
<1>5. PICK off \in PastLast : Beyond(off)
  BY DEF Spin
<1>6. off \in 0..(PAGESIZE - 1)
  <2> DEFINE m == uplimitHere
             r == srcRes.blocks[copy.blockEntry].recArr[m]
  <2>1. m \in 0..MEMRECPERENTRY
    <3>1. srcRes.memRecIdx \in 0..MEMRECPERENTRY
      BY <1>1 DEF TreeInv, Formed, srcRes, OnList
    <3> QED BY <3>1, MemRecPerEntryAssumption DEF uplimitHere
  <2>2. off \in IF m = MEMRECPERENTRY \/ r = Unwritten THEN 0..(PAGESIZE - 1)
                ELSE {r.pageOffset}
    BY <1>5 DEF PastLast
  <2>3. ASSUME m # MEMRECPERENTRY PROVE r \in Rec \cup {Unwritten}
    <3>1. m \in Slots
      BY <2>1, <2>3, MemRecPerEntryAssumption DEF Slots
    <3> HIDE DEF m
    <3> QED BY <1>1, <3>1, SlotTyped
  <2>4. \A q \in Rec : q.pageOffset \in 0..(PAGESIZE - 1)
    BY DEF Rec
  <2> QED BY <2>2, <2>3, <2>4
<1>7. copy.start = PageOf(copy.tail)
  <2>1. copy.start \in Int /\ copy.start <= PageOf(copy.tail) /\ copy.tail \in Nat
    BY <1>1, AddressSplit DEF InRealloc, Source
  <2>2. getAddr(copy.start, off) \in Int /\ PageOf(getAddr(copy.start, off)) = copy.start
    BY <1>6, <2>1, AddressJoined
  <2>3. copy.tail <= getAddr(copy.start, off)
    BY <1>5, <2>1, <2>2 DEF Beyond
  <2>4. PageOf(copy.tail) <= copy.start
    BY <2>1, <2>2, <2>3, PagesOrdered
  <2>5. PageOf(copy.tail) \in Int
    BY <2>1, AddressSplit
  <2> QED BY <2>1, <2>4, <2>5
<1> QED BY <1>1, <1>2, <1>4, <1>7 DEF InRealloc

LEMMA LeaveBlockWalks ==
    ASSUME WalkInv, LeaveBlock
    PROVE  TreeInv' /\ InRealloc'
<1>1. InRealloc /\ TreeInv /\ OnList
  BY WalkPhases DEF LeaveBlock, InPhase, WalkInv, InRealloc
<1>2. TreeInv' /\ Traced' = Traced /\ \A p : recTree'[p] = recTree[p]
  BY TreeUnchanged DEF LeaveBlock
<1>3. CASE copy.blockEntry < Len(srcRes.blocks)
  <2>1. copy' = [copy EXCEPT !.phase = "block", !.blockEntry = @ + 1]
    BY <1>3 DEF LeaveBlock
  <2>2. /\ copy' = [f \in ReallocFields |-> copy'[f]] /\ copy'.phase = "block"
        /\ copy'.src = copy.src /\ copy'.dest = copy.dest /\ copy'.tail = copy.tail
        /\ copy'.last = copy.last /\ copy'.start = copy.start
        /\ copy'.blockEntry = copy.blockEntry + 1
    BY <1>1, <2>1 DEF InRealloc, ReallocFields
  <2>3. Len(srcRes.blocks) \in Nat \ {0} /\ copy.blockEntry \in 1..Len(srcRes.blocks)
    BY <1>1 DEF TreeInv, Formed, srcRes, OnList
  <2>4. copy.blockEntry + 1 \in 1..Len(srcRes.blocks)
    BY <1>3, <2>3
  <2>5. OnList'
    BY <1>1, <1>2, <2>2, <2>4 DEF OnList, srcRes
  <2> QED BY <1>1, <1>2, <2>2, <2>5 DEF InRealloc
<1>4. CASE ~(copy.blockEntry < Len(srcRes.blocks))
  BY <1>1, <1>2, <1>4, NextReallocPageWalks DEF LeaveBlock
<1> QED BY <1>3, <1>4

(* Where a record of the area moves to.                                     *)
LEMMA MovedWhere ==
    ASSUME InRealloc, NEW r \in Rec, copy.src < getAddr(copy.start, r.pageOffset)
    PROVE  /\ CopyOf(copy.src, copy.dest, copy.start, r).rec \in Rec
           /\ CopyOf(copy.src, copy.dest, copy.start, r).page = copy.start
                => copy.src = copy.dest
<1> DEFINE a == getAddr(copy.start, r.pageOffset)
           c == CopyOf(copy.src, copy.dest, copy.start, r)
<1>1. /\ copy.src \in Nat /\ copy.dest \in Nat /\ copy.tail \in Nat
      /\ PageOf(copy.src) \in Int /\ PageOf(copy.tail) \in Int
      /\ copy.last = PageOf(copy.tail)
      /\ copy.start \in PageOf(copy.src)..copy.last
  BY AddressSplit DEF InRealloc, Source
<1>2. /\ c.rec \in Rec /\ c.page = PageOf(copy.dest + a - copy.src)
      /\ a \in Int /\ PageOf(a) = copy.start
  <2>1. copy.start \in Int
    BY <1>1
  <2> QED BY <1>1, <2>1, CopyTyped
<1>8. copy.dest + a - copy.src = a => c.rec = r
  <2>1. copy.start \in Int /\ r.pageOffset \in 0..(PAGESIZE - 1)
    BY <1>1 DEF Rec
  <2>2. OffsetOf(a) = r.pageOffset
    BY <2>1, AddressJoined
  <2>3. c.rec = [r EXCEPT !.pageOffset = OffsetOf(copy.dest + a - copy.src)]
    BY DEF CopyOf
  <2> HIDE DEF a, c
  <2>4. [r EXCEPT !.pageOffset = r.pageOffset] = r
    BY DEF Rec
  <2> QED BY <2>2, <2>3, <2>4
<1>3. PageOf(a) <= PageOf(copy.tail) /\ copy.src <= a
  BY <1>1, <1>2
<1> HIDE DEF a, c
<1>4. PageOf(copy.dest + a - copy.src) \in Destination(copy.src, copy.dest, PageOf(copy.tail))
  BY <1>1, <1>2, <1>3, MovedInside
<1>5. ASSUME c.page = copy.start PROVE copy.src = copy.dest
  <2>1. copy.start \in Source(copy.src, copy.last)
                       \cap Destination(copy.src, copy.dest, copy.last)
    BY <1>1, <1>2, <1>4, <1>5 DEF InRealloc
  <2> QED BY <2>1 DEF InRealloc
<1> QED BY <1>2, <1>5 DEF c

LEMMA MoveRecordWalks ==
    ASSUME WalkInv, InRealloc, copy.phase = "rec", copy.idx < copy.uplimit,
           NEW r \in Rec, copy.src < getAddr(copy.start, r.pageOffset), MoveRecord(r)
    PROVE  TreeInv' /\ InRealloc'
<1>1. TreeInv /\ OnList /\ AtSlot
  BY DEF WalkInv, InRealloc
<1> DEFINE c == CopyOf(copy.src, copy.dest, copy.start, r)
<1>2. c.rec \in Rec /\ (c.page = copy.start => copy.src = copy.dest)
  BY MovedWhere
<1>3. c.page \in Pages /\ (InsertFound(c.page, c.rec) \/ InsertNew(c.page, c.rec))
  BY DEF MoveRecord
<1> HIDE DEF c
<1>4. TreeInv' /\ Inserted(c.page, c.rec)
  BY <1>1, <1>2, <1>3, InsertTree
<1>5. copy.start \in Traced' /\ (copy.start # c.page => recTree'[copy.start] = recTree[copy.start])
  BY <1>1, <1>4 DEF Inserted, OnList
<1>6. Len(recTree'[copy.start].blocks) \in Nat \ {0}
  BY <1>4, <1>5 DEF TreeInv, Formed
<1>7. copy.blockEntry \in 1..Len(recTree[copy.start].blocks)
      /\ Len(recTree[copy.start].blocks) \in Nat
  BY <1>1 DEF OnList, srcRes, TreeInv, Formed
<1>8. copy' = IF Len(recTree'[copy.start].blocks) < copy.blockEntry
              THEN [copy EXCEPT !.phase = "lost"]
              ELSE [copy EXCEPT !.idx = @ + 1]
  BY DEF MoveRecord
<1>9. CASE Len(recTree'[copy.start].blocks) < copy.blockEntry
  <2>1. copy' = [copy EXCEPT !.phase = "lost"]
    BY <1>8, <1>9
  <2>2. /\ copy' = [f \in ReallocFields |-> copy'[f]] /\ copy'.phase = "lost"
        /\ copy'.src = copy.src /\ copy'.dest = copy.dest /\ copy'.tail = copy.tail
        /\ copy'.last = copy.last /\ copy'.start = copy.start
        /\ copy'.blockEntry = copy.blockEntry
    BY <2>1 DEF InRealloc, ReallocFields
  <2>3. copy.start = c.page
    BY <1>5, <1>7, <1>9
  <2>4. copy.src = copy.dest /\ copy.blockEntry > 1
    BY <1>2, <1>6, <1>7, <1>9, <2>3
  <2> QED BY <1>4, <2>2, <2>4 DEF InRealloc
<1>10. CASE ~(Len(recTree'[copy.start].blocks) < copy.blockEntry)
  <2>1. copy' = [copy EXCEPT !.idx = @ + 1]
    BY <1>8, <1>10
  <2>2. /\ copy' = [f \in ReallocFields |-> copy'[f]] /\ copy'.phase = "rec"
        /\ copy'.src = copy.src /\ copy'.dest = copy.dest /\ copy'.tail = copy.tail
        /\ copy'.last = copy.last /\ copy'.start = copy.start
        /\ copy'.blockEntry = copy.blockEntry
        /\ copy'.idx = copy.idx + 1 /\ copy'.uplimit = copy.uplimit
    BY <2>1 DEF InRealloc, ReallocFields
  <2>3. OnList'
    BY <1>5, <1>6, <1>7, <1>10, <2>2 DEF OnList, srcRes
  <2>4. AtSlot'
    BY <1>1, <2>2, MemRecPerEntryAssumption DEF AtSlot
  <2> QED BY <1>4, <2>2, <2>3, <2>4 DEF InRealloc
<1> QED BY <1>9, <1>10

LEMMA VisitRecordWalks ==
    ASSUME WalkInv, VisitRecord
    PROVE  TreeInv' /\ InRealloc'
<1>1. /\ InRealloc /\ TreeInv /\ OnList /\ AtSlot
      /\ copy.phase = "rec" /\ copy.idx < copy.uplimit
  BY WalkPhases DEF VisitRecord, InPhase, WalkInv, InRealloc
<1>2. copy.idx \in Slots /\ copy.idx \in Nat
  BY <1>1, MemRecPerEntryAssumption DEF AtSlot, Slots
<1>3. curMemRec \in Rec \cup {Unwritten}
  BY <1>1, <1>2, SlotTyped DEF curMemRec
<1>4. PICK r \in Rec :
         IF getAddr(copy.start, r.pageOffset) <= copy.src
         THEN copy' = [copy EXCEPT !.idx = @ + 1] /\ UNCHANGED vars
         ELSE IF Beyond(r.pageOffset)
         THEN copy' = [copy EXCEPT !.idx = copy.uplimit] /\ UNCHANGED vars
         ELSE MoveRecord(r)
  BY <1>3 DEF VisitRecord
<1>5. ASSUME NEW i \in 0..copy.uplimit, copy' = [copy EXCEPT !.idx = i], UNCHANGED vars
      PROVE  TreeInv' /\ InRealloc'
  <2>1. TreeInv' /\ Traced' = Traced /\ \A p : recTree'[p] = recTree[p]
    BY <1>5, TreeUnchanged
  <2>2. /\ copy' = [f \in ReallocFields |-> copy'[f]] /\ copy'.phase = "rec"
        /\ copy'.src = copy.src /\ copy'.dest = copy.dest /\ copy'.tail = copy.tail
        /\ copy'.last = copy.last /\ copy'.start = copy.start
        /\ copy'.blockEntry = copy.blockEntry
        /\ copy'.idx = i /\ copy'.uplimit = copy.uplimit
    BY <1>1, <1>5 DEF InRealloc, ReallocFields
  <2>3. OnList' /\ AtSlot'
    BY <1>1, <2>1, <2>2 DEF OnList, AtSlot, srcRes
  <2> QED BY <1>1, <2>1, <2>2, <2>3 DEF InRealloc
<1>6. copy.idx + 1 \in 0..copy.uplimit /\ copy.uplimit \in 0..copy.uplimit
  BY <1>1, MemRecPerEntryAssumption DEF AtSlot
<1>7. CASE getAddr(copy.start, r.pageOffset) <= copy.src
  BY <1>4, <1>5, <1>6, <1>7
<1>8. CASE /\ ~(getAddr(copy.start, r.pageOffset) <= copy.src)
           /\ Beyond(r.pageOffset)
  BY <1>4, <1>5, <1>6, <1>8
<1>9. CASE /\ ~(getAddr(copy.start, r.pageOffset) <= copy.src)
           /\ ~Beyond(r.pageOffset)
  <2>1. copy.src \in Nat /\ getAddr(copy.start, r.pageOffset) \in Int
    <3>1. copy.src \in Nat /\ copy.dest \in Nat /\ copy.start \in Int
      BY <1>1 DEF InRealloc, Source
    <3> QED BY <3>1, CopyTyped
  <2>2. copy.src < getAddr(copy.start, r.pageOffset)
    BY <1>9, <2>1
  <2>3. MoveRecord(r)
    BY <1>4, <1>9
  <2> QED BY <1>1, <2>2, <2>3, MoveRecordWalks
<1> QED BY <1>7, <1>8, <1>9

-----------------------------------------------------------------------------
(* The invariant.                                                           *)

LEMMA InitWalk == TracedInit => WalkInv
<1> SUFFICES ASSUME TracedInit PROVE WalkInv
  OBVIOUS
<1>1. Kept
  BY InitKept DEF TracedInit
<1>2. TreeInv
  BY <1>1, UsableFormed DEF Kept, Sound, TreeInv, Traced
<1> QED BY <1>2 DEF WalkInv, TracedInit

LEMMA NextWalk == ASSUME WalkInv, [ReallocNext]_tracedVars PROVE WalkInv'
<1>1. CASE UNCHANGED tracedVars
  <2>1. UNCHANGED vars /\ copy' = copy
    BY <1>1 DEF tracedVars
  <2>2. TreeInv' /\ Traced' = Traced /\ \A p : recTree'[p] = recTree[p]
    BY <2>1, TreeUnchanged
  <2>3. recTree' = recTree
    BY <2>1 DEF vars
  <2> QED BY <2>1, <2>2, <2>3 DEF WalkInv, InTraced, InRealloc, OnList, AtSlot, srcRes
<1>2. CASE /\ ~Calling
           /\ \/ \E fd \in Fds : MapFile(fd) \/ UnmapFile(fd)
              \/ \E p \in FilledPages, r \in Rec :
                    Insertable(r) /\ (InsertFound(p, r) \/ InsertNew(p, r))
           /\ UNCHANGED copy
  BY <1>2, OutsideWalk
<1>3. CASE \E c \in Calls : Call(c.src, c.dest, c.last)
  BY <1>3, CallWalks DEF WalkInv
<1>4. CASE FirstPage
  BY <1>4, FirstPageWalks DEF WalkInv
<1>5. CASE LaterPage
  BY <1>5, LaterPageWalks DEF WalkInv
<1>6. CASE PassPage \/ PageDone
  BY <1>6, PassPageWalks DEF WalkInv
<1>7. CASE CopyRecord
  BY <1>7, CopyRecordWalks DEF WalkInv
<1>8. CASE NextBlock
  BY <1>8, NextBlockWalks DEF WalkInv
<1>9. CASE Return \/ ReallocReturn
  <2>1. copy' = NoCall /\ UNCHANGED vars
    BY <1>9 DEF Return, ReallocReturn
  <2> QED BY <2>1, TreeUnchanged DEF WalkInv
<1>10. CASE \E c \in Reallocs : ReallocCall(c.src, c.dest, c.tail)
  BY <1>10, ReallocCallWalks DEF WalkInv
<1>11. CASE SearchPage
  BY <1>11, SearchPageWalks DEF WalkInv
<1>12. CASE EnterBlock
  BY <1>12, EnterBlockWalks DEF WalkInv
<1>13. CASE Spin
  BY <1>13, SpinWalks DEF WalkInv
<1>14. CASE VisitRecord
  BY <1>14, VisitRecordWalks DEF WalkInv
<1>15. CASE LeaveBlock
  BY <1>15, LeaveBlockWalks DEF WalkInv
<1> QED
  BY <1>1, <1>2, <1>3, <1>4, <1>5, <1>6, <1>7, <1>8, <1>9, <1>10, <1>11, <1>12,
     <1>13, <1>14, <1>15 DEF ReallocNext, TracedNext, ReallocStep

(* The walks keep to their lists, whatever calls were made before.          *)
THEOREM WalkInvariance == ReallocSpec => []WalkInv
<1>1. TracedInit => WalkInv
  BY InitWalk
<1>2. WalkInv /\ [ReallocNext]_tracedVars => WalkInv'
  BY NextWalk
<1> QED BY <1>1, <1>2, PTL DEF ReallocSpec

(* Through any cuts, moves and restarts the tree stays a tree of lists with
   the filled block in them, and both walks stay on the list of their page,
   at a slot below the limit they took (awn.c:1091-1111, 1624-1655).        *)
THEOREM WalksStayOnLists == ReallocSpec => []ReallocTypeOK
<1>1. ASSUME WalkInv PROVE ReallocTypeOK
  <2>1. TypeOK
    <3>0. /\ TreeInv /\ IsPool(recBlocks) /\ Partitioned(recBlocks, Used(recTree))
          /\ \A p \in Traced : Formed(recTree[p])
      BY <1>1 DEF WalkInv, TreeInv, Accounted
    <3>1. \A p \in Traced : IsNode(recTree[p])
      <4> SUFFICES ASSUME NEW p \in Traced PROVE IsNode(recTree[p])
        OBVIOUS
      <4>1. Ents(recTree[p]) \subseteq Used(recTree)
        BY DEF Used, Traced
      <4>2. Used(recTree) \subseteq 0..(recBlocks.size - 1)
        BY <3>0 DEF Partitioned
      <4>3. 0..(recBlocks.size - 1) \subseteq Int
        BY <3>0 DEF IsPool
      <4> QED BY <3>0, <4>1, <4>2, <4>3, NodeTyped
    <3>2. /\ RECTREENODEPOOLIDX \in 0..RECTREENODEPOOLSIZE
          /\ TAILHEADPOOLIDX \in 0..RECTREENODEPOOLSIZE
      BY <3>0 DEF TreeInv, Counted
    <3>3. /\ recTree = [p \in Traced |-> recTree[p]] /\ Traced \subseteq Pages
          /\ RECTREENODETHRESHOLD \in 0..RECTREENODEPOOLSIZE
          /\ openFileArray \subseteq Fds /\ halted \in BOOLEAN
      BY <3>0 DEF TreeInv
    <3> QED BY <3>0, <3>1, <3>2, <3>3 DEF TypeOK
  <2>2. copy.phase = "records" => InTraced
    BY <1>1, WalkPhases
  <2>3. TracedTypeOK
    BY <2>1, <2>2 DEF TracedTypeOK, InTraced, OnList, AtSlot
  <2>4. InPhase("rec") => InRealloc /\ copy.phase = "rec"
    BY <1>1, WalkPhases DEF InPhase
  <2> QED BY <2>3, <2>4 DEF ReallocTypeOK, InRealloc, OnList, AtSlot
<1> QED BY <1>1, WalkInvariance, PTL

(* ts_realloc hangs on the page of tail only, and loses its list only when
   the area stayed where it was and the walk had come to a newer block.     *)
THEOREM ReallocFailsNowhereElse == ReallocSpec => []ReallocFailsOnlyThere
<1>1. ASSUME WalkInv PROVE ReallocFailsOnlyThere
  BY <1>1, WalkPhases DEF ReallocFailsOnlyThere, InPhase, InRealloc
<1> QED BY <1>1, WalkInvariance, PTL

-----------------------------------------------------------------------------
(* What the cut leaves.                                                     *)

\* The slots of a list that hold the readers' records below an offset.
SeenIn(n) == {RecAt(n, pl) : pl \in Places(n)} \ {Unwritten}

LEMMA SeenAtPage ==
    ASSUME NEW p
    PROVE  SeenAt(p) = IF p \in Traced THEN SeenIn(recTree[p]) ELSE {}
  BY DEF SeenAt, SeenIn

(* A list cut before a slot whose offset is not below off keeps what lies
   below off, when it was all written and in order.                         *)
LEMMA CutKeepsBelow ==
    ASSUME NEW n, Formed(n), AllWritten(n), Ascending(n),
           NEW off \in Nat, NEW block \in 1..Len(n.blocks),
           NEW i \in AtOrAbove(n.blocks[block].recArr, n.memRecIdx, off),
           i < n.memRecIdx,
           NEW m, m.blocks = n.blocks, m.recModEntry = block, m.memRecIdx = i
    PROVE  \A r \in SeenIn(n) : r.pageOffset < off => r \in SeenIn(m)
<1>1. /\ n.memRecIdx \in 0..MEMRECPERENTRY /\ Len(n.blocks) \in Nat
      /\ i \in 0..n.memRecIdx
      /\ (n.blocks[block].recArr[i] = Unwritten \/ n.blocks[block].recArr[i].pageOffset >= off)
  BY DEF Formed, AtOrAbove
<1>2. \A j \in 1..Len(n.blocks), k \in Slots :
         /\ n.blocks[j].recArr[k] \in Rec \cup {Unwritten}
  <2>1. PICK E : n \in NodeOver(E)
    BY DEF Formed
  <2>2. \A j \in 1..Len(n.blocks) : n.blocks[j] \in BlockOver(E)
    BY <2>1 DEF NodeOver
  <2> QED BY <2>2 DEF BlockOver
<1>3. i \in Slots /\ <<block, i>> \in Places(n)
  <2>1. i \in Slots
    BY <1>1, MemRecPerEntryAssumption DEF Slots
  <2>2. i < VisibleIn(n, block)
    BY <1>1, MemRecPerEntryAssumption DEF VisibleIn
  <2> QED BY <2>1, <2>2 DEF Places
<1>4. n.blocks[block].recArr[i].pageOffset >= off
  BY <1>1, <1>3 DEF AllWritten, RecAt
<1> SUFFICES ASSUME NEW pl \in Places(n), RecAt(n, pl) # Unwritten,
                    RecAt(n, pl).pageOffset < off
             PROVE  pl \in Places(m)
  BY DEF SeenIn, RecAt
<1>5. /\ pl \in (1..Len(n.blocks)) \X Slots /\ pl[1] \in 1..Len(n.blocks)
      /\ pl[2] \in Slots /\ pl = <<pl[1], pl[2]>>
  BY DEF Places
<1>6. \A j \in 1..Len(n.blocks), k \in Slots :
         n.blocks[j].recArr[k] # Unwritten => n.blocks[j].recArr[k].pageOffset \in Int
  BY <1>2 DEF Rec
<1>7. ASSUME pl[1] = block PROVE pl[2] < i
  <2> SUFFICES ASSUME i <= pl[2] PROVE FALSE
    BY <1>1, <1>5 DEF Slots
  <2>1. RecAt(n, pl).pageOffset \in Int /\ n.blocks[block].recArr[i].pageOffset \in Int
    BY <1>3, <1>5, <1>6 DEF RecAt, AllWritten
  <2>2. CASE i = pl[2]
    BY <1>4, <1>7, <2>1, <2>2 DEF RecAt
  <2>3. CASE i # pl[2]
    <3>1. Before(<<block, i>>, pl)
      BY <1>1, <1>5, <1>7, <2>3 DEF Before, Slots
    <3>2. RecAt(n, <<block, i>>).pageOffset < RecAt(n, pl).pageOffset
      BY <1>3, <3>1 DEF Ascending
    <3>3. /\ RecAt(n, <<block, i>>).pageOffset >= off
          /\ RecAt(n, <<block, i>>).pageOffset \in Int
      BY <1>4, <2>1 DEF RecAt
    <3> QED BY <2>1, <3>2, <3>3
  <2> QED BY <2>2, <2>3
<1>8. pl[2] < VisibleIn(m, pl[1])
  BY <1>5, <1>7, MemRecPerEntryAssumption DEF VisibleIn, Slots
<1> QED BY <1>5, <1>8 DEF Places

\* The search of the page of src is still to come: the ghosts are what they
\* were when the call began.
AtFirst == copy.phase = "page" /\ copy.start = PageOf(copy.src)
GhostsHold ==
    /\ copy.below = Below(copy.src)
    /\ copy.ordered /\ copy.start \in Traced => AllWritten(srcRes) /\ Ascending(srcRes)

PrefixInv ==
    InTraced => /\ AtFirst => GhostsHold
                /\ copy.ordered => copy.below \subseteq SeenAt(PageOf(copy.src))

(* A step in which the call goes on behind its first search, and no list of
   the first page is written.                                               *)
LEMMA PrefixPassed ==
    ASSUME PrefixInv, InTraced, ~AtFirst', copy'.src = copy.src,
           copy'.below = copy.below, copy'.ordered = copy.ordered,
           PageOf(copy.src) \in Traced =>
              /\ PageOf(copy.src) \in Traced'
              /\ SeenIn(recTree[PageOf(copy.src)]) \subseteq SeenIn(recTree'[PageOf(copy.src)])
    PROVE  PrefixInv'
<1>1. SeenAt(PageOf(copy.src)) \subseteq SeenAt(PageOf(copy.src))'
  BY DEF SeenAt, SeenIn
<1> QED BY <1>1 DEF PrefixInv

LEMMA CallPrefix ==
    ASSUME WalkInv, NEW c \in Calls, Call(c.src, c.dest, c.last)
    PROVE  PrefixInv'
<1>1. /\ copy'.phase = "page" /\ copy'.src = c.src /\ copy'.start = PageOf(c.src)
      /\ copy'.below = Below(c.src)
  BY DEF Call
<1>2. copy'.ordered => (PageOf(c.src) \in Traced =>
                               /\ AllWritten(recTree[PageOf(c.src)])
                               /\ Ascending(recTree[PageOf(c.src)]))
  BY DEF Call
<1>3. recTree' = recTree
  BY DEF Call, vars
<1>4. Below(c.src)' = Below(c.src) /\ SeenAt(PageOf(c.src))' = SeenAt(PageOf(c.src))
      /\ Below(c.src) \subseteq SeenAt(PageOf(c.src))
  BY <1>3 DEF Below, SeenAt, Traced
<1>5. GhostsHold'
  BY <1>1, <1>2, <1>3, <1>4 DEF GhostsHold, srcRes, Traced
<1>6. copy'.below \subseteq SeenAt(PageOf(copy.src))'
  BY <1>1, <1>3, <1>4 DEF SeenAt, Traced
<1> QED BY <1>5, <1>6 DEF PrefixInv

(* Leaving a page, the first one or a later one, without a cut.             *)
LEMMA NextPagePrefix ==
    ASSUME PrefixInv, InTraced, NextPage, UNCHANGED recTree
    PROVE  PrefixInv'
<1>1. /\ copy'.phase \in {"page", "done"} /\ copy'.src = copy.src
      /\ copy'.below = copy.below /\ copy'.ordered = copy.ordered
      /\ copy'.phase = "page" => copy'.start = copy.start + 1
  BY DEF InTraced, NextPage, TracedFields
<1>2. PageOf(copy.src) \in Int /\ copy.start \in PageOf(copy.src)..copy.last
  BY AddressSplit DEF InTraced, Source
<1>3. ~AtFirst'
  <2>1. copy.start + 1 # PageOf(copy.src)
    BY <1>2
  <2> QED BY <1>1, <2>1 DEF AtFirst
<1> QED BY <1>1, <1>3, PrefixPassed DEF Traced

LEMMA FirstPagePrefix ==
    ASSUME WalkInv, PrefixInv, FirstPage
    PROVE  PrefixInv'
<1>1. InTraced /\ TreeInv /\ copy.start \in Traced /\ Formed(srcRes) /\ AtFirst
  BY WalkPhases DEF FirstPage, WalkInv, TreeInv, srcRes, AtFirst
<1> DEFINE off == OffsetOf(copy.src)
           limit == srcRes.memRecIdx
<1>2. /\ UNCHANGED <<RECTREENODEPOOLIDX, TAILHEADPOOLIDX, RECTREENODETHRESHOLD,
                     recBlocks, openFileArray, halted>>
      /\ \E block \in StartBlocks(off) :
             IF block > Len(srcRes.blocks)
             THEN NextPage /\ UNCHANGED recTree
             ELSE \E i \in AtOrAbove(srcRes.blocks[block].recArr, limit, off) :
                    /\ Walk(block, i, limit)
                    /\ IF i < limit THEN CutAt(block, i) ELSE UNCHANGED recTree
  BY DEF FirstPage
<1>3. PICK block \in StartBlocks(off) :
             IF block > Len(srcRes.blocks)
             THEN NextPage /\ UNCHANGED recTree
             ELSE \E i \in AtOrAbove(srcRes.blocks[block].recArr, limit, off) :
                    /\ Walk(block, i, limit)
                    /\ IF i < limit THEN CutAt(block, i) ELSE UNCHANGED recTree
  BY <1>2
<1>4. block \in 1..(Len(srcRes.blocks) + 1) /\ Len(srcRes.blocks) \in Nat
  <2>1. \A recs, m, o : AtOrAbove(recs, m, o) \subseteq 0..m
    BY DEF AtOrAbove
  <2>2. PICK k \in 0..Len(srcRes.blocks) : block = k + 1
    BY <2>1 DEF StartBlocks
  <2> QED BY <1>1, <2>2 DEF Formed
<1>5. CASE block > Len(srcRes.blocks)
  BY <1>1, <1>3, <1>5, NextPagePrefix
<1>6. CASE ~(block > Len(srcRes.blocks))
  <2>1. PICK i \in AtOrAbove(srcRes.blocks[block].recArr, limit, off) :
          /\ Walk(block, i, limit)
          /\ IF i < limit THEN CutAt(block, i) ELSE UNCHANGED recTree
    BY <1>3, <1>6
  <2>2. /\ copy'.phase = "records" /\ copy'.src = copy.src
        /\ copy'.below = copy.below /\ copy'.ordered = copy.ordered
    BY <1>1, <2>1 DEF InTraced, Walk, TracedFields
  <2>3. ~AtFirst'
    BY <2>2 DEF AtFirst
  <2>4. CASE ~(i < limit)
    <3>1. UNCHANGED recTree
      BY <2>1, <2>4
    <3> QED BY <1>1, <2>2, <2>3, <3>1, PrefixPassed DEF Traced
  <2>5. CASE i < limit
    <3> DEFINE p == PageOf(copy.src)
               m == recTree'[p]
    <3>1. off \in Nat /\ copy.start = p
      <4>1. copy.src \in Int
        BY <1>1 DEF InTraced
      <4> QED BY <1>1, <4>1, AddressSplit, PageSizeAssumption DEF AtFirst
    <3>2. /\ Traced' = Traced /\ m.blocks = srcRes.blocks
          /\ m.recModEntry = block /\ m.memRecIdx = i
      <4>1. i \in 0..MEMRECPERENTRY /\ block \in 1..Len(srcRes.blocks)
        <5>1. i \in 0..limit /\ limit \in 0..MEMRECPERENTRY
          BY <1>1 DEF AtOrAbove, Formed
        <5> HIDE DEF limit
        <5> QED BY <1>4, <1>6, <5>1, MemRecPerEntryAssumption
      <4>2. CutAt(block, i)
        BY <2>1, <2>5
      <4> QED BY <1>1, <1>2, <3>1, <4>1, <4>2, CutTree
    <3>3. ASSUME copy.ordered PROVE copy.below \subseteq SeenIn(m)
      <4>1. AllWritten(srcRes) /\ Ascending(srcRes) /\ copy.below = Below(copy.src)
        BY <1>1, <3>3 DEF PrefixInv, GhostsHold
      <4>2. block \in 1..Len(srcRes.blocks)
        BY <1>4, <1>6
      <4>3. \A r \in SeenIn(srcRes) : r.pageOffset < off => r \in SeenIn(m)
        <5> HIDE DEF off, m
        <5> QED BY <1>1, <2>1, <2>5, <3>1, <3>2, <4>1, <4>2, CutKeepsBelow
      <4>4. SeenAt(p) = SeenIn(srcRes)
        BY <1>1, <3>1 DEF SeenAt, SeenIn, srcRes
      <4> QED BY <4>1, <4>3, <4>4 DEF Below
    <3>4. SeenAt(PageOf(copy.src))' = SeenIn(m)
      BY <1>1, <2>2, <3>1, <3>2 DEF SeenAt, SeenIn
    <3>5. copy'.ordered => copy'.below \subseteq SeenAt(PageOf(copy.src))'
      BY <2>2, <3>3, <3>4
    <3> QED BY <2>3, <3>5 DEF PrefixInv
  <2> QED BY <2>4, <2>5
<1> QED BY <1>5, <1>6

LEMMA StepPrefix ==
    ASSUME WalkInv, PrefixInv, LaterPage \/ CopyRecord \/ NextBlock
    PROVE  PrefixInv'
<1>1. InTraced /\ TreeInv
  BY WalkPhases DEF LaterPage, CopyRecord, NextBlock, BlockDone, WalkInv
<1>2. /\ copy'.src = copy.src /\ copy'.below = copy.below /\ copy'.ordered = copy.ordered
      /\ copy'.phase = "records"
  BY <1>1 DEF LaterPage, Walk, CopyRecord, NextBlock, BlockDone, InTraced, TracedFields
<1>3. ~AtFirst'
  BY <1>2 DEF AtFirst
<1>4. CASE LaterPage \/ NextBlock
  <2>1. recTree' = recTree
    BY <1>4 DEF LaterPage, NextBlock, vars
  <2> QED BY <1>1, <1>2, <1>3, <2>1, PrefixPassed DEF Traced
<1>5. CASE CopyRecord
  <2>1. PICK r \in IF curMemRec = Unwritten THEN Rec ELSE {curMemRec} :
          LET c == CopyOf(copy.src, copy.dest, copy.start, r)
          IN  /\ c.page \in Pages \ Source(copy.src, copy.last)
              /\ InsertFound(c.page, c.rec) \/ InsertNew(c.page, c.rec)
    BY <1>5 DEF CopyRecord
  <2> DEFINE c == CopyOf(copy.src, copy.dest, copy.start, r)
  <2>2. c.page \in Pages /\ c.page \notin Source(copy.src, copy.last)
    BY <2>1
  <2>3. InsertFound(c.page, c.rec) \/ InsertNew(c.page, c.rec)
    BY <2>1
  <2>4. r \in Rec
    <3>1. OnList /\ copy.idx \in Slots
      <4>1. OnList /\ AtSlot /\ copy.idx < copy.uplimit
        BY <1>1, <1>5 DEF CopyRecord, InTraced
      <4> QED BY <4>1, MemRecPerEntryAssumption DEF AtSlot, Slots
    <3>2. curMemRec \in Rec \cup {Unwritten}
      BY <1>1, <3>1, SlotTyped DEF curMemRec
    <3> QED BY <3>2
  <2>5. c.rec \in Rec
    <3>1. copy.src \in Nat /\ copy.dest \in Nat /\ copy.start \in Int
      BY <1>1 DEF InTraced, Source
    <3> QED BY <2>4, <3>1, CopyTyped
  <2> HIDE DEF c
  <2>6. Inserted(c.page, c.rec)
    BY <1>1, <2>2, <2>3, <2>5, InsertTree
  <2>7. PageOf(copy.src) # c.page
    <3>1. PageOf(copy.src) \in Int /\ copy.start \in PageOf(copy.src)..copy.last /\ copy.last \in Nat
      BY <1>1, AddressSplit DEF InTraced, Source
    <3>2. PageOf(copy.src) \in Source(copy.src, copy.last)
      BY <3>1 DEF Source
    <3> QED BY <2>2, <3>2
  <2>8. PageOf(copy.src) \in Traced =>
           PageOf(copy.src) \in Traced' /\ recTree'[PageOf(copy.src)] = recTree[PageOf(copy.src)]
    BY <2>6, <2>7 DEF Inserted
  <2> QED BY <1>1, <1>2, <1>3, <2>8, PrefixPassed
<1> QED BY <1>4, <1>5

LEMMA NextPrefix ==
    ASSUME WalkInv, PrefixInv, [ReallocNext]_tracedVars
    PROVE  PrefixInv'
<1>1. CASE UNCHANGED tracedVars
  <2>1. recTree' = recTree /\ copy' = copy
    BY <1>1 DEF tracedVars, vars
  <2> QED BY <2>1 DEF PrefixInv, InTraced, OnList, AtSlot, srcRes, AtFirst, GhostsHold,
                      Below, SeenAt, Traced
<1>2. WalkInv'
  BY NextWalk
<1>3. ASSUME copy'.phase \notin {"page", "records", "done"} PROVE PrefixInv'
  BY <1>3 DEF PrefixInv, InTraced
<1>4. CASE ~Calling /\ UNCHANGED copy
  <2>1. copy' = NoCall
    BY <1>4, WalkPhases
  <2> QED BY <1>3, <2>1 DEF NoCall
<1>5. CASE \E c \in Calls : Call(c.src, c.dest, c.last)
  BY <1>5, CallPrefix
<1>6. CASE FirstPage
  BY <1>6, FirstPagePrefix
<1>7. CASE PassPage \/ PageDone
  <2>1. InTraced /\ NextPage /\ UNCHANGED vars
    BY <1>7, WalkPhases DEF PassPage, PageDone, BlockDone
  <2> QED BY <2>1, NextPagePrefix DEF vars
<1>8. CASE LaterPage \/ CopyRecord \/ NextBlock
  BY <1>8, StepPrefix
<1>9. CASE Return \/ ReallocReturn
  <2>1. copy' = NoCall
    BY <1>9 DEF Return, ReallocReturn
  <2> QED BY <1>3, <2>1 DEF NoCall
<1>10. CASE (\E c \in Reallocs : ReallocCall(c.src, c.dest, c.tail)) \/ ReallocStep
  <2>1. InRealloc'
    BY <1>10, ReallocCallWalks, SearchPageWalks, EnterBlockWalks, SpinWalks,
       VisitRecordWalks, LeaveBlockWalks DEF ReallocStep
  <2> QED BY <1>3, <2>1 DEF InRealloc
<1> QED
  BY <1>1, <1>4, <1>5, <1>6, <1>7, <1>8, <1>9, <1>10 DEF ReallocNext, TracedNext

(* However long the lists, and whatever the calls before have left of them,
   a copy from an ordered page takes from its readers nothing that lies
   before src (the cut of awn.c:1067-1088).                                 *)
THEOREM PrefixAlwaysStays == ReallocSpec => []PrefixStays
<1>1. TracedInit => PrefixInv
  BY DEF TracedInit, NoCall, PrefixInv, InTraced
<1>2. WalkInv /\ PrefixInv /\ [ReallocNext]_tracedVars => PrefixInv'
  BY NextPrefix
<1>3. ASSUME WalkInv, PrefixInv PROVE PrefixStays
  BY <1>3, WalkPhases DEF PrefixStays, Returning, PrefixInv
<1> QED BY <1>1, <1>2, <1>3, WalkInvariance, PTL DEF ReallocSpec

-----------------------------------------------------------------------------
(* A list of one block.  What its readers see is a stretch of its array that
   was written in order, whatever cuts and restarts came before.            *)

\* The slots from i up to m of the oldest block hold records in order.
Run(n, i, m) ==
    \A k \in i..(m - 1) :
        /\ At(n, 1, k) \in Rec
        /\ \A l \in i..(m - 1) :
              k < l => At(n, 1, k).pageOffset < At(n, 1, l).pageOffset

InRun(n) == Len(n.blocks) = 1 => Run(n, 0, n.memRecIdx)

\* insertRec with what its comparison said.
MayRestart(n, r) ==
    n.memRecIdx # 0 /\ (LastRec(n) = Unwritten \/ LastRec(n).pageOffset >= r.pageOffset)
MayGoOn(n, r) ==
    \/ n.memRecIdx = 0
    \/ LastRec(n) = Unwritten
    \/ ~(LastRec(n).pageOffset >= r.pageOffset)
Wrote(n, m, r) ==
    \/ MayRestart(n, r) /\ m = WriteRec(Restart(n), r, Unset)
    \/ MayGoOn(n, r) /\ NeedsBlock(n) /\ \E e : m = WriteRec(n, r, e)
    \/ MayGoOn(n, r) /\ ~NeedsBlock(n) /\ m = WriteRec(n, r, Unset)

LEMMA InsertWrites ==
    ASSUME TreeInv, NEW p, NEW r \in Rec, InsertFound(p, r)
    PROVE  Wrote(recTree[p], recTree'[p], r)
<1> DEFINE n == recTree[p]
<1>1. p \in DOMAIN recTree
  BY DEF InsertFound, Traced
<1>2. \/ MayRestart(n, r) /\ RestartAndWrite(p, r)
      \/ MayGoOn(n, r) /\ NeedsBlock(n) /\ WriteInNewBlock(p, r)
      \/ MayGoOn(n, r) /\ ~NeedsBlock(n) /\ WriteInPlace(p, r)
  <2> DEFINE A == LastRec(n).pageOffset >= r.pageOffset
  <2>1. \E outOfOrder \in OutOfOrder(n, r.pageOffset) :
          IF outOfOrder THEN RestartAndWrite(p, r)
          ELSE IF NeedsBlock(n) THEN WriteInNewBlock(p, r)
          ELSE WriteInPlace(p, r)
    BY DEF InsertFound
  <2> HIDE DEF n
  <2>2. CASE n.memRecIdx = 0
    <3>1. OutOfOrder(n, r.pageOffset) = {FALSE} /\ MayGoOn(n, r)
      BY <2>2 DEF OutOfOrder, MayGoOn
    <3> QED BY <2>1, <3>1
  <2>3. CASE n.memRecIdx # 0 /\ LastRec(n) = Unwritten
    <3>1. MayGoOn(n, r) /\ MayRestart(n, r)
      BY <2>3 DEF MayGoOn, MayRestart
    <3> QED BY <2>1, <3>1
  <2>4. CASE n.memRecIdx # 0 /\ LastRec(n) # Unwritten
    <3>1. OutOfOrder(n, r.pageOffset) = {A}
      BY <2>4 DEF OutOfOrder
    <3>2. (A => MayRestart(n, r)) /\ (~A => MayGoOn(n, r))
      BY <2>4 DEF MayGoOn, MayRestart
    <3> HIDE DEF A
    <3> QED BY <2>1, <3>1, <3>2
  <2> QED BY <2>2, <2>3, <2>4
<1>3. CASE MayRestart(n, r) /\ RestartAndWrite(p, r)
  <2>1. recTree'[p] = WriteRec(Restart(n), r, Unset)
    BY <1>1, <1>3 DEF RestartAndWrite
  <2> QED BY <1>3, <2>1 DEF Wrote
<1>4. CASE MayGoOn(n, r) /\ NeedsBlock(n) /\ WriteInNewBlock(p, r)
  <2>1. recTree'[p] = WriteRec(n, r, Top(Replenish(recBlocks)))
    BY <1>1, <1>4 DEF WriteInNewBlock
  <2> QED BY <1>4, <2>1 DEF Wrote
<1>5. CASE MayGoOn(n, r) /\ ~NeedsBlock(n) /\ WriteInPlace(p, r)
  <2>1. recTree'[p] = WriteRec(n, r, Unset)
    BY <1>1, <1>5 DEF WriteInPlace
  <2> QED BY <1>5, <2>1 DEF Wrote
<1> QED BY <1>2, <1>3, <1>4, <1>5

\* The three things writeRec may have done, slot by slot.
Restarted(n, m, r) ==
    /\ MayRestart(n, r)
    /\ Len(m.blocks) = 1 /\ m.recModEntry = 1 /\ m.memRecIdx = 1
    /\ \A i \in Slots : At(m, 1, i) = IF i = 0 THEN r ELSE At(n, 1, i)
WentToNew(n, m, r) ==
    /\ MayGoOn(n, r) /\ n.memRecIdx = MEMRECPERENTRY
    /\ Len(m.blocks) = Len(n.blocks) + 1
    /\ m.recModEntry = Len(n.blocks) + 1 /\ m.memRecIdx = 1
    /\ At(m, Len(n.blocks) + 1, 0) = r
    /\ \A j \in 1..Len(n.blocks), i \in Slots : At(m, j, i) = At(n, j, i)
WentOn(n, m, r) ==
    /\ MayGoOn(n, r) /\ n.memRecIdx \in Slots
    /\ Len(m.blocks) = Len(n.blocks)
    /\ m.recModEntry = n.recModEntry /\ m.memRecIdx = n.memRecIdx + 1
    /\ \A j \in 1..Len(n.blocks), i \in Slots :
          At(m, j, i) = IF j = n.recModEntry /\ i = n.memRecIdx THEN r ELSE At(n, j, i)

LEMMA NewBlockSlots ==
    ASSUME NEW n, NEW r \in Rec, NEW e, Formed(n), NeedsBlock(n)
    PROVE  LET m == WriteRec(n, r, e)
           IN  /\ Len(m.blocks) = Len(n.blocks) + 1
               /\ m.recModEntry = Len(n.blocks) + 1 /\ m.memRecIdx = 1
               /\ At(m, Len(n.blocks) + 1, 0) = r
               /\ \A j \in 1..Len(n.blocks), i \in Slots : At(m, j, i) = At(n, j, i)
<1> DEFINE m == WriteRec(n, r, e)
<1>1. PICK E : n \in NodeOver(E)
  BY DEF Formed
<1>2. /\ m \in NodeOver(E \cup {e}) /\ Len(m.blocks) = Len(n.blocks) + 1
      /\ m.recModEntry = Len(n.blocks) + 1 /\ m.memRecIdx = 1
      /\ At(m, Len(n.blocks) + 1, 0) = r
      /\ \A j \in 1..Len(n.blocks), i \in Slots : At(m, j, i) = At(n, j, i)
  BY <1>1, WriteInNewBlockEffect, SMTT(60)
<1> QED BY <1>2

LEMMA WroteHow ==
    ASSUME NEW n, Formed(n), NEW m, NEW r \in Rec, Wrote(n, m, r)
    PROVE  /\ Formed(m)
           /\ Restarted(n, m, r) \/ WentToNew(n, m, r) \/ WentOn(n, m, r)
<1>0. PICK E : n \in NodeOver(E)
  BY DEF Formed
<1>1. /\ Len(n.blocks) \in Nat \ {0} /\ n.recModEntry \in 1..Len(n.blocks)
      /\ n.memRecIdx \in 0..MEMRECPERENTRY /\ 0 \in Slots
  BY MemRecPerEntryAssumption DEF Formed, Slots
<1>2. CASE MayRestart(n, r) /\ m = WriteRec(Restart(n), r, Unset)
  <2> DEFINE q == Restart(n)
  <2>1. /\ q \in NodeOver(E) /\ Len(q.blocks) = 1 /\ q.recModEntry = 1
        /\ q.memRecIdx = 0
    BY <1>0, <1>1, RestartEffect
  <2>2. q.blocks[1] = n.blocks[1]
    BY DEF Restart
  <2> HIDE DEF q
  <2>3. q.recModEntry \in 1..Len(q.blocks) /\ q.memRecIdx \in Slots
    BY <1>1, <2>1
  <2>4. /\ Len(m.blocks) = Len(q.blocks)
        /\ m.recModEntry = q.recModEntry /\ m.memRecIdx = q.memRecIdx + 1
        /\ \A j \in 1..Len(q.blocks), i \in Slots :
              At(m, j, i) = IF j = q.recModEntry /\ i = q.memRecIdx THEN r ELSE At(q, j, i)
    <3>1. m = WriteRec(q, r, Unset)
      BY <1>2 DEF q
    <3>2. LET w == WriteRec(q, r, Unset)
          IN  /\ w \in NodeOver(E)
              /\ Len(w.blocks) = Len(q.blocks)
              /\ w.recModEntry = q.recModEntry
              /\ w.memRecIdx = q.memRecIdx + 1
              /\ \A j \in 1..Len(q.blocks) : w.blocks[j].ent = q.blocks[j].ent
              /\ \A j \in 1..Len(q.blocks), i \in Slots :
                    At(w, j, i) = IF j = q.recModEntry /\ i = q.memRecIdx
                                  THEN r ELSE At(q, j, i)
      BY <2>1, <2>3, WriteInPlaceEffect
    <3> QED BY <3>1, <3>2
  <2>5. Formed(m)
    BY <1>2, RestartUsable, UsableFormed
  <2>6. Restarted(n, m, r)
    BY <1>2, <2>1, <2>2, <2>4 DEF Restarted, At
  <2> QED BY <2>5, <2>6
<1>3. CASE MayGoOn(n, r) /\ NeedsBlock(n) /\ \E e : m = WriteRec(n, r, e)
  <2>1. PICK e : m = WriteRec(n, r, e)
    BY <1>3
  <2>2. Formed(m)
    BY <1>3, <2>1, NewBlockFormed
  <2>3. n.memRecIdx = MEMRECPERENTRY
    BY <1>1, <1>3, MemRecPerEntryAssumption DEF NeedsBlock
  <2>4. /\ Len(m.blocks) = Len(n.blocks) + 1
        /\ m.recModEntry = Len(n.blocks) + 1 /\ m.memRecIdx = 1
        /\ At(m, Len(n.blocks) + 1, 0) = r
        /\ \A j \in 1..Len(n.blocks), i \in Slots : At(m, j, i) = At(n, j, i)
    BY <1>3, <2>1, NewBlockSlots
  <2>5. WentToNew(n, m, r)
    BY <1>3, <2>3, <2>4 DEF WentToNew
  <2> QED BY <2>2, <2>5
<1>4. CASE MayGoOn(n, r) /\ ~NeedsBlock(n) /\ m = WriteRec(n, r, Unset)
  <2>1. n.memRecIdx \in Slots
    BY <1>1, <1>4, MemRecPerEntryAssumption DEF NeedsBlock, Slots
  <2>2. Formed(m)
    BY <1>4, InPlaceFormed
  <2>3. WentOn(n, m, r)
    BY <1>0, <1>1, <1>4, <2>1, WriteInPlaceEffect DEF WentOn
  <2> QED BY <2>2, <2>3
<1> QED BY <1>2, <1>3, <1>4 DEF Wrote

(* The places of a list and its slots.                                      *)
LEMMA SeenMeans ==
    ASSUME NEW n, NEW x
    PROVE  x \in SeenIn(n) <=>
             \E j \in 1..Len(n.blocks), i \in Slots :
                 i < VisibleIn(n, j) /\ x = At(n, j, i) /\ x # Unwritten
<1>1. ASSUME x \in SeenIn(n)
      PROVE  \E j \in 1..Len(n.blocks), i \in Slots :
                 i < VisibleIn(n, j) /\ x = At(n, j, i) /\ x # Unwritten
  <2>1. PICK pl \in Places(n) : x = RecAt(n, pl) /\ x # Unwritten
    BY <1>1 DEF SeenIn
  <2>2. pl[1] \in 1..Len(n.blocks) /\ pl[2] \in Slots /\ pl[2] < VisibleIn(n, pl[1])
    BY DEF Places
  <2> QED BY <2>1, <2>2 DEF RecAt, At
<1>2. ASSUME NEW j \in 1..Len(n.blocks), NEW i \in Slots, i < VisibleIn(n, j),
             x = At(n, j, i), x # Unwritten
      PROVE  x \in SeenIn(n)
  <2>1. <<j, i>> \in Places(n)
    BY <1>2 DEF Places
  <2>2. x = RecAt(n, <<j, i>>)
    BY <1>2 DEF RecAt, At
  <2> QED BY <1>2, <2>1, <2>2 DEF SeenIn
<1> QED BY <1>1, <1>2

(* The record written is the last one, and the readers see it.              *)
LEMMA WrittenSeen ==
    ASSUME NEW n, Formed(n), NEW m, NEW r \in Rec, Wrote(n, m, r)
    PROVE  m.memRecIdx > 0 /\ LastRec(m) = r /\ r \in SeenIn(m)
<1>1. /\ Len(n.blocks) \in Nat \ {0} /\ n.recModEntry \in 1..Len(n.blocks)
      /\ n.memRecIdx \in 0..MEMRECPERENTRY /\ 0 \in Slots /\ MEMRECPERENTRY \in Nat \ {0}
  BY MemRecPerEntryAssumption DEF Formed, Slots
<1>2. /\ m.memRecIdx > 0 /\ m.memRecIdx - 1 \in Slots
      /\ m.recModEntry \in 1..Len(m.blocks)
      /\ At(m, m.recModEntry, m.memRecIdx - 1) = r
  <2>1. CASE Restarted(n, m, r)
    BY <1>1, <2>1 DEF Restarted
  <2>2. CASE WentToNew(n, m, r)
    BY <1>1, <2>2 DEF WentToNew
  <2>3. CASE WentOn(n, m, r)
    BY <1>1, <2>3 DEF WentOn, Slots
  <2> QED BY <2>1, <2>2, <2>3, WroteHow
<1>3. LastRec(m) = r
  BY <1>2 DEF LastRec, ModBlock, At
<1>4. m.memRecIdx - 1 < VisibleIn(m, m.recModEntry) /\ r # Unwritten
  <2>1. m.memRecIdx \in Int
    BY <1>1, WroteHow DEF Formed
  <2>2. VisibleIn(m, m.recModEntry) = m.memRecIdx
    BY DEF VisibleIn
  <2> QED BY <2>1, <2>2, UnwrittenAssumption
<1> QED BY <1>2, <1>3, <1>4, SeenMeans

\* r comes behind the last record of n.
LastBefore(n, r) ==
    n.memRecIdx > 0 /\ LastRec(n) \in Rec /\ LastRec(n).pageOffset < r.pageOffset

(* Behind the last record, writing takes nothing from the readers.          *)
LEMMA WrittenBehind ==
    ASSUME NEW n, Formed(n), NEW m, NEW r \in Rec, Wrote(n, m, r), LastBefore(n, r)
    PROVE  SeenIn(n) \subseteq SeenIn(m)
<1>1. /\ Len(n.blocks) \in Nat \ {0} /\ n.recModEntry \in 1..Len(n.blocks)
      /\ n.memRecIdx \in 0..MEMRECPERENTRY /\ MEMRECPERENTRY \in Nat \ {0}
  BY MemRecPerEntryAssumption DEF Formed
<1>2. ~MayRestart(n, r)
  <2>1. LastRec(n) # Unwritten /\ LastRec(n).pageOffset \in Int /\ r.pageOffset \in Int
    BY UnwrittenAssumption DEF LastBefore, Rec
  <2> QED BY <2>1 DEF LastBefore, MayRestart
<1>3. ASSUME NEW j \in 1..Len(n.blocks), NEW i \in Slots, i < VisibleIn(n, j)
      PROVE  j \in 1..Len(m.blocks) /\ i < VisibleIn(m, j) /\ At(m, j, i) = At(n, j, i)
  <2>1. CASE WentToNew(n, m, r)
    BY <1>1, <1>3, <2>1 DEF WentToNew, VisibleIn, Slots
  <2>2. CASE WentOn(n, m, r)
    BY <1>1, <1>3, <2>2 DEF WentOn, VisibleIn, Slots
  <2> QED BY <1>2, <2>1, <2>2, WroteHow DEF Restarted
<1> QED BY <1>3, SeenMeans

(* A list of one block stays a run.                                         *)
LEMMA WrittenRun ==
    ASSUME NEW n, Formed(n), NEW m, NEW r \in Rec, Wrote(n, m, r), InRun(n)
    PROVE  InRun(m)
<1>1. /\ Len(n.blocks) \in Nat \ {0} /\ n.recModEntry \in 1..Len(n.blocks)
      /\ n.memRecIdx \in 0..MEMRECPERENTRY /\ 0 \in Slots
  BY MemRecPerEntryAssumption DEF Formed, Slots
<1>2. CASE Restarted(n, m, r)
  BY <1>1, <1>2 DEF Restarted, InRun, Run
<1>3. CASE WentToNew(n, m, r)
  <2>1. Len(m.blocks) = Len(n.blocks) + 1
    BY <1>3 DEF WentToNew
  <2>2. Len(m.blocks) # 1
    BY <1>1, <2>1
  <2> QED BY <2>2 DEF InRun
<1>4. CASE WentOn(n, m, r)
  <2> SUFFICES ASSUME Len(m.blocks) = 1 PROVE Run(m, 0, m.memRecIdx)
    BY DEF InRun
  <2>1. /\ Len(n.blocks) = 1 /\ n.recModEntry = 1 /\ m.memRecIdx = n.memRecIdx + 1
        /\ n.memRecIdx \in Slots
        /\ \A i \in Slots : At(m, 1, i) = IF i = n.memRecIdx THEN r ELSE At(n, 1, i)
        /\ Run(n, 0, n.memRecIdx)
    <3>1. /\ n.memRecIdx \in Slots /\ Len(m.blocks) = Len(n.blocks)
          /\ m.memRecIdx = n.memRecIdx + 1
          /\ \A j \in 1..Len(n.blocks), i \in Slots :
                At(m, j, i) = IF j = n.recModEntry /\ i = n.memRecIdx THEN r ELSE At(n, j, i)
      BY <1>4 DEF WentOn
    <3>2. Len(n.blocks) = 1
      BY <3>1
    <3>3. n.recModEntry = 1 /\ 1 \in 1..Len(n.blocks)
      BY <1>1, <3>2
    <3>4. Run(n, 0, n.memRecIdx)
      BY <3>2 DEF InRun
    <3> QED BY <3>1, <3>2, <3>3, <3>4
  <2> DEFINE s == n.memRecIdx
  <2>2. s \in Nat /\ \A k \in 0..s : k \in Slots /\ (k # s => k \in 0..(s - 1))
    <3>1. s \in 0..(MEMRECPERENTRY - 1)
      BY <2>1 DEF Slots
    <3> HIDE DEF s
    <3> QED BY <3>1, MemRecPerEntryAssumption DEF Slots
  <2>3. At(m, 1, s) = r /\ \A k \in 0..(s - 1) : At(m, 1, k) = At(n, 1, k)
    BY <2>1, <2>2
  <2>4. \A k \in 0..(s - 1) : At(n, 1, k) \in Rec
    BY <2>1 DEF Run
  <2>5. \A k, l \in 0..(s - 1) : k < l => At(n, 1, k).pageOffset < At(n, 1, l).pageOffset
    BY <2>1 DEF Run
  <2>6. ASSUME s # 0 PROVE At(n, 1, s - 1).pageOffset < r.pageOffset
    <3>1. LastRec(n) = At(n, 1, s - 1) /\ At(n, 1, s - 1) \in Rec
      BY <2>1, <2>2, <2>4, <2>6 DEF LastRec, ModBlock, At
    <3>2. LastRec(n) # Unwritten /\ LastRec(n).pageOffset \in Int /\ r.pageOffset \in Int
      BY <3>1, UnwrittenAssumption DEF Rec
    <3>3. ~(LastRec(n).pageOffset >= r.pageOffset)
      BY <1>4, <2>6, <3>2 DEF WentOn, MayGoOn
    <3> QED BY <3>1, <3>2, <3>3
  <2> HIDE DEF s
  <2>7. \A k \in 0..(s - 1) : At(n, 1, k).pageOffset < r.pageOffset
    <3> SUFFICES ASSUME NEW k \in 0..(s - 1) PROVE At(n, 1, k).pageOffset < r.pageOffset
      OBVIOUS
    <3>1. s # 0 /\ s - 1 \in 0..(s - 1)
      BY <2>2
    <3>2. /\ At(n, 1, k).pageOffset \in Int /\ r.pageOffset \in Int
          /\ At(n, 1, s - 1).pageOffset \in Int
      BY <2>4, <3>1 DEF Rec
    <3>3. CASE k = s - 1
      BY <2>6, <3>1, <3>3
    <3>4. CASE k # s - 1
      BY <2>2, <2>5, <2>6, <3>1, <3>2, <3>4
    <3> QED BY <3>3, <3>4
  <2>8. \A k \in 0..s : At(m, 1, k) \in Rec
    BY <2>2, <2>3, <2>4
  <2>9. \A k, l \in 0..s : k < l => At(m, 1, k).pageOffset < At(m, 1, l).pageOffset
    <3> SUFFICES ASSUME NEW k \in 0..s, NEW l \in 0..s, k < l
                 PROVE  At(m, 1, k).pageOffset < At(m, 1, l).pageOffset
      OBVIOUS
    <3>1. k \in 0..(s - 1)
      BY <2>2
    <3>2. CASE l = s
      BY <2>3, <2>7, <3>1, <3>2
    <3>3. CASE l # s
      BY <2>2, <2>3, <2>5, <3>1, <3>3
    <3> QED BY <3>2, <3>3
  <2>10. m.memRecIdx - 1 = s
    BY <2>1, <2>2 DEF s
  <2> QED BY <2>8, <2>9, <2>10 DEF Run
<1> QED BY <1>2, <1>3, <1>4, WroteHow

(* ts_realloc on an area that stayed: the list it walks is written behind
   the slot it is at.  The first insert restarts it.                        *)
LEMMA WrittenBeforeWalk ==
    ASSUME NEW n, Formed(n), NEW m, NEW r \in Rec, Wrote(n, m, r),
           Len(n.blocks) = 1, NEW limit \in 0..MEMRECPERENTRY, NEW idx \in 0..(limit - 1),
           At(n, 1, idx) = r, Run(n, idx, limit),
           n.memRecIdx = limit \/ n.memRecIdx <= idx
    PROVE  /\ Len(m.blocks) = 1 /\ m.memRecIdx <= idx + 1
           /\ \A k \in Slots : k > idx => At(m, 1, k) = At(n, 1, k)
<1>1. /\ n.recModEntry = 1 /\ n.memRecIdx \in 0..MEMRECPERENTRY
      /\ MEMRECPERENTRY \in Nat \ {0}
  BY MemRecPerEntryAssumption DEF Formed
<1>2. CASE n.memRecIdx = limit
  <2>1. LastRec(n) = At(n, 1, limit - 1)
    BY <1>1, <1>2 DEF LastRec, ModBlock, At
  <2>2. At(n, 1, limit - 1) \in Rec /\ limit - 1 \in idx..(limit - 1) /\ idx \in idx..(limit - 1)
    BY DEF Run
  <2>3. r.pageOffset <= At(n, 1, limit - 1).pageOffset
    <3>1. r.pageOffset \in Int /\ At(n, 1, limit - 1).pageOffset \in Int
      BY <2>2 DEF Rec
    <3>2. CASE idx = limit - 1
      BY <3>1, <3>2
    <3>3. CASE idx # limit - 1
      <4>1. idx < limit - 1
        BY <3>3
      <4> QED BY <2>2, <3>1, <4>1 DEF Run
    <3> QED BY <3>2, <3>3
  <2>4. ~MayGoOn(n, r)
    <3>1. LastRec(n) # Unwritten
      BY <2>1, <2>2, UnwrittenAssumption
    <3>2. LastRec(n).pageOffset >= r.pageOffset
      <4>1. r.pageOffset \in Int /\ At(n, 1, limit - 1).pageOffset \in Int
        BY <2>2 DEF Rec
      <4> QED BY <2>1, <2>3, <4>1
    <3>3. n.memRecIdx # 0
      BY <1>2
    <3> QED BY <3>1, <3>2, <3>3 DEF MayGoOn
  <2>5. Restarted(n, m, r)
    BY <2>4, WroteHow DEF WentToNew, WentOn
  <2> QED BY <2>5 DEF Restarted, Slots
<1>3. CASE n.memRecIdx <= idx
  <2>1. n.memRecIdx # MEMRECPERENTRY
    BY <1>1, <1>3
  <2>2. CASE Restarted(n, m, r)
    BY <2>2 DEF Restarted, Slots
  <2>3. CASE WentOn(n, m, r)
    BY <1>1, <1>3, <2>3 DEF WentOn, Slots
  <2> QED BY <2>1, <2>2, <2>3, WroteHow DEF WentToNew
<1> QED BY <1>2, <1>3

(* What the readers see of such a list.                                     *)
LEMMA RunSeen ==
    ASSUME NEW n, Formed(n), Len(n.blocks) = 1, Run(n, 0, n.memRecIdx)
    PROVE  /\ n.recModEntry = 1 /\ n.memRecIdx \in 0..MEMRECPERENTRY
           /\ \A x : x \in SeenIn(n) <=> \E k \in 0..(n.memRecIdx - 1) : x = At(n, 1, k)
<1>1. /\ n.recModEntry = 1 /\ n.memRecIdx \in 0..MEMRECPERENTRY
      /\ MEMRECPERENTRY \in Nat \ {0}
  BY MemRecPerEntryAssumption DEF Formed
<1>2. VisibleIn(n, 1) = n.memRecIdx
  BY <1>1 DEF VisibleIn
<1>3. \A k \in 0..(n.memRecIdx - 1) : At(n, 1, k) \in Rec /\ At(n, 1, k) # Unwritten
  BY UnwrittenAssumption DEF Run
<1>4. \A i : (i \in Slots /\ i < n.memRecIdx) <=> i \in 0..(n.memRecIdx - 1)
  BY <1>1 DEF Slots
<1>5. ASSUME NEW x
      PROVE  x \in SeenIn(n) <=> \E k \in 0..(n.memRecIdx - 1) : x = At(n, 1, k)
  <2>1. x \in SeenIn(n) <=>
             \E j \in 1..1, i \in Slots :
                 i < VisibleIn(n, j) /\ x = At(n, j, i) /\ x # Unwritten
    BY SeenMeans
  <2>2. x \in SeenIn(n) <=>
             \E i \in Slots : i < n.memRecIdx /\ x = At(n, 1, i) /\ x # Unwritten
    BY <1>2, <2>1
  <2> QED BY <1>3, <1>4, <2>2
<1> QED BY <1>1, <1>5

-----------------------------------------------------------------------------
(* All lists of one block are runs, always.                                 *)

ShortLists == \A p \in Traced : InRun(recTree[p])

LEMMA PageWritten ==
    ASSUME TreeInv, NEW p \in Pages, NEW r \in Rec, InsertFound(p, r) \/ InsertNew(p, r)
    PROVE  /\ p \in Traced' /\ Formed(recTree'[p])
           /\ \E n : /\ Formed(n) /\ Wrote(n, recTree'[p], r)
                     /\ p \in Traced => n = recTree[p]
                     /\ p \notin Traced => InRun(n)
<1>1. TreeInv' /\ Inserted(p, r)
  BY InsertTree
<1>2. p \in Traced' /\ Formed(recTree'[p])
  BY <1>1 DEF Inserted, TreeInv
<1>3. CASE p \in Traced
  <2>1. InsertFound(p, r)
    BY <1>3 DEF InsertNew
  <2>2. Wrote(recTree[p], recTree'[p], r)
    BY <2>1, InsertWrites
  <2>3. Formed(recTree[p])
    BY <1>3 DEF TreeInv
  <2> QED BY <1>2, <1>3, <2>2, <2>3
<1>4. CASE p \notin Traced
  <2>1. PICK e : recTree'[p] = WriteRec(NewNode(e), r, Unset)
    BY <1>1, <1>4 DEF Inserted
  <2> DEFINE n == NewNode(e)
  <2>2. n \in NodeOver({e}) /\ Len(n.blocks) = 1 /\ n.recModEntry = 1 /\ n.memRecIdx = 0
    BY NewNodeEffect
  <2>3. recTree'[p] = WriteRec(n, r, Unset)
    BY <2>1
  <2> HIDE DEF n
  <2>4. Formed(n) /\ ~NeedsBlock(n)
    BY <2>2, MemRecPerEntryAssumption DEF Formed, NeedsBlock
  <2>5. InRun(n)
    BY <2>2 DEF InRun, Run
  <2>6. Wrote(n, recTree'[p], r)
    BY <2>2, <2>3, <2>4 DEF Wrote, MayGoOn
  <2> QED BY <1>2, <1>4, <2>4, <2>5, <2>6
<1> QED BY <1>3, <1>4

LEMMA RunsInserted ==
    ASSUME TreeInv, ShortLists, NEW p \in Pages, NEW r \in Rec,
           InsertFound(p, r) \/ InsertNew(p, r)
    PROVE  ShortLists'
<1>1. Inserted(p, r)
  BY InsertTree
<1>2. PICK n : /\ Formed(n) /\ Wrote(n, recTree'[p], r)
               /\ p \in Traced => n = recTree[p]
               /\ p \notin Traced => InRun(n)
  BY PageWritten
<1>3. InRun(n)
  BY <1>2 DEF ShortLists
<1>4. InRun(recTree'[p])
  BY <1>2, <1>3, WrittenRun
<1>5. Traced' = Traced \cup {p} /\ \A q \in Traced : q # p => recTree'[q] = recTree[q]
  BY <1>1 DEF Inserted
<1> QED BY <1>4, <1>5 DEF ShortLists

LEMMA RunsCut ==
    ASSUME TreeInv, ShortLists, copy.start \in Traced, NEW block \in 1..Len(srcRes.blocks),
           NEW i \in 0..MEMRECPERENTRY, i < srcRes.memRecIdx, CutAt(block, i),
           UNCHANGED <<RECTREENODEPOOLIDX, TAILHEADPOOLIDX, RECTREENODETHRESHOLD,
                       recBlocks, openFileArray, halted>>
    PROVE  ShortLists'
<1> DEFINE n == srcRes
           m == recTree'[copy.start]
<1>1. /\ Traced' = Traced /\ \A q \in Traced : q # copy.start => recTree'[q] = recTree[q]
      /\ m.blocks = n.blocks /\ m.memRecIdx = i
  BY CutTree
<1>2. InRun(n) /\ n.memRecIdx \in 0..MEMRECPERENTRY
  BY DEF ShortLists, srcRes, TreeInv, Formed
<1>3. i < n.memRecIdx
  OBVIOUS
<1> HIDE DEF n, m
<1>4. InRun(m)
  <2> SUFFICES ASSUME Len(m.blocks) = 1 PROVE Run(m, 0, m.memRecIdx)
    BY DEF InRun
  <2>1. Run(n, 0, n.memRecIdx) /\ \A k : At(m, 1, k) = At(n, 1, k)
    BY <1>1, <1>2 DEF InRun, At
  <2>2. \A k \in 0..(i - 1) : k \in 0..(n.memRecIdx - 1)
    BY <1>2, <1>3, MemRecPerEntryAssumption
  <2> QED BY <1>1, <2>1, <2>2 DEF Run
<1> QED BY <1>1, <1>4 DEF ShortLists, m

(* What the steps that insert do.                                           *)
LEMMA CopyRecordIs ==
    ASSUME WalkInv, CopyRecord
    PROVE  /\ InTraced /\ TreeInv /\ OnList /\ AtSlot /\ copy.idx < copy.uplimit
           /\ \E r, c :
                /\ r \in Rec
                /\ curMemRec # Unwritten => r = curMemRec
                /\ c = CopyOf(copy.src, copy.dest, copy.start, r)
                /\ c.rec \in Rec /\ c.page \in Pages
                /\ c.page \notin Source(copy.src, copy.last)
                /\ InsertFound(c.page, c.rec) \/ InsertNew(c.page, c.rec)
<1>1. InTraced /\ TreeInv /\ OnList /\ AtSlot /\ copy.idx < copy.uplimit
  BY WalkPhases DEF CopyRecord, WalkInv, InTraced
<1>2. copy.idx \in Slots
  BY <1>1, MemRecPerEntryAssumption DEF AtSlot, Slots
<1>3. curMemRec \in Rec \cup {Unwritten}
  BY <1>1, <1>2, SlotTyped DEF curMemRec
<1>4. PICK r \in IF curMemRec = Unwritten THEN Rec ELSE {curMemRec} :
        LET c == CopyOf(copy.src, copy.dest, copy.start, r)
        IN  /\ c.page \in Pages \ Source(copy.src, copy.last)
            /\ InsertFound(c.page, c.rec) \/ InsertNew(c.page, c.rec)
  BY DEF CopyRecord
<1>5. r \in Rec /\ (curMemRec # Unwritten => r = curMemRec)
  BY <1>3
<1> DEFINE c == CopyOf(copy.src, copy.dest, copy.start, r)
<1>6. c.rec \in Rec
  <2>1. copy.src \in Nat /\ copy.dest \in Nat /\ copy.start \in Int
    BY <1>1 DEF InTraced, Source
  <2> QED BY <1>5, <2>1, CopyTyped
<1>7. /\ c.page \in Pages /\ c.page \notin Source(copy.src, copy.last)
      /\ InsertFound(c.page, c.rec) \/ InsertNew(c.page, c.rec)
  BY <1>4
<1>8. c = CopyOf(copy.src, copy.dest, copy.start, r)
  OBVIOUS
<1> HIDE DEF c
<1> QED BY <1>1, <1>5, <1>6, <1>7, <1>8

LEMMA VisitRecordIs ==
    ASSUME WalkInv, VisitRecord
    PROVE  /\ InRealloc /\ TreeInv /\ OnList /\ AtSlot
           /\ copy.phase = "rec" /\ copy.idx < copy.uplimit
           /\ \E r \in Rec, a \in Int :
                /\ curMemRec # Unwritten => r = curMemRec
                /\ a = getAddr(copy.start, r.pageOffset)
                /\ \/ /\ a <= copy.src
                      /\ copy' = [copy EXCEPT !.idx = @ + 1] /\ UNCHANGED vars
                   \/ /\ a >= copy.tail
                      /\ copy' = [copy EXCEPT !.idx = copy.uplimit] /\ UNCHANGED vars
                   \/ copy.src < a /\ a < copy.tail /\ MoveRecord(r)
<1>1. /\ InRealloc /\ TreeInv /\ OnList /\ AtSlot
      /\ copy.phase = "rec" /\ copy.idx < copy.uplimit
  BY WalkPhases DEF VisitRecord, InPhase, WalkInv, InRealloc
<1>2. copy.idx \in Slots
  BY <1>1, MemRecPerEntryAssumption DEF AtSlot, Slots
<1>3. curMemRec \in Rec \cup {Unwritten}
  BY <1>1, <1>2, SlotTyped DEF curMemRec
<1>4. PICK r \in IF curMemRec = Unwritten THEN Rec ELSE {curMemRec} :
         IF getAddr(copy.start, r.pageOffset) <= copy.src
         THEN copy' = [copy EXCEPT !.idx = @ + 1] /\ UNCHANGED vars
         ELSE IF Beyond(r.pageOffset)
         THEN copy' = [copy EXCEPT !.idx = copy.uplimit] /\ UNCHANGED vars
         ELSE MoveRecord(r)
  BY DEF VisitRecord
<1>5. r \in Rec /\ (curMemRec # Unwritten => r = curMemRec)
  BY <1>3
<1> DEFINE a == getAddr(copy.start, r.pageOffset)
<1>6. copy.src \in Nat /\ copy.tail \in Nat /\ a \in Int
  <2>1. copy.src \in Nat /\ copy.dest \in Nat /\ copy.tail \in Nat /\ copy.start \in Int
    BY <1>1 DEF InRealloc, Source
  <2> QED BY <1>5, <2>1, CopyTyped
<1>7. a = getAddr(copy.start, r.pageOffset) /\ (Beyond(r.pageOffset) <=> a >= copy.tail)
  BY DEF Beyond
<1> HIDE DEF a
<1>8. \/ /\ a <= copy.src
         /\ copy' = [copy EXCEPT !.idx = @ + 1] /\ UNCHANGED vars
      \/ /\ a >= copy.tail
         /\ copy' = [copy EXCEPT !.idx = copy.uplimit] /\ UNCHANGED vars
      \/ copy.src < a /\ a < copy.tail /\ MoveRecord(r)
  <2>1. CASE a <= copy.src
    BY <1>4, <1>7, <2>1
  <2>2. CASE ~(a <= copy.src) /\ a >= copy.tail
    BY <1>4, <1>7, <2>2
  <2>3. CASE ~(a <= copy.src) /\ ~(a >= copy.tail)
    <3>1. MoveRecord(r)
      BY <1>4, <1>7, <2>3
    <3> QED BY <1>6, <2>3, <3>1
  <2> QED BY <2>1, <2>2, <2>3
<1> QED BY <1>1, <1>5, <1>6, <1>7, <1>8

LEMMA MoveRecordIs ==
    ASSUME InRealloc, NEW r \in Rec, copy.src < getAddr(copy.start, r.pageOffset),
           MoveRecord(r)
    PROVE  \E c : /\ c = CopyOf(copy.src, copy.dest, copy.start, r)
                  /\ c.rec \in Rec /\ c.page \in Pages
                  /\ c.page \in Source(copy.src, copy.last) =>
                       c.page = copy.start /\ c.rec = r
                  /\ InsertFound(c.page, c.rec) \/ InsertNew(c.page, c.rec)
<1> DEFINE a == getAddr(copy.start, r.pageOffset)
           c == CopyOf(copy.src, copy.dest, copy.start, r)
<1>1. /\ copy.src \in Nat /\ copy.dest \in Nat /\ copy.tail \in Nat
      /\ PageOf(copy.src) \in Int /\ PageOf(copy.tail) \in Int
      /\ copy.last = PageOf(copy.tail)
      /\ copy.start \in PageOf(copy.src)..copy.last
  BY AddressSplit DEF InRealloc, Source
<1>2. /\ c.rec \in Rec /\ c.page = PageOf(copy.dest + a - copy.src)
      /\ a \in Int /\ PageOf(a) = copy.start
  <2>1. copy.start \in Int
    BY <1>1
  <2> QED BY <1>1, <2>1, CopyTyped
<1>8. copy.dest + a - copy.src = a => c.rec = r
  <2>1. copy.start \in Int /\ r.pageOffset \in 0..(PAGESIZE - 1)
    BY <1>1 DEF Rec
  <2>2. OffsetOf(a) = r.pageOffset
    BY <2>1, AddressJoined
  <2>3. c.rec = [r EXCEPT !.pageOffset = OffsetOf(copy.dest + a - copy.src)]
    BY DEF CopyOf
  <2> HIDE DEF a, c
  <2>4. [r EXCEPT !.pageOffset = r.pageOffset] = r
    BY DEF Rec
  <2> QED BY <2>2, <2>3, <2>4
<1>3. PageOf(a) <= PageOf(copy.tail) /\ copy.src <= a
  BY <1>1, <1>2
<1>4. c.page \in Pages /\ (InsertFound(c.page, c.rec) \/ InsertNew(c.page, c.rec))
  BY DEF MoveRecord
<1>5. c = CopyOf(copy.src, copy.dest, copy.start, r)
  OBVIOUS
<1> HIDE DEF a, c
<1>6. PageOf(copy.dest + a - copy.src) \in Destination(copy.src, copy.dest, PageOf(copy.tail))
  BY <1>1, <1>2, <1>3, MovedInside
<1>7. ASSUME c.page \in Source(copy.src, copy.last)
      PROVE  c.page = copy.start /\ c.rec = r
  <2>1. CASE copy.src = copy.dest
    <3>1. copy.dest + a - copy.src = a
      BY <1>1, <1>2, <2>1
    <3> QED BY <1>2, <1>8, <3>1
  <2>2. CASE Source(copy.src, copy.last) \cap Destination(copy.src, copy.dest, copy.last) = {}
    BY <1>1, <1>2, <1>6, <1>7, <2>2
  <2> QED BY <2>1, <2>2 DEF InRealloc
<1> QED BY <1>2, <1>4, <1>5, <1>7

LEMMA NextRuns ==
    ASSUME WalkInv, ShortLists, [ReallocNext]_tracedVars
    PROVE  ShortLists'
<1>0. TreeInv
  BY DEF WalkInv
<1>1. ASSUME UNCHANGED recTree PROVE ShortLists'
  BY <1>1 DEF ShortLists, Traced
<1>2. CASE /\ ~Calling
           /\ \/ \E fd \in Fds : MapFile(fd) \/ UnmapFile(fd)
              \/ \E p \in FilledPages, r \in Rec :
                    Insertable(r) /\ (InsertFound(p, r) \/ InsertNew(p, r))
           /\ UNCHANGED copy
  <2>1. CASE \E fd \in Fds : MapFile(fd) \/ UnmapFile(fd)
    BY <1>1, <2>1 DEF MapFile, UnmapFile
  <2>2. CASE \E p \in FilledPages, r \in Rec :
                Insertable(r) /\ (InsertFound(p, r) \/ InsertNew(p, r))
    BY <1>0, <2>2, RunsInserted, FilledPagesAssumption
  <2> QED BY <1>2, <2>1, <2>2
<1>3. CASE FirstPage
  <2>1. InTraced /\ copy.start \in Traced /\ Formed(srcRes)
    BY <1>0, <1>3, WalkPhases DEF FirstPage, TreeInv, srcRes
  <2> DEFINE off == OffsetOf(copy.src)
             limit == srcRes.memRecIdx
  <2>2. UNCHANGED <<RECTREENODEPOOLIDX, TAILHEADPOOLIDX, RECTREENODETHRESHOLD,
                    recBlocks, openFileArray, halted>>
    BY <1>3 DEF FirstPage
  <2>3. PICK block \in StartBlocks(off) :
             IF block > Len(srcRes.blocks)
             THEN NextPage /\ UNCHANGED recTree
             ELSE \E i \in AtOrAbove(srcRes.blocks[block].recArr, limit, off) :
                    /\ Walk(block, i, limit)
                    /\ IF i < limit THEN CutAt(block, i) ELSE UNCHANGED recTree
    BY <1>3 DEF FirstPage
  <2>4. block \in 1..(Len(srcRes.blocks) + 1) /\ Len(srcRes.blocks) \in Nat
        /\ limit \in 0..MEMRECPERENTRY
    <3>1. \A recs, m, o : AtOrAbove(recs, m, o) \subseteq 0..m
      BY DEF AtOrAbove
    <3>2. PICK k \in 0..Len(srcRes.blocks) : block = k + 1
      BY <3>1 DEF StartBlocks
    <3> QED BY <2>1, <3>2 DEF Formed
  <2>5. CASE UNCHANGED recTree
    BY <1>1, <2>5
  <2>6. CASE ~UNCHANGED recTree
    <3>1. ~(block > Len(srcRes.blocks))
      BY <2>3, <2>6
    <3>2. PICK i \in AtOrAbove(srcRes.blocks[block].recArr, limit, off) :
            IF i < limit THEN CutAt(block, i) ELSE UNCHANGED recTree
      BY <2>3, <3>1
    <3>3. i < limit /\ CutAt(block, i)
      BY <2>6, <3>2
    <3>4. i \in 0..limit
      BY DEF AtOrAbove
    <3>5. i \in 0..MEMRECPERENTRY /\ block \in 1..Len(srcRes.blocks)
      <4> HIDE DEF limit
      <4> QED BY <2>4, <3>1, <3>4, MemRecPerEntryAssumption
    <3> QED BY <1>0, <2>1, <2>2, <3>3, <3>5, RunsCut
  <2> QED BY <2>5, <2>6
<1>4. CASE CopyRecord
  BY <1>0, <1>4, CopyRecordIs, RunsInserted
<1>5. CASE VisitRecord
  <2>1. PICK r \in Rec, a \in Int :
             /\ a = getAddr(copy.start, r.pageOffset)
             /\ \/ UNCHANGED vars
                \/ copy.src < a /\ MoveRecord(r)
    BY <1>5, VisitRecordIs
  <2>2. CASE UNCHANGED vars
    BY <1>1, <2>2 DEF vars
  <2>3. CASE copy.src < a /\ MoveRecord(r)
    <3>1. InRealloc
      BY <1>5, VisitRecordIs
    <3>2. PICK c : /\ c.rec \in Rec /\ c.page \in Pages
                   /\ InsertFound(c.page, c.rec) \/ InsertNew(c.page, c.rec)
      BY <2>1, <2>3, <3>1, MoveRecordIs
    <3> QED BY <1>0, <3>2, RunsInserted
  <2> QED BY <2>1, <2>2, <2>3
<1>6. CASE UNCHANGED vars \/ UNCHANGED tracedVars
  BY <1>1, <1>6 DEF vars, tracedVars
<1> QED
  BY <1>2, <1>3, <1>4, <1>5, <1>6
  DEF ReallocNext, TracedNext, ReallocStep, Call, LaterPage, PassPage, NextBlock,
      PageDone, Return, ReallocCall, SearchPage, EnterBlock, Spin, LeaveBlock,
      ReallocReturn

-----------------------------------------------------------------------------
(* Walks over pages of one block each.  Pending holds what the walk has still
   to insert, as pairs of a page and a record of it; Left what they become.
   The rest of what was wanted has arrived, behind everything else the page
   has, and before all that is still to come to it: that is why no insert of
   the walk restarts a list it has written to.                              *)

Taken(a) == IF Reallocating THEN InArea(copy.src, copy.tail, a) ELSE a >= copy.src
AtPage == copy.phase \in {"page", "search", "block"}
InSlots == copy.phase \in {"records", "rec"}

Ahead(p, r) ==
    \/ p > copy.start /\ (AtPage \/ InSlots) /\ r \in SeenAt(p)
    \/ p = copy.start /\ AtPage /\ r \in SeenAt(p)
    \/ /\ p = copy.start /\ InSlots
       /\ \E k \in copy.idx..(copy.uplimit - 1) : r = At(recTree[p], 1, k)
Coming(p, r) == Taken(getAddr(p, r.pageOffset)) /\ Ahead(p, r)

Pending == {x \in Source(copy.src, copy.last) \X Rec : Coming(x[1], x[2])}
Left == {CopyOf(copy.src, copy.dest, x[1], x[2]) : x \in Pending}

Arrived(t, w, left) ==
    /\ w.page \in DOMAIN t /\ w.rec \in SeenIn(t[w.page])
    /\ \A v \in left : v.page = w.page => LastBefore(t[w.page], v.rec)

\* The rest of the array the walk is on, and where the list is written.
SlotsLeft ==
    /\ Run(srcRes, copy.idx, copy.uplimit)
    /\ srcRes.memRecIdx = copy.uplimit \/ srcRes.memRecIdx <= copy.idx
    /\ ~Reallocating => \A k \in copy.idx..(copy.uplimit - 1) :
                            Taken(getAddr(copy.start, At(srcRes, 1, k).pageOffset))

ShortPages == \A p \in Source(copy.src, copy.last) \cap Traced : Len(recTree[p].blocks) = 1
Progress == \A w \in copy.wanted : w \in Left \/ Arrived(recTree, w, Left)

ShortWalk ==
    /\ ShortPages
    /\ copy.phase \in {"block", "rec"} => copy.mostRecBlock = 1
    /\ InSlots => SlotsLeft
    /\ AtFirst => copy.wanted \subseteq Left
    /\ Progress
OnShort == Calling /\ copy.phase \notin {"spin", "lost"} /\ copy.short
WalkShort == OnShort => ShortWalk

(* What both walks have.                                                    *)
InCall == InTraced \/ InRealloc

LEMMA WalkFacts ==
    ASSUME InCall
    PROVE  /\ copy.src \in Nat /\ copy.dest \in Nat /\ copy.last \in Int
           /\ PageOf(copy.src) \in Int /\ copy.start \in Int
           /\ copy.start \in PageOf(copy.src)..copy.last
           /\ copy.start \in Source(copy.src, copy.last)
           /\ \A p \in Source(copy.src, copy.last) : p \in Int /\ p <= copy.last
           /\ InSlots => OnList /\ AtSlot
<1>1. /\ copy.src \in Nat /\ copy.dest \in Nat /\ copy.last \in Int
      /\ copy.start \in Source(copy.src, copy.last)
  BY AddressSplit DEF InCall, InTraced, InRealloc
<1>2. PageOf(copy.src) \in Int
  BY <1>1, AddressSplit
<1>3. InSlots => OnList /\ AtSlot
  BY DEF InSlots, InCall, InTraced, InRealloc
<1> QED BY <1>1, <1>2, <1>3 DEF Source

LEMMA SeenTyped ==
    ASSUME TreeInv, NEW p, NEW r \in SeenAt(p)
    PROVE  p \in Traced /\ r \in SeenIn(recTree[p]) /\ r \in Rec
<1>1. p \in Traced /\ r \in SeenIn(recTree[p])
  BY DEF SeenAt, SeenIn
<1>2. PICK E : recTree[p] \in NodeOver(E)
  BY <1>1 DEF TreeInv, Formed
<1>3. PICK j \in 1..Len(recTree[p].blocks), i \in Slots :
         r = At(recTree[p], j, i) /\ r # Unwritten
  BY <1>1, SeenMeans
<1>4. recTree[p].blocks[j] \in BlockOver(E)
  BY <1>2 DEF NodeOver
<1> QED BY <1>1, <1>3, <1>4 DEF BlockOver, At

LEMMA PendingIs ==
    ASSUME NEW p, NEW r
    PROVE  <<p, r>> \in Pending
             <=> p \in Source(copy.src, copy.last) /\ r \in Rec /\ Coming(p, r)
  BY DEF Pending

(* The order of the copies is the order of the records.                     *)
LEMMA CopiesOrdered ==
    ASSUME NEW src \in Nat, NEW dest \in Nat, NEW p \in Int, NEW q \in Int,
           NEW r \in Rec, NEW x \in Rec,
           p < q \/ (p = q /\ r.pageOffset < x.pageOffset),
           CopyOf(src, dest, p, r).page = CopyOf(src, dest, q, x).page
    PROVE  CopyOf(src, dest, p, r).rec.pageOffset < CopyOf(src, dest, q, x).rec.pageOffset
<1> DEFINE a == getAddr(p, r.pageOffset)
           b == getAddr(q, x.pageOffset)
           e == dest + a - src
           f == dest + b - src
<1>1. /\ r.pageOffset \in 0..(PAGESIZE - 1) /\ x.pageOffset \in 0..(PAGESIZE - 1)
      /\ r.pageOffset \in Int /\ x.pageOffset \in Int
  BY DEF Rec
<1>2. /\ a \in Int /\ PageOf(a) = p /\ OffsetOf(a) = r.pageOffset
      /\ b \in Int /\ PageOf(b) = q /\ OffsetOf(b) = x.pageOffset
  BY <1>1, AddressJoined
<1>3. /\ CopyOf(src, dest, p, r).page = PageOf(e) /\ CopyOf(src, dest, q, x).page = PageOf(f)
      /\ CopyOf(src, dest, p, r).rec.pageOffset = OffsetOf(e)
      /\ CopyOf(src, dest, q, x).rec.pageOffset = OffsetOf(f)
  BY DEF CopyOf, Rec
<1> HIDE DEF a, b
<1>4. a < b
  <2> SUFFICES ASSUME b <= a PROVE FALSE
    BY <1>2
  <2>1. q <= p /\ (q = p => x.pageOffset <= r.pageOffset)
    BY <1>2, PagesOrdered
  <2> QED BY <1>1, <2>1
<1>5. e \in Int /\ f \in Int /\ e < f
  BY <1>2, <1>4
<1> HIDE DEF e, f
<1>6. PageOf(e) = PageOf(f)
  BY <1>3
<1> QED BY <1>3, <1>5, <1>6, PagesOrdered

(* A record arrives: it is the one all others of its page come before.      *)
LEMMA Arrives ==
    ASSUME TreeInv, NEW c, c.page \in Pages, c.rec \in Rec,
           InsertFound(c.page, c.rec) \/ InsertNew(c.page, c.rec),
           NEW left, NEW rest, c \in left, rest \subseteq left,
           \A v \in rest : v.page = c.page => c.rec.pageOffset < v.rec.pageOffset,
           NEW w, w = c \/ Arrived(recTree, w, left)
    PROVE  Arrived(recTree', w, rest)
<1> DEFINE m == recTree'[c.page]
<1>1. Traced = DOMAIN recTree /\ Traced' = DOMAIN recTree'
  BY DEF Traced
<1>2. Inserted(c.page, c.rec)
  BY InsertTree
<1>3. PICK n : /\ Formed(n) /\ Wrote(n, m, c.rec)
               /\ c.page \in Traced => n = recTree[c.page]
  BY PageWritten
<1> HIDE DEF m
<1>4. c.page \in Traced' /\ m.memRecIdx > 0 /\ LastRec(m) = c.rec /\ c.rec \in SeenIn(m)
  BY <1>2, <1>3, WrittenSeen DEF Inserted
<1>5. \A v \in rest : v.page = c.page => LastBefore(m, v.rec)
  BY <1>4 DEF LastBefore
<1>6. CASE w = c
  BY <1>1, <1>4, <1>5, <1>6 DEF Arrived, m
<1>7. CASE Arrived(recTree, w, left) /\ w.page = c.page
  <2>1. c.page \in Traced /\ LastBefore(recTree[c.page], c.rec) /\ w.rec \in SeenIn(recTree[c.page])
    BY <1>1, <1>7 DEF Arrived
  <2>2. SeenIn(n) \subseteq SeenIn(m)
    BY <1>3, <2>1, WrittenBehind
  <2> QED BY <1>1, <1>3, <1>4, <1>5, <1>7, <2>1, <2>2 DEF Arrived, m
<1>8. CASE Arrived(recTree, w, left) /\ w.page # c.page
  <2>1. w.page \in Traced' /\ recTree'[w.page] = recTree[w.page]
    BY <1>1, <1>2, <1>8 DEF Inserted, Arrived
  <2> QED BY <1>1, <1>8, <2>1 DEF Arrived
<1> QED BY <1>6, <1>7, <1>8

-----------------------------------------------------------------------------
(* Steps of a walk that insert nothing.                                     *)

\* The call goes on.
SameCall ==
    /\ Calling /\ Calling'
    /\ copy'.src = copy.src /\ copy'.dest = copy.dest /\ copy'.last = copy.last
    /\ copy'.wanted = copy.wanted /\ (copy'.short => copy.short)
    /\ Reallocating' <=> Reallocating
    /\ Reallocating => copy'.tail = copy.tail

LEMMA SameTaken ==
    ASSUME SameCall, NEW a
    PROVE  Taken(a)' <=> Taken(a)
  BY DEF SameCall, Taken, InArea

(* With the same to come and the tree as it is, as much has arrived.        *)
LEMMA SamePending ==
    ASSUME SameCall, recTree' = recTree,
           \A p \in Source(copy.src, copy.last), r \in Rec :
              Taken(getAddr(p, r.pageOffset)) => (Ahead(p, r)' <=> Ahead(p, r))
    PROVE  /\ Left' = Left
           /\ Progress => Progress'
           /\ ShortPages => ShortPages'
<1>1. Source(copy.src, copy.last)' = Source(copy.src, copy.last)
  BY DEF SameCall, Source
<1>2. \A p \in Source(copy.src, copy.last), r \in Rec : Coming(p, r)' <=> Coming(p, r)
  BY SameTaken DEF Coming
<1>3. Pending' = Pending
  BY <1>1, <1>2 DEF Pending
<1>4. Left' = Left
  BY <1>3 DEF Left, SameCall
<1>5. Progress => Progress'
  BY <1>4 DEF Progress, SameCall
<1>6. ShortPages => ShortPages'
  BY <1>1 DEF ShortPages, Traced
<1> QED BY <1>4, <1>5, <1>6

(* The walk leaves a page it has nothing more to take from.                 *)
LEMMA LeavesPage ==
    ASSUME InCall, ShortWalk, SameCall, recTree' = recTree, AtPage \/ InSlots,
           \/ /\ copy.start < copy.last /\ copy'.phase \in {"page", "search"}
              /\ copy'.start = copy.start + 1
           \/ ~(copy.start < copy.last) /\ copy'.phase \in {"done", "moved"},
           \A r \in Rec : ~Coming(copy.start, r)
    PROVE  ShortWalk'
<1>0. /\ copy.start \in PageOf(copy.src)..copy.last /\ PageOf(copy.src) \in Int
      /\ copy.last \in Int
      /\ \A p \in Source(copy.src, copy.last) : p \in Int /\ p <= copy.last
  BY WalkFacts
<1>1. ASSUME NEW p \in Source(copy.src, copy.last), NEW r \in Rec,
             Taken(getAddr(p, r.pageOffset))
      PROVE  Ahead(p, r)' <=> Ahead(p, r)
  <2>0. p \in Int /\ p <= copy.last /\ SeenAt(p)' = SeenAt(p) /\ copy.start \in Int
    BY <1>0 DEF SeenAt, Traced
  <2>1. p = copy.start => ~Ahead(p, r)
    BY <1>1 DEF Coming
  <2>2. Ahead(p, r) <=> p > copy.start /\ r \in SeenAt(p)
    BY <2>0, <2>1 DEF Ahead
  <2>3. CASE /\ copy.start < copy.last /\ copy'.phase \in {"page", "search"}
             /\ copy'.start = copy.start + 1
    <3>1. AtPage' /\ ~InSlots'
      BY <2>3 DEF AtPage, InSlots
    <3>2. Ahead(p, r)' <=> (p > copy'.start \/ p = copy'.start) /\ r \in SeenAt(p)
      BY <2>0, <3>1 DEF Ahead
    <3> QED BY <2>0, <2>2, <2>3, <3>2
  <2>4. CASE ~(copy.start < copy.last) /\ copy'.phase \in {"done", "moved"}
    <3>1. ~Ahead(p, r)'
      BY <2>4 DEF Ahead, AtPage, InSlots
    <3>2. ~(p > copy.start)
      BY <1>0, <2>0, <2>4
    <3> QED BY <2>2, <3>1, <3>2
  <2> QED BY <2>3, <2>4
<1>2. ShortPages' /\ Progress'
  BY <1>1, SamePending DEF ShortWalk
<1>3. ~InSlots' /\ copy'.phase \notin {"block", "rec"}
  BY DEF InSlots
<1>4. ~AtFirst'
  <2>1. copy'.src = copy.src
    BY DEF SameCall
  <2>2. copy.start + 1 # PageOf(copy.src)
    BY <1>0
  <2> QED BY <2>1, <2>2 DEF AtFirst
<1> QED BY <1>2, <1>3, <1>4 DEF ShortWalk

(* The walk begins with the array of a page, from slot i on: the slots before
   it hold nothing to be taken.                                             *)
LEMMA EntersSlots ==
    ASSUME TreeInv, ShortLists, InCall, ShortWalk, SameCall, recTree' = recTree,
           AtPage, copy.start \in Traced, InSlots', copy'.start = copy.start,
           copy'.phase = "rec" => copy'.mostRecBlock = 1,
           copy'.idx = 0, copy'.uplimit = srcRes.memRecIdx,
           ~Reallocating => \A r \in SeenAt(copy.start) : Taken(getAddr(copy.start, r.pageOffset))
    PROVE  ShortWalk'
<1> DEFINE n == recTree[copy.start]
<1>0. copy.start \in Source(copy.src, copy.last)
  BY WalkFacts
<1>1. Formed(n) /\ Len(n.blocks) = 1 /\ Run(n, 0, n.memRecIdx) /\ srcRes = n
  BY <1>0 DEF TreeInv, ShortWalk, ShortPages, ShortLists, InRun, srcRes
<1>2. SeenAt(copy.start) = SeenIn(n)
  BY DEF SeenAt, SeenIn
<1> HIDE DEF n
<1>3. \A x : x \in SeenAt(copy.start) <=> \E k \in 0..(n.memRecIdx - 1) : x = At(n, 1, k)
  BY <1>1, <1>2, RunSeen
<1>4. ~InSlots /\ ~AtPage'
  BY DEF AtPage, InSlots
<1>5. ASSUME NEW p \in Source(copy.src, copy.last), NEW r \in Rec
      PROVE  Ahead(p, r)' <=> Ahead(p, r)
  <2>1. SeenAt(p)' = SeenAt(p) /\ recTree'[p] = recTree[p]
    BY DEF SeenAt, Traced
  <2>2. Ahead(p, r) <=> \/ p > copy.start /\ r \in SeenAt(p)
                        \/ p = copy.start /\ r \in SeenAt(p)
    BY <1>4 DEF Ahead
  <2>3. Ahead(p, r)' <=> \/ p > copy.start /\ r \in SeenAt(p)
                         \/ /\ p = copy.start
                            /\ \E k \in 0..(srcRes.memRecIdx - 1) : r = At(recTree[p], 1, k)
    BY <1>4, <2>1 DEF Ahead
  <2> QED BY <1>1, <1>3, <2>2, <2>3 DEF n
<1>6. ShortPages' /\ Progress'
  BY <1>5, SamePending DEF ShortWalk
<1>7. srcRes' = srcRes /\ copy'.src = copy.src /\ (~Reallocating' => ~Reallocating)
  BY DEF srcRes, SameCall
<1>8. ~Reallocating => \A k \in 0..(srcRes.memRecIdx - 1) :
                          getAddr(copy.start, At(srcRes, 1, k).pageOffset) >= copy.src
  BY <1>1, <1>3 DEF Taken
<1>9. SlotsLeft'
  <2>1. Run(srcRes', copy'.idx, copy'.uplimit) /\ srcRes'.memRecIdx = copy'.uplimit
    BY <1>1, <1>7
  <2>2. ~Reallocating' => \A k \in copy'.idx..(copy'.uplimit - 1) :
                            getAddr(copy'.start, At(srcRes', 1, k).pageOffset) >= copy'.src
    BY <1>7, <1>8
  <2> QED BY <2>1, <2>2 DEF SlotsLeft, Taken
<1>10. ~AtFirst' /\ copy'.phase # "block"
  BY DEF AtFirst, InSlots
<1> QED BY <1>6, <1>9, <1>10 DEF ShortWalk

(* The walk passes over the slots up to i, of which it takes none.          *)
LEMMA PassesSlots ==
    ASSUME TreeInv, InCall, ShortWalk, SameCall, recTree' = recTree, InSlots, Reallocating,
           copy'.phase = copy.phase, copy'.start = copy.start,
           copy'.uplimit = copy.uplimit, copy'.mostRecBlock = copy.mostRecBlock,
           copy.idx \in Int, copy.uplimit \in Int, copy'.idx \in Int, copy.idx <= copy'.idx,
           \A k \in copy.idx..(copy'.idx - 1) :
              k < copy.uplimit => ~Taken(getAddr(copy.start, At(srcRes, 1, k).pageOffset))
    PROVE  ShortWalk'
<1>1. ASSUME NEW p \in Source(copy.src, copy.last), NEW r \in Rec,
             Taken(getAddr(p, r.pageOffset))
      PROVE  Ahead(p, r)' <=> Ahead(p, r)
  <2>1. SeenAt(p)' = SeenAt(p) /\ recTree'[p] = recTree[p]
    BY DEF SeenAt, Traced
  <2>2. (AtPage' <=> AtPage) /\ (InSlots' <=> InSlots) /\ ~AtPage /\ InSlots
    BY DEF AtPage, InSlots
  <2>3. Ahead(p, r) <=> \/ p > copy.start /\ r \in SeenAt(p)
                        \/ /\ p = copy.start
                           /\ \E k \in copy.idx..(copy.uplimit - 1) : r = At(recTree[p], 1, k)
    BY <2>2 DEF Ahead
  <2>4. Ahead(p, r)' <=> \/ p > copy.start /\ r \in SeenAt(p)
                         \/ /\ p = copy.start
                            /\ \E k \in copy'.idx..(copy.uplimit - 1) : r = At(recTree[p], 1, k)
    BY <2>1, <2>2 DEF Ahead
  <2>5. ASSUME p = copy.start, NEW k \in copy.idx..(copy.uplimit - 1), r = At(recTree[p], 1, k)
        PROVE  k \in copy'.idx..(copy.uplimit - 1)
    <3>1. Taken(getAddr(copy.start, At(srcRes, 1, k).pageOffset))
      BY <1>1, <2>5 DEF srcRes
    <3>2. k \notin copy.idx..(copy'.idx - 1)
      BY <3>1
    <3> QED BY <3>2
  <2>6. \A k \in copy'.idx..(copy.uplimit - 1) : k \in copy.idx..(copy.uplimit - 1)
    OBVIOUS
  <2> QED BY <2>3, <2>4, <2>5, <2>6
<1>2. ShortPages' /\ Progress'
  BY <1>1, SamePending DEF ShortWalk
<1>3. Reallocating' /\ srcRes' = srcRes
  BY DEF SameCall, srcRes
<1>6. srcRes.memRecIdx \in Int
  BY WalkFacts DEF OnList, srcRes, TreeInv, Formed, NodeOver, Slots
<1>4. SlotsLeft'
  <2>1. /\ Run(srcRes, copy.idx, copy.uplimit)
        /\ srcRes.memRecIdx = copy.uplimit \/ srcRes.memRecIdx <= copy.idx
    BY DEF ShortWalk, SlotsLeft
  <2>2. Run(srcRes, copy'.idx, copy.uplimit)
    BY <2>1 DEF Run
  <2>3. Run(srcRes', copy'.idx, copy'.uplimit)
    BY <1>3, <2>2
  <2>4. srcRes'.memRecIdx = copy'.uplimit \/ srcRes'.memRecIdx <= copy'.idx
    <3>1. CASE srcRes.memRecIdx = copy.uplimit
      BY <1>3, <3>1
    <3>2. CASE srcRes.memRecIdx <= copy.idx
      BY <1>3, <3>2, <1>6
    <3> QED BY <2>1, <3>1, <3>2
  <2> QED BY <1>3, <2>3, <2>4 DEF SlotsLeft
<1>5. ~AtFirst'
  BY DEF AtFirst, InSlots
<1> QED BY <1>2, <1>4, <1>5 DEF ShortWalk

-----------------------------------------------------------------------------
(* The step that inserts: one record less to come, and it has arrived.      *)
LEMMA RecordMoves ==
    ASSUME WalkInv, InCall, ShortWalk, SameCall, InSlots, copy.idx < copy.uplimit,
           NEW r \in Rec, r = At(srcRes, 1, copy.idx),
           Taken(getAddr(copy.start, r.pageOffset)),
           NEW c, c = CopyOf(copy.src, copy.dest, copy.start, r),
           c.page \in Pages, c.rec \in Rec,
           c.page \in Source(copy.src, copy.last) => c.page = copy.start /\ c.rec = r,
           InsertFound(c.page, c.rec) \/ InsertNew(c.page, c.rec),
           copy'.phase = copy.phase, copy'.start = copy.start, copy'.idx = copy.idx + 1,
           copy'.uplimit = copy.uplimit, copy.phase = "rec" => copy'.mostRecBlock = 1
    PROVE  ShortWalk'
<1> DEFINE n == recTree[copy.start]
           m == recTree'[copy.start]
<1>0. /\ copy.src \in Nat /\ copy.dest \in Nat /\ copy.start \in Int
      /\ copy.start \in Source(copy.src, copy.last) /\ copy.start \in Traced
      /\ copy.uplimit \in 0..MEMRECPERENTRY /\ copy.idx \in 0..copy.uplimit
      /\ \A p \in Source(copy.src, copy.last) : p \in Int
  BY WalkFacts DEF OnList, AtSlot
<1>1. /\ Formed(n) /\ Len(n.blocks) = 1 /\ srcRes = n
      /\ Run(n, copy.idx, copy.uplimit)
      /\ n.memRecIdx = copy.uplimit \/ n.memRecIdx <= copy.idx
  BY <1>0 DEF WalkInv, TreeInv, ShortWalk, ShortPages, SlotsLeft, srcRes
<1>2. TreeInv /\ Inserted(c.page, c.rec)
  BY InsertTree DEF WalkInv
<1>3. /\ Traced' = Traced \cup {c.page}
      /\ \A q \in Traced : q # c.page => recTree'[q] = recTree[q]
  BY <1>2 DEF Inserted
<1>4. \A p \in Source(copy.src, copy.last) :
         /\ p \in Traced' <=> p \in Traced
         /\ p \in Traced /\ p # copy.start => recTree'[p] = recTree[p]
         /\ p # copy.start => SeenAt(p)' = SeenAt(p)
  <2>1. ASSUME NEW p \in Source(copy.src, copy.last)
        PROVE  /\ p \in Traced' <=> p \in Traced
               /\ p \in Traced /\ p # copy.start => recTree'[p] = recTree[p]
    BY <1>0, <1>3
  <2>2. ASSUME NEW p \in Source(copy.src, copy.last), p # copy.start
        PROVE  SeenAt(p)' = SeenAt(p)
    <3>1. CASE p \in Traced
      BY <2>1, <2>2, <3>1 DEF SeenAt
    <3>2. CASE p \notin Traced
      BY <2>1, <3>2 DEF SeenAt
    <3> QED BY <3>1, <3>2
  <2> QED BY <2>1, <2>2
<1>5. /\ Len(m.blocks) = 1 /\ (m.memRecIdx = copy.uplimit \/ m.memRecIdx <= copy.idx + 1)
      /\ \A k \in Slots : k > copy.idx => At(m, 1, k) = At(n, 1, k)
  <2>1. CASE c.page = copy.start
    <3>1. Wrote(n, m, r)
      BY <1>0, <1>2, <2>1, PageWritten
    <3> HIDE DEF n, m
    <3>2. copy.idx \in 0..(copy.uplimit - 1)
      BY <1>0, MemRecPerEntryAssumption
    <3> QED BY <1>0, <1>1, <3>1, <3>2, WrittenBeforeWalk
  <2>2. CASE c.page # copy.start
    <3>1. m = n
      BY <1>0, <1>3, <2>2
    <3>2. n.memRecIdx \in Int
      BY <1>1 DEF Formed
    <3> HIDE DEF n, m
    <3> QED BY <1>0, <1>1, <3>1, <3>2, MemRecPerEntryAssumption
  <2> QED BY <2>1, <2>2
<1>6. \A k \in (copy.idx + 1)..(copy.uplimit - 1) :
         /\ k \in copy.idx..(copy.uplimit - 1) /\ k \in Slots /\ k > copy.idx
         /\ At(m, 1, k) = At(n, 1, k)
  <2>1. \A k \in (copy.idx + 1)..(copy.uplimit - 1) :
         k \in copy.idx..(copy.uplimit - 1) /\ k \in Slots /\ k > copy.idx
    BY <1>0, MemRecPerEntryAssumption DEF Slots
  <2> QED BY <1>5, <2>1
<1>7. srcRes' = m
  BY DEF srcRes
<1> HIDE DEF n, m
<1>8. SlotsLeft'
  <2>1. Run(srcRes', copy'.idx, copy'.uplimit)
    <3>1. Run(m, copy.idx + 1, copy.uplimit)
      BY <1>1, <1>6 DEF Run
    <3> QED BY <1>7, <3>1
  <2>2. srcRes'.memRecIdx = copy'.uplimit \/ srcRes'.memRecIdx <= copy'.idx
    BY <1>5, <1>7
  <2>3. ~Reallocating => \A k \in copy.idx..(copy.uplimit - 1) :
                            getAddr(copy.start, At(n, 1, k).pageOffset) >= copy.src
    BY <1>1 DEF ShortWalk, SlotsLeft, Taken
  <2>4. ~Reallocating => \A k \in (copy.idx + 1)..(copy.uplimit - 1) :
                            getAddr(copy.start, At(m, 1, k).pageOffset) >= copy.src
    BY <1>6, <2>3
  <2>5. ~Reallocating' => \A k \in copy'.idx..(copy'.uplimit - 1) :
                            getAddr(copy'.start, At(srcRes', 1, k).pageOffset) >= copy'.src
    BY <1>7, <2>4 DEF SameCall
  <2> QED BY <2>1, <2>2, <2>5 DEF SlotsLeft, Taken
<1>9. (AtPage' <=> AtPage) /\ (InSlots' <=> InSlots) /\ ~AtPage /\ InSlots
  BY DEF AtPage, InSlots
<1>10. ASSUME NEW p \in Source(copy.src, copy.last), NEW x \in Rec
       PROVE  /\ Ahead(p, x) <=> \/ p > copy.start /\ x \in SeenAt(p)
                                 \/ /\ p = copy.start
                                    /\ \E k \in copy.idx..(copy.uplimit - 1) : x = At(n, 1, k)
              /\ Ahead(p, x)' <=> \/ p > copy.start /\ x \in SeenAt(p)
                                  \/ /\ p = copy.start
                                     /\ \E k \in (copy.idx + 1)..(copy.uplimit - 1) :
                                           x = At(n, 1, k)
  <2>1. p \in Int /\ (p > copy.start => p # copy.start)
    BY <1>0
  <2>2. Ahead(p, x) <=> \/ p > copy.start /\ x \in SeenAt(p)
                        \/ /\ p = copy.start
                           /\ \E k \in copy.idx..(copy.uplimit - 1) : x = At(n, 1, k)
    BY <1>9 DEF Ahead, n
  <2>3. Ahead(p, x)' <=> \/ p > copy.start /\ x \in SeenAt(p)'
                         \/ /\ p = copy.start
                            /\ \E k \in (copy.idx + 1)..(copy.uplimit - 1) : x = At(m, 1, k)
    BY <1>9 DEF Ahead, m
  <2> QED BY <1>4, <1>6, <2>1, <2>2, <2>3
<1>11. ASSUME NEW p \in Source(copy.src, copy.last), NEW x \in Rec
       PROVE  /\ Coming(p, x)' => Coming(p, x)
              /\ Coming(p, x) => Coming(p, x)' \/ (p = copy.start /\ x = r)
  <2>1. \A k \in copy.idx..(copy.uplimit - 1) :
           k = copy.idx \/ k \in (copy.idx + 1)..(copy.uplimit - 1)
    BY <1>0
  <2>2. Ahead(p, x)' => Ahead(p, x)
    BY <1>6, <1>10
  <2>3. Ahead(p, x) => Ahead(p, x)' \/ (p = copy.start /\ x = r)
    BY <1>1, <1>10, <2>1
  <2> QED BY <2>2, <2>3, SameTaken DEF Coming
<1>12. Coming(copy.start, r)
  <2>1. copy.idx \in copy.idx..(copy.uplimit - 1)
    BY <1>0
  <2> QED BY <1>0, <1>1, <1>10, <2>1 DEF Coming
<1>13. ASSUME NEW p \in Source(copy.src, copy.last), NEW x \in Rec, Coming(p, x)',
              CopyOf(copy.src, copy.dest, p, x).page = c.page
       PROVE  c.rec.pageOffset < CopyOf(copy.src, copy.dest, p, x).rec.pageOffset
  <2>1. Ahead(p, x)'
    BY <1>13 DEF Coming
  <2>2. copy.start < p \/ (copy.start = p /\ r.pageOffset < x.pageOffset)
    <3>1. CASE p > copy.start
      BY <1>0, <3>1
    <3>2. CASE p = copy.start
      <4>1. PICK k \in (copy.idx + 1)..(copy.uplimit - 1) : x = At(n, 1, k)
        BY <1>0, <1>10, <2>1, <3>2
      <4>2. k \in copy.idx..(copy.uplimit - 1) /\ copy.idx \in copy.idx..(copy.uplimit - 1)
            /\ copy.idx < k
        BY <1>0, <1>6
      <4> QED BY <1>1, <3>2, <4>1, <4>2 DEF Run
    <3> QED BY <1>10, <2>1, <3>1, <3>2
  <2>3. p \in Int
    BY <1>0
  <2> QED BY <1>0, <1>13, <2>2, <2>3, CopiesOrdered
<1>14. PICK K : K = Left
  OBVIOUS
<1>15. PICK M : M = Left'
  OBVIOUS
<1>16. Source(copy.src, copy.last)' = Source(copy.src, copy.last)
       /\ copy'.src = copy.src /\ copy'.dest = copy.dest
  BY DEF SameCall, Source
<1>17. \A v : v \in K <=> \E p \in Source(copy.src, copy.last), x \in Rec :
                               Coming(p, x) /\ v = CopyOf(copy.src, copy.dest, p, x)
  <2>1. \A v : v \in K <=> \E x \in Source(copy.src, copy.last) \X Rec :
                    Coming(x[1], x[2]) /\ v = CopyOf(copy.src, copy.dest, x[1], x[2])
    BY <1>14 DEF Left, Pending
  <2>2. ASSUME NEW v, NEW x \in Source(copy.src, copy.last) \X Rec,
               Coming(x[1], x[2]), v = CopyOf(copy.src, copy.dest, x[1], x[2])
        PROVE  \E p \in Source(copy.src, copy.last), y \in Rec :
                    Coming(p, y) /\ v = CopyOf(copy.src, copy.dest, p, y)
    BY <2>2
  <2>3. ASSUME NEW v, NEW p \in Source(copy.src, copy.last), NEW y \in Rec,
               Coming(p, y), v = CopyOf(copy.src, copy.dest, p, y)
        PROVE  v \in K
    <3> DEFINE x == <<p, y>>
    <3>1. x \in Source(copy.src, copy.last) \X Rec /\ x[1] = p /\ x[2] = y
      OBVIOUS
    <3> HIDE DEF x
    <3> QED BY <2>1, <2>3, <3>1
  <2> QED BY <2>1, <2>2, <2>3
<1>18. \A v : v \in M <=> \E p \in Source(copy.src, copy.last), x \in Rec :
                               Coming(p, x)' /\ v = CopyOf(copy.src, copy.dest, p, x)
  <2>1. \A v : v \in M <=> \E x \in Source(copy.src, copy.last) \X Rec :
                    Coming(x[1], x[2])' /\ v = CopyOf(copy.src, copy.dest, x[1], x[2])
    BY <1>15, <1>16 DEF Left, Pending
  <2>2. ASSUME NEW v, NEW x \in Source(copy.src, copy.last) \X Rec,
               Coming(x[1], x[2])', v = CopyOf(copy.src, copy.dest, x[1], x[2])
        PROVE  \E p \in Source(copy.src, copy.last), y \in Rec :
                    Coming(p, y)' /\ v = CopyOf(copy.src, copy.dest, p, y)
    BY <2>2
  <2>3. ASSUME NEW v, NEW p \in Source(copy.src, copy.last), NEW y \in Rec,
               Coming(p, y)', v = CopyOf(copy.src, copy.dest, p, y)
        PROVE  v \in M
    <3> DEFINE x == <<p, y>>
    <3>1. x \in Source(copy.src, copy.last) \X Rec /\ x[1] = p /\ x[2] = y
      OBVIOUS
    <3> HIDE DEF x
    <3> QED BY <2>1, <2>3, <3>1
  <2> QED BY <2>1, <2>2, <2>3
<1>19. c \in K /\ M \subseteq K /\ K \subseteq M \cup {c}
  BY <1>0, <1>11, <1>12, <1>17, <1>18
<1>20. \A v \in M : v.page = c.page => c.rec.pageOffset < v.rec.pageOffset
  BY <1>13, <1>18
<1>21. ASSUME NEW w \in copy.wanted PROVE w \in M \/ Arrived(recTree', w, M)
  <2>1. w \in K \/ Arrived(recTree, w, K)
    BY <1>14 DEF ShortWalk, Progress
  <2>2. CASE w \in M
    BY <2>2
  <2>3. CASE w \notin M
    <3>1. w = c \/ Arrived(recTree, w, K)
      BY <1>19, <2>1, <2>3
    <3> QED BY <1>2, <1>19, <1>20, <3>1, Arrives
  <2> QED BY <2>2, <2>3
<1>22. Progress'
  BY <1>15, <1>21 DEF Progress, SameCall, Arrived
<1>23. ShortPages'
  <2>1. \A p \in Source(copy.src, copy.last) : p \in Traced' => Len(recTree'[p].blocks) = 1
    BY <1>4, <1>5 DEF ShortWalk, ShortPages, m
  <2> QED BY <1>16, <2>1 DEF ShortPages
<1>24. ~AtFirst' /\ copy'.phase # "block" /\ (copy'.phase = "rec" => copy'.mostRecBlock = 1)
  BY DEF AtFirst, InSlots
<1> QED BY <1>8, <1>22, <1>23, <1>24 DEF ShortWalk

-----------------------------------------------------------------------------
(* The steps of the walks, over pages of one block each.  A call begins ... *)
LEMMA BeginsShort ==
    ASSUME TreeInv, recTree' = recTree, copy'.phase \in {"page", "search"},
           copy'.src \in Nat, copy'.start = PageOf(copy'.src),
           \A p \in Source(copy'.src, copy'.last) \cap Traced : Len(recTree[p].blocks) = 1,
           \A w \in copy'.wanted :
              \E p \in Source(copy'.src, copy'.last) : \E r \in SeenAt(p) :
                 /\ Taken(getAddr(p, r.pageOffset))'
                 /\ w = CopyOf(copy'.src, copy'.dest, p, r)
    PROVE  ShortWalk'
<1>1. AtPage' /\ ~InSlots'
  BY DEF AtPage, InSlots
<1>2. copy'.wanted \subseteq Left'
  <2> SUFFICES ASSUME NEW w \in copy'.wanted PROVE w \in Left'
    OBVIOUS
  <2>0. PICK p \in Source(copy'.src, copy'.last) : \E r \in SeenAt(p) :
               /\ Taken(getAddr(p, r.pageOffset))'
               /\ w = CopyOf(copy'.src, copy'.dest, p, r)
    OBVIOUS
  <2>1. PICK r \in SeenAt(p) :
               /\ Taken(getAddr(p, r.pageOffset))'
               /\ w = CopyOf(copy'.src, copy'.dest, p, r)
    BY <2>0
  <2>2. r \in Rec
    BY SeenTyped
  <2>3. p > copy'.start \/ p = copy'.start
    <3>1. copy'.start \in Int
      BY AddressSplit
    <3> QED BY <3>1 DEF Source
  <2>4. r \in SeenAt(p)'
    BY DEF SeenAt, Traced
  <2>5. Coming(p, r)'
    BY <1>1, <2>1, <2>3, <2>4 DEF Coming, Ahead
  <2> DEFINE x == <<p, r>>
  <2>6. x[1] = p /\ x[2] = r
    OBVIOUS
  <2>7. x \in Pending'
    BY <2>2, <2>5 DEF Pending
  <2> HIDE DEF x
  <2> QED BY <2>1, <2>6, <2>7 DEF Left
<1>3. ShortPages'
  BY DEF ShortPages, Traced
<1> QED BY <1>1, <1>2, <1>3 DEF ShortWalk, Progress

LEMMA CallShort ==
    ASSUME WalkInv, NEW c \in Calls, Call(c.src, c.dest, c.last)
    PROVE  WalkShort'
<1>1. TreeInv /\ InTraced' /\ recTree' = recTree
  BY CallWalks DEF WalkInv, Call, vars
<1>2. /\ copy'.phase = "page" /\ copy'.src = c.src /\ copy'.dest = c.dest
      /\ copy'.last = c.last /\ copy'.start = PageOf(c.src)
      /\ copy'.wanted = Wanted(c.src, c.dest, c.last)
      /\ copy'.short = \A p \in Source(c.src, c.last) \cap Traced : Len(recTree[p].blocks) = 1
  BY DEF Call
<1>3. ~Reallocating'
  <2>1. DOMAIN copy' = TracedFields
    BY <1>1 DEF InTraced
  <2> QED BY <2>1 DEF Reallocating, TracedFields
<1>4. ASSUME NEW w \in copy'.wanted
      PROVE  \E p \in Source(copy'.src, copy'.last) : \E r \in SeenAt(p) :
                 /\ Taken(getAddr(p, r.pageOffset))'
                 /\ w = CopyOf(copy'.src, copy'.dest, p, r)
  <2>1. PICK p \in Source(c.src, c.last) :
          w \in {CopyOf(c.src, c.dest, p, r) :
                     r \in {q \in SeenAt(p) : getAddr(p, q.pageOffset) >= c.src}}
    BY <1>2 DEF Wanted
  <2>2. PICK r \in SeenAt(p) :
          getAddr(p, r.pageOffset) >= c.src /\ w = CopyOf(c.src, c.dest, p, r)
    BY <2>1
  <2>3. Taken(getAddr(p, r.pageOffset))'
    BY <1>2, <1>3, <2>2 DEF Taken
  <2> QED BY <1>2, <2>2, <2>3
<1>5. c.src \in Nat
  BY CallsAssumption
<1> QED BY <1>1, <1>2, <1>4, <1>5, BeginsShort DEF WalkShort, OnShort

LEMMA ReallocCallShort ==
    ASSUME WalkInv, NEW c \in Reallocs, ReallocCall(c.src, c.dest, c.tail)
    PROVE  WalkShort'
<1>1. TreeInv /\ InRealloc' /\ recTree' = recTree
  BY ReallocCallWalks DEF WalkInv, ReallocCall, vars
<1>2. /\ copy'.phase = "search" /\ copy'.src = c.src /\ copy'.dest = c.dest
      /\ copy'.tail = c.tail
      /\ copy'.last = PageOf(c.tail) /\ copy'.start = PageOf(c.src)
      /\ copy'.wanted = AreaRecords(c.src, c.dest, c.tail)
      /\ copy'.short => \A p \in Source(c.src, PageOf(c.tail)) \cap Traced :
                           Len(recTree[p].blocks) = 1
  BY DEF ReallocCall
<1>3. Reallocating'
  <2>1. DOMAIN copy' = ReallocFields
    BY <1>1 DEF InRealloc
  <2> QED BY <1>2, <2>1 DEF Reallocating, Calling, ReallocFields
<1>4. ASSUME NEW w \in copy'.wanted
      PROVE  \E p \in Source(copy'.src, copy'.last) : \E r \in SeenAt(p) :
                 /\ Taken(getAddr(p, r.pageOffset))'
                 /\ w = CopyOf(copy'.src, copy'.dest, p, r)
  <2>1. PICK p \in Source(c.src, PageOf(c.tail)) :
          w \in {CopyOf(c.src, c.dest, p, r) :
                     r \in {q \in SeenAt(p) : InArea(c.src, c.tail, getAddr(p, q.pageOffset))}}
    BY <1>2 DEF AreaRecords
  <2>2. PICK r \in SeenAt(p) :
          InArea(c.src, c.tail, getAddr(p, r.pageOffset)) /\ w = CopyOf(c.src, c.dest, p, r)
    BY <2>1
  <2>3. Taken(getAddr(p, r.pageOffset))'
    BY <1>2, <1>3, <2>2 DEF Taken, InArea
  <2> QED BY <1>2, <2>2, <2>3
<1>5. c.src \in Nat
  BY ReallocsAssumption
<1> QED BY <1>1, <1>2, <1>4, <1>5, BeginsShort DEF WalkShort, OnShort

(* ... goes on ...                                                          *)
LEMMA TracedSame ==
    ASSUME InTraced, InTraced', copy'.src = copy.src, copy'.dest = copy.dest,
           copy'.last = copy.last, copy'.wanted = copy.wanted, copy'.short = copy.short
    PROVE  SameCall /\ ~Reallocating
<1>1. /\ DOMAIN copy = TracedFields /\ DOMAIN copy' = TracedFields
      /\ copy.phase # "idle" /\ copy'.phase # "idle"
  BY DEF InTraced
<1> QED BY <1>1 DEF SameCall, Reallocating, Calling, TracedFields

LEMMA ReallocSame ==
    ASSUME InRealloc, InRealloc', copy'.src = copy.src, copy'.dest = copy.dest,
           copy'.last = copy.last, copy'.wanted = copy.wanted, copy'.short = copy.short,
           copy'.tail = copy.tail
    PROVE  SameCall /\ Reallocating
<1>1. /\ DOMAIN copy = ReallocFields /\ DOMAIN copy' = ReallocFields
      /\ copy.phase # "idle" /\ copy'.phase # "idle"
  BY DEF InRealloc
<1> QED BY <1>1 DEF SameCall, Reallocating, Calling, ReallocFields

(* ... leaves a page ...                                                    *)
LEMMA NextPageShort ==
    ASSUME InTraced, InTraced', NextPage, recTree' = recTree, WalkShort,
           OnShort => \A r \in Rec : ~Coming(copy.start, r), copy.phase \in {"page", "records"}
    PROVE  WalkShort'
<1> SUFFICES ASSUME OnShort' PROVE ShortWalk'
  BY DEF WalkShort
<1>1. /\ copy'.src = copy.src /\ copy'.dest = copy.dest /\ copy'.last = copy.last
      /\ copy'.wanted = copy.wanted /\ copy'.short = copy.short
      /\ \/ /\ copy.start < copy.last /\ copy'.phase = "page"
            /\ copy'.start = copy.start + 1
         \/ ~(copy.start < copy.last) /\ copy'.phase = "done"
  BY DEF InTraced, NextPage, TracedFields
<1>2. SameCall
  BY <1>1, TracedSame
<1>3. ShortWalk /\ \A r \in Rec : ~Coming(copy.start, r)
  BY <1>2 DEF WalkShort, OnShort, SameCall
<1>4. InCall /\ (AtPage \/ InSlots)
  BY DEF InCall, AtPage, InSlots
<1> QED BY <1>1, <1>2, <1>3, <1>4, LeavesPage

LEMMA NextReallocPageShort ==
    ASSUME InRealloc, InRealloc', NextReallocPage, recTree' = recTree, WalkShort,
           OnShort => \A r \in Rec : ~Coming(copy.start, r), copy.phase \in {"search", "rec"}
    PROVE  WalkShort'
<1> SUFFICES ASSUME OnShort' PROVE ShortWalk'
  BY DEF WalkShort
<1>1. /\ copy'.src = copy.src /\ copy'.dest = copy.dest /\ copy'.last = copy.last
      /\ copy'.wanted = copy.wanted /\ copy'.short = copy.short /\ copy'.tail = copy.tail
      /\ \/ /\ copy.start < copy.last /\ copy'.phase = "search"
            /\ copy'.start = copy.start + 1
         \/ ~(copy.start < copy.last) /\ copy'.phase = "moved"
  BY DEF InRealloc, NextReallocPage, ReallocFields
<1>2. SameCall
  BY <1>1, ReallocSame
<1>3. ShortWalk /\ \A r \in Rec : ~Coming(copy.start, r)
  BY <1>2 DEF WalkShort, OnShort, SameCall
<1>4. InCall /\ (AtPage \/ InSlots)
  BY DEF InCall, AtPage, InSlots
<1> QED BY <1>1, <1>2, <1>3, <1>4, LeavesPage

(* ... with nothing on it, or behind its last slot ...                      *)
LEMMA NothingComing ==
    ASSUME InCall, \/ AtPage /\ SeenAt(copy.start) = {}
                   \/ InSlots /\ copy.idx >= copy.uplimit,
           NEW r \in Rec
    PROVE  ~Coming(copy.start, r)
<1>1. copy.start \in Int /\ ~(copy.start > copy.start)
  BY WalkFacts
<1>2. ~(AtPage /\ InSlots)
  BY DEF AtPage, InSlots
<1>3. CASE AtPage /\ SeenAt(copy.start) = {}
  BY <1>1, <1>2, <1>3 DEF Coming, Ahead
<1>4. CASE InSlots /\ copy.idx >= copy.uplimit
  <2>1. copy.uplimit \in 0..MEMRECPERENTRY /\ copy.idx \in 0..copy.uplimit
    BY <1>4, WalkFacts DEF AtSlot
  <2>2. copy.idx..(copy.uplimit - 1) = {}
    BY <1>4, <2>1, MemRecPerEntryAssumption
  <2> QED BY <1>1, <1>2, <1>4, <2>2 DEF Coming, Ahead
<1> QED BY <1>3, <1>4

\* The node of the page the walk is on, when all its pages have one block.
LEMMA ShortNode ==
    ASSUME TreeInv, ShortLists, InCall, ShortPages, copy.start \in Traced
    PROVE  /\ Formed(srcRes) /\ Len(srcRes.blocks) = 1 /\ srcRes.recModEntry = 1
           /\ srcRes.memRecIdx \in 0..MEMRECPERENTRY
           /\ Run(srcRes, 0, srcRes.memRecIdx)
           /\ \A x : x \in SeenAt(copy.start)
                       <=> \E k \in 0..(srcRes.memRecIdx - 1) : x = At(srcRes, 1, k)
<1> DEFINE n == recTree[copy.start]
<1>1. n = srcRes /\ SeenAt(copy.start) = SeenIn(n)
  BY DEF srcRes, SeenAt, SeenIn
<1>2. Formed(n) /\ Len(n.blocks) = 1 /\ InRun(n)
  BY WalkFacts DEF TreeInv, ShortPages, ShortLists
<1> HIDE DEF n
<1>3. Run(n, 0, n.memRecIdx)
  BY <1>2 DEF InRun
<1>4. /\ n.recModEntry = 1 /\ n.memRecIdx \in 0..MEMRECPERENTRY
      /\ \A x : x \in SeenIn(n) <=> \E k \in 0..(n.memRecIdx - 1) : x = At(n, 1, k)
  BY <1>2, <1>3, RunSeen
<1> QED BY <1>1, <1>2, <1>3, <1>4

(* On the page of src the addresses from src on are the offsets from its
   offset on; on a later page they are all of them.                         *)
LEMMA TakenFirst ==
    ASSUME copy.src \in Nat, ~Reallocating, NEW off \in 0..(PAGESIZE - 1)
    PROVE  Taken(getAddr(PageOf(copy.src), off)) <=> off >= OffsetOf(copy.src)
<1> DEFINE a == PageOf(copy.src) * PAGESIZE
<1>0. /\ copy.src = a + OffsetOf(copy.src)
      /\ PageOf(copy.src) \in Int /\ OffsetOf(copy.src) \in Int
  <2>1. copy.src \in Int
    OBVIOUS
  <2> QED BY <2>1, AddressSplit
<1>1. /\ copy.src = a + OffsetOf(copy.src) /\ a \in Int /\ OffsetOf(copy.src) \in Int
  BY <1>0, PageSizeAssumption
<1>2. getAddr(PageOf(copy.src), off) = a + off
  BY DEF getAddr
<1>3. Taken(getAddr(PageOf(copy.src), off)) <=> a + off >= copy.src
  BY <1>2 DEF Taken
<1> HIDE DEF a
<1>4. off \in Int
  OBVIOUS
<1> QED BY <1>1, <1>3, <1>4

LEMMA TakenLater ==
    ASSUME copy.src \in Nat, ~Reallocating, NEW p \in Int, p > PageOf(copy.src),
           NEW off \in 0..(PAGESIZE - 1)
    PROVE  Taken(getAddr(p, off))
<1>1. getAddr(p, off) \in Int /\ PageOf(getAddr(p, off)) = p /\ PageOf(copy.src) \in Int
  <2>1. getAddr(p, off) \in Int /\ PageOf(getAddr(p, off)) = p
    BY AddressJoined
  <2>2. PageOf(copy.src) \in Int
    BY AddressSplit
  <2> QED BY <2>1, <2>2
<1> SUFFICES ASSUME getAddr(p, off) <= copy.src PROVE FALSE
  BY <1>1 DEF Taken
<1>2. p <= PageOf(copy.src)
  BY <1>1, PagesOrdered
<1> QED BY <1>1, <1>2

(* Where the search of a run stops: what lies below off is before it.       *)
LEMMA FirstCut ==
    ASSUME NEW n, NEW m \in 0..MEMRECPERENTRY, Run(n, 0, m), NEW off \in Int,
           NEW i \in AtOrAbove(n.blocks[1].recArr, m, off)
    PROVE  /\ i \in 0..m
           /\ \A k \in 0..(m - 1) : k < i <=> At(n, 1, k).pageOffset < off
<1>1. /\ i \in 0..m
      /\ i < m => At(n, 1, i) = Unwritten \/ At(n, 1, i).pageOffset >= off
      /\ \A k \in 0..(i - 1) : ~(At(n, 1, k) # Unwritten /\ At(n, 1, k).pageOffset >= off)
  BY DEF AtOrAbove, At
<1>2. \A k \in 0..(m - 1) : At(n, 1, k) # Unwritten /\ At(n, 1, k).pageOffset \in Int
  BY UnwrittenAssumption DEF Run, Rec
<1>3. m \in Int
  BY MemRecPerEntryAssumption
<1>4. ASSUME NEW k \in 0..(m - 1), k < i PROVE At(n, 1, k).pageOffset < off
  <2>1. k \in 0..(i - 1)
    BY <1>1, <1>3, <1>4
  <2> QED BY <1>1, <1>2, <2>1
<1>5. ASSUME NEW k \in 0..(m - 1), ~(k < i) PROVE ~(At(n, 1, k).pageOffset < off)
  <2>1. i \in 0..(m - 1) /\ i < m /\ (i = k \/ i < k)
    BY <1>1, <1>3, <1>5
  <2>2. At(n, 1, i).pageOffset >= off
    BY <1>1, <1>2, <2>1
  <2>3. i < k => At(n, 1, i).pageOffset < At(n, 1, k).pageOffset
    BY <2>1 DEF Run
  <2>4. At(n, 1, i).pageOffset \in Int /\ At(n, 1, k).pageOffset \in Int
    BY <1>2, <2>1
  <2> QED BY <2>1, <2>2, <2>3, <2>4
<1> QED BY <1>1, <1>4, <1>5

(* The search of the page of src: nothing of it is to be taken, or the list
   is cut where the walk begins.                                            *)
LEMMA FirstPageIs ==
    ASSUME WalkInv, ShortLists, FirstPage, ShortPages
    PROVE  /\ InTraced /\ copy.start \in Traced /\ AtFirst
           /\ \/ /\ NextPage /\ recTree' = recTree
                 /\ \A k \in 0..(srcRes.memRecIdx - 1) :
                       At(srcRes, 1, k).pageOffset < OffsetOf(copy.src)
              \/ \E i \in 0..srcRes.memRecIdx :
                    /\ Walk(1, i, srcRes.memRecIdx)
                    /\ \A k \in 0..(srcRes.memRecIdx - 1) :
                          k < i <=> At(srcRes, 1, k).pageOffset < OffsetOf(copy.src)
                    /\ Traced' = Traced
                    /\ \A q \in Traced : q # copy.start => recTree'[q] = recTree[q]
                    /\ recTree'[copy.start].blocks = srcRes.blocks
                    /\ recTree'[copy.start].memRecIdx = i
<1> DEFINE off == OffsetOf(copy.src)
           limit == srcRes.memRecIdx
<1>0. InTraced /\ TreeInv /\ copy.start \in Traced /\ AtFirst /\ limit > 0
  BY WalkPhases DEF FirstPage, WalkInv, AtFirst
<1>1. /\ Formed(srcRes) /\ Len(srcRes.blocks) = 1
      /\ limit \in 0..MEMRECPERENTRY /\ Run(srcRes, 0, limit)
  BY <1>0, ShortNode DEF InCall
<1>2. off \in Int
  BY <1>0, AddressSplit DEF InTraced
<1>3. /\ UNCHANGED <<RECTREENODEPOOLIDX, TAILHEADPOOLIDX, RECTREENODETHRESHOLD,
                     recBlocks, openFileArray, halted>>
      /\ \E block \in StartBlocks(off) :
             IF block > Len(srcRes.blocks)
             THEN NextPage /\ UNCHANGED recTree
             ELSE \E i \in AtOrAbove(srcRes.blocks[block].recArr, limit, off) :
                    /\ Walk(block, i, limit)
                    /\ IF i < limit THEN CutAt(block, i) ELSE UNCHANGED recTree
  BY DEF FirstPage
<1>4. PICK block \in StartBlocks(off) :
             IF block > Len(srcRes.blocks)
             THEN NextPage /\ UNCHANGED recTree
             ELSE \E i \in AtOrAbove(srcRes.blocks[block].recArr, limit, off) :
                    /\ Walk(block, i, limit)
                    /\ IF i < limit THEN CutAt(block, i) ELSE UNCHANGED recTree
  BY <1>3
<1>5. block = 1 \/ (block = 2 /\ At(srcRes, 1, limit - 1).pageOffset < off)
  <2> DEFINE tested == [k \in 0..(Len(srcRes.blocks) - 1) |->
                          srcRes.blocks[k + 1].recArr[limit - 1]]
  <2>1. PICK k \in AtOrAbove(tested, Len(srcRes.blocks), off) : block = k + 1
    BY DEF StartBlocks
  <2>2. tested[0] = At(srcRes, 1, limit - 1)
    BY <1>1 DEF At
  <2>3. limit - 1 \in 0..(limit - 1)
    BY <1>0, <1>1, MemRecPerEntryAssumption
  <2>4. At(srcRes, 1, limit - 1) # Unwritten /\ At(srcRes, 1, limit - 1).pageOffset \in Int
    BY <1>1, <2>3, UnwrittenAssumption DEF Run, Rec
  <2> HIDE DEF tested, limit
  <2>5. k \in 0..1
    BY <1>1, <2>1 DEF AtOrAbove
  <2>6. k = 1 => ~(tested[0] # Unwritten /\ tested[0].pageOffset >= off)
    <3>1. \A l \in 0..(k - 1) : ~(tested[l] # Unwritten /\ tested[l].pageOffset >= off)
      BY <2>1 DEF AtOrAbove
    <3>2. k = 1 => 0 \in 0..(k - 1)
      BY <2>5
    <3> QED BY <3>1, <3>2
  <2> HIDE DEF off
  <2> QED BY <1>2, <2>1, <2>2, <2>4, <2>5, <2>6
<1>6. CASE block = 2
  <2>1. NextPage /\ recTree' = recTree
    BY <1>1, <1>4, <1>6
  <2>2. \A k \in 0..(limit - 1) : At(srcRes, 1, k).pageOffset < off
    <3>1. At(srcRes, 1, limit - 1).pageOffset < off
      BY <1>5, <1>6
    <3> HIDE DEF off, limit
    <3> SUFFICES ASSUME NEW k \in 0..(limit - 1) PROVE At(srcRes, 1, k).pageOffset < off
      OBVIOUS
    <3>2. limit - 1 \in 0..(limit - 1) /\ (k = limit - 1 \/ k < limit - 1)
      BY <1>0, <1>1, MemRecPerEntryAssumption
    <3>3. k < limit - 1 => At(srcRes, 1, k).pageOffset < At(srcRes, 1, limit - 1).pageOffset
      BY <1>1, <3>2 DEF Run
    <3>4. At(srcRes, 1, k).pageOffset \in Int /\ At(srcRes, 1, limit - 1).pageOffset \in Int
      BY <1>1, <3>2 DEF Run, Rec
    <3> QED BY <1>2, <3>1, <3>2, <3>3, <3>4
  <2> QED BY <1>0, <2>1, <2>2
<1>7. CASE block = 1
  <2>1. PICK i \in AtOrAbove(srcRes.blocks[1].recArr, limit, off) :
          /\ Walk(1, i, limit)
          /\ IF i < limit THEN CutAt(1, i) ELSE UNCHANGED recTree
    BY <1>1, <1>4, <1>7
  <2>2. /\ i \in 0..limit
        /\ \A k \in 0..(limit - 1) : k < i <=> At(srcRes, 1, k).pageOffset < off
    <3> HIDE DEF off, limit
    <3> QED BY <1>1, <1>2, <2>1, FirstCut
  <2>3. /\ Traced' = Traced /\ \A q \in Traced : q # copy.start => recTree'[q] = recTree[q]
        /\ recTree'[copy.start].blocks = srcRes.blocks /\ recTree'[copy.start].memRecIdx = i
    <3>1. CASE i < limit
      <4>1. CutAt(1, i)
        BY <2>1, <3>1
      <4>2. i \in 0..MEMRECPERENTRY /\ 1 \in 1..Len(srcRes.blocks)
        <5> HIDE DEF limit
        <5> QED BY <1>1, <2>2, MemRecPerEntryAssumption
      <4> QED BY <1>0, <1>3, <3>1, <4>1, <4>2, CutTree
    <3>2. CASE ~(i < limit)
      <4>1. recTree' = recTree
        BY <2>1, <3>2
      <4>2. i = limit
        <5> HIDE DEF limit
        <5> QED BY <1>1, <2>2, <3>2, MemRecPerEntryAssumption
      <4> QED BY <4>1, <4>2 DEF Traced, srcRes
    <3> QED BY <3>1, <3>2
  <2> QED BY <1>0, <2>1, <2>2, <2>3
<1> QED BY <1>5, <1>6, <1>7

LEMMA FirstPageShort ==
    ASSUME WalkInv, ShortLists, WalkShort, FirstPage
    PROVE  WalkShort'
<1>0. InTraced /\ InTraced' /\ TreeInv /\ copy.start \in Traced /\ copy.phase = "page"
      /\ copy.start = PageOf(copy.src)
  BY WalkPhases, FirstPageWalks DEF FirstPage, WalkInv
<1> SUFFICES ASSUME OnShort' PROVE ShortWalk'
  BY DEF WalkShort
<1>1. OnShort
  <2>1. copy.short
    BY <1>0 DEF FirstPage, OnShort, Walk, NextPage, InTraced, TracedFields
  <2> QED BY <1>0, <2>1, WalkPhases DEF OnShort
<1>2. ShortWalk /\ InCall /\ AtPage /\ ~InSlots /\ AtFirst
  BY <1>0, <1>1 DEF WalkShort, InCall, AtPage, InSlots, AtFirst
<1>3. /\ \/ /\ NextPage /\ recTree' = recTree
            /\ \A k \in 0..(srcRes.memRecIdx - 1) :
                  At(srcRes, 1, k).pageOffset < OffsetOf(copy.src)
         \/ \E i \in 0..srcRes.memRecIdx :
               /\ Walk(1, i, srcRes.memRecIdx)
               /\ \A k \in 0..(srcRes.memRecIdx - 1) :
                     k < i <=> At(srcRes, 1, k).pageOffset < OffsetOf(copy.src)
               /\ Traced' = Traced
               /\ \A q \in Traced : q # copy.start => recTree'[q] = recTree[q]
               /\ recTree'[copy.start].blocks = srcRes.blocks
               /\ recTree'[copy.start].memRecIdx = i
  BY <1>2, FirstPageIs DEF ShortWalk
<1>4. /\ Run(srcRes, 0, srcRes.memRecIdx) /\ srcRes.memRecIdx \in 0..MEMRECPERENTRY
      /\ Len(srcRes.blocks) = 1
      /\ \A x : x \in SeenAt(copy.start)
                  <=> \E k \in 0..(srcRes.memRecIdx - 1) : x = At(srcRes, 1, k)
  BY <1>0, <1>2, ShortNode DEF ShortWalk
<1>5. /\ copy.src \in Nat /\ copy.start \in Int /\ OffsetOf(copy.src) \in Int /\ ~Reallocating
      /\ MEMRECPERENTRY \in Nat
  <2>1. copy.src \in Nat /\ copy.start \in Int /\ ~Reallocating
    BY <1>0, <1>2, WalkFacts, WalkPhases
  <2>2. OffsetOf(copy.src) \in Int
    BY <2>1, AddressSplit
  <2> QED BY <2>1, <2>2, MemRecPerEntryAssumption
<1>6. \A k \in 0..(srcRes.memRecIdx - 1) :
        /\ At(srcRes, 1, k) \in Rec /\ At(srcRes, 1, k).pageOffset \in Int
        /\ Taken(getAddr(copy.start, At(srcRes, 1, k).pageOffset))
             <=> At(srcRes, 1, k).pageOffset >= OffsetOf(copy.src)
  <2>1. \A k \in 0..(srcRes.memRecIdx - 1) : At(srcRes, 1, k) \in Rec
    BY <1>4 DEF Run
  <2>2. \A k \in 0..(srcRes.memRecIdx - 1) : At(srcRes, 1, k).pageOffset \in 0..(PAGESIZE - 1)
    BY <2>1 DEF Rec
  <2>3. \A k \in 0..(srcRes.memRecIdx - 1) : At(srcRes, 1, k).pageOffset \in Int
    BY <2>2
  <2> QED BY <1>0, <1>5, <2>1, <2>2, <2>3, TakenFirst
<1>7. CASE /\ NextPage /\ recTree' = recTree
           /\ \A k \in 0..(srcRes.memRecIdx - 1) :
                 At(srcRes, 1, k).pageOffset < OffsetOf(copy.src)
  <2>1. ASSUME NEW r \in Rec PROVE ~Coming(copy.start, r)
    <3> SUFFICES ASSUME Coming(copy.start, r) PROVE FALSE
      OBVIOUS
    <3>1. r \in SeenAt(copy.start) /\ Taken(getAddr(copy.start, r.pageOffset))
      BY <1>2, <1>5 DEF Coming, Ahead
    <3>2. PICK k \in 0..(srcRes.memRecIdx - 1) : r = At(srcRes, 1, k)
      BY <1>4, <3>1
    <3> QED BY <1>5, <1>6, <1>7, <3>1, <3>2
  <2> QED BY <1>0, <1>7, <2>1, NextPageShort DEF WalkShort
<1>8. CASE \E i \in 0..srcRes.memRecIdx :
               /\ Walk(1, i, srcRes.memRecIdx)
               /\ \A k \in 0..(srcRes.memRecIdx - 1) :
                     k < i <=> At(srcRes, 1, k).pageOffset < OffsetOf(copy.src)
               /\ Traced' = Traced
               /\ \A q \in Traced : q # copy.start => recTree'[q] = recTree[q]
               /\ recTree'[copy.start].blocks = srcRes.blocks
               /\ recTree'[copy.start].memRecIdx = i
  <2> DEFINE n == srcRes
             m == recTree'[copy.start]
             limit == srcRes.memRecIdx
  <2>1. PICK i \in 0..limit :
               /\ Walk(1, i, limit)
               /\ \A k \in 0..(limit - 1) :
                     k < i <=> At(n, 1, k).pageOffset < OffsetOf(copy.src)
               /\ Traced' = Traced
               /\ \A q \in Traced : q # copy.start => recTree'[q] = recTree[q]
               /\ m.blocks = n.blocks
               /\ m.memRecIdx = i
    BY <1>8
  <2>2. /\ copy'.phase = "records" /\ copy'.src = copy.src /\ copy'.dest = copy.dest
        /\ copy'.last = copy.last /\ copy'.start = copy.start /\ copy'.idx = i
        /\ copy'.uplimit = limit /\ copy'.wanted = copy.wanted /\ copy'.short = copy.short
    BY <1>0, <2>1 DEF Walk, InTraced, TracedFields
  <2>3. SameCall /\ ~Reallocating'
    BY <1>0, <2>2, TracedSame DEF SameCall
  <2>4. /\ InSlots' /\ ~AtPage' /\ ~AtFirst' /\ srcRes' = m
        /\ Source(copy.src, copy.last)' = Source(copy.src, copy.last)
    BY <2>2 DEF InSlots, AtPage, AtFirst, srcRes
  <2>5. \A k : At(m, 1, k) = At(n, 1, k)
    BY <2>1 DEF At
  <2> HIDE DEF n, m, limit
  <2>6. \A k \in i..(limit - 1) : k \in 0..(limit - 1) /\ ~(k < i)
    BY <1>4, <1>5, <2>1 DEF limit
  <2>7. SlotsLeft'
    <3>1. Run(m, i, limit)
      BY <1>4, <2>5, <2>6 DEF Run, n, limit
    <3>2. \A k \in i..(limit - 1) : getAddr(copy.start, At(m, 1, k).pageOffset) >= copy.src
      <4> SUFFICES ASSUME NEW k \in i..(limit - 1)
                   PROVE  getAddr(copy.start, At(m, 1, k).pageOffset) >= copy.src
        OBVIOUS
      <4>1. k \in 0..(limit - 1) /\ ~(At(n, 1, k).pageOffset < OffsetOf(copy.src))
        BY <2>1, <2>6
      <4>2. Taken(getAddr(copy.start, At(n, 1, k).pageOffset))
        BY <1>5, <1>6, <4>1 DEF n, limit
      <4> QED BY <1>5, <2>5, <4>2 DEF Taken
    <3>3. Run(srcRes', copy'.idx, copy'.uplimit)
          /\ (srcRes'.memRecIdx = copy'.uplimit \/ srcRes'.memRecIdx <= copy'.idx)
      <4>1. i \in Int
        BY <1>4, <1>5, <2>1
      <4> QED BY <2>1, <2>2, <2>4, <3>1, <4>1
    <3>4. \A k \in copy'.idx..(copy'.uplimit - 1) :
             getAddr(copy'.start, At(srcRes', 1, k).pageOffset) >= copy'.src
      BY <2>2, <2>4, <3>2
    <3> QED BY <2>3, <3>3, <3>4 DEF SlotsLeft, Taken
  <2>8. ShortPages'
    <3>1. \A p \in Source(copy.src, copy.last) \cap Traced : Len(recTree'[p].blocks) = 1
      BY <1>2, <1>4, <2>1 DEF ShortWalk, ShortPages, m, n
    <3> QED BY <2>1, <2>4, <3>1 DEF ShortPages
  <2>9. ASSUME NEW p \in Source(copy.src, copy.last), NEW x \in Rec, Coming(p, x)
        PROVE  Coming(p, x)'
    <3>1. Taken(getAddr(p, x.pageOffset))' /\ Taken(getAddr(p, x.pageOffset))
          /\ x \in SeenAt(p) /\ (p > copy.start \/ p = copy.start)
      BY <1>2, <2>3, <2>9, SameTaken DEF Coming, Ahead
    <3>2. CASE p = copy.start
      <4>1. PICK k \in 0..(limit - 1) : x = At(n, 1, k)
        BY <1>4, <3>1, <3>2 DEF n, limit
      <4>2. ~(At(n, 1, k).pageOffset < OffsetOf(copy.src))
        BY <1>5, <1>6, <3>1, <3>2, <4>1 DEF n, limit
      <4>3. k \in i..(limit - 1)
        BY <1>4, <1>5, <2>1, <4>2 DEF limit
      <4>4. x = At(recTree'[p], 1, k)
        BY <2>5, <3>2, <4>1 DEF m
      <4>5. Ahead(p, x)'
        BY <2>2, <2>4, <3>2, <4>3, <4>4 DEF Ahead
      <4> QED BY <3>1, <4>5 DEF Coming
    <3>3. CASE p > copy.start
      <4>1. p # copy.start /\ p \in Traced
        BY <1>5, <3>1, <3>3 DEF SeenAt
      <4>2. x \in SeenAt(p)'
        BY <2>1, <3>1, <4>1 DEF SeenAt
      <4>3. Ahead(p, x)'
        BY <2>2, <2>4, <3>3, <4>2 DEF Ahead
      <4> QED BY <3>1, <4>3 DEF Coming
    <3> QED BY <3>1, <3>2, <3>3
  <2>10. Left \subseteq Left'
    <3>1. Pending \subseteq Pending'
      BY <2>4, <2>9 DEF Pending
    <3> QED BY <2>2, <3>1 DEF Left
  <2>11. Progress'
    BY <1>2, <2>2, <2>10 DEF ShortWalk, Progress
  <2> QED BY <2>2, <2>4, <2>7, <2>8, <2>11 DEF ShortWalk
<1> QED BY <1>3, <1>7, <1>8

LEMMA LaterPageShort ==
    ASSUME WalkInv, ShortLists, WalkShort, LaterPage
    PROVE  WalkShort'
<1>0. /\ InTraced /\ InTraced' /\ TreeInv /\ copy.start \in Traced /\ copy.phase = "page"
      /\ copy.start # PageOf(copy.src) /\ recTree' = recTree
  BY WalkPhases, LaterPageWalks DEF LaterPage, WalkInv, vars
<1> SUFFICES ASSUME OnShort' PROVE ShortWalk'
  BY DEF WalkShort
<1>1. /\ copy'.phase = "records" /\ copy'.src = copy.src /\ copy'.dest = copy.dest
      /\ copy'.last = copy.last /\ copy'.start = copy.start /\ copy'.idx = 0
      /\ copy'.uplimit = srcRes.memRecIdx /\ copy'.wanted = copy.wanted
      /\ copy'.short = copy.short
  BY <1>0 DEF LaterPage, Walk, InTraced, TracedFields
<1>2. SameCall /\ ~Reallocating
  BY <1>0, <1>1, TracedSame
<1>3. ShortWalk
  BY <1>0, <1>1, <1>2 DEF WalkShort, OnShort, SameCall
<1>4. InCall /\ AtPage /\ InSlots'
  BY <1>0, <1>1 DEF InCall, AtPage, InSlots
<1>5. /\ copy.src \in Nat /\ copy.start \in Int /\ copy.start > PageOf(copy.src)
  <2>1. /\ copy.src \in Nat /\ copy.start \in Int /\ PageOf(copy.src) \in Int
        /\ copy.start \in PageOf(copy.src)..copy.last /\ copy.last \in Int
    BY <1>4, WalkFacts
  <2> QED BY <1>0, <2>1
<1>6. \A r \in SeenAt(copy.start) : Taken(getAddr(copy.start, r.pageOffset))
  <2> SUFFICES ASSUME NEW r \in SeenAt(copy.start)
               PROVE  Taken(getAddr(copy.start, r.pageOffset))
    OBVIOUS
  <2>1. r \in Rec
    BY <1>0, SeenTyped
  <2>2. r.pageOffset \in 0..(PAGESIZE - 1)
    BY <2>1 DEF Rec
  <2> QED BY <1>2, <1>5, <2>2, TakenLater
<1> QED BY <1>0, <1>1, <1>2, <1>3, <1>4, <1>6, EntersSlots

LEMMA PassPageShort ==
    ASSUME WalkInv, ShortLists, WalkShort, PassPage \/ PageDone
    PROVE  WalkShort'
<1>0. /\ InTraced /\ InTraced' /\ TreeInv /\ NextPage /\ recTree' = recTree
      /\ copy.phase \in {"page", "records"}
  BY WalkPhases, PassPageWalks DEF PassPage, PageDone, BlockDone, WalkInv, vars
<1>1. ASSUME OnShort, NEW r \in Rec PROVE ~Coming(copy.start, r)
  <2>1. ShortPages /\ InCall
    BY <1>0, <1>1 DEF WalkShort, ShortWalk, InCall
  <2>2. CASE PassPage
    <3>1. AtPage
      BY <2>2 DEF PassPage, AtPage
    <3>2. CASE copy.start \in Traced
      <4>1. srcRes.memRecIdx = 0
        BY <2>2, <3>2 DEF PassPage
      <4>2. SeenAt(copy.start) = {}
        BY <1>0, <2>1, <3>2, <4>1, ShortNode
      <4> QED BY <2>1, <3>1, <4>2, NothingComing
    <3>3. CASE copy.start \notin Traced
      BY <2>1, <3>1, <3>3, NothingComing DEF SeenAt
    <3> QED BY <3>2, <3>3
  <2>3. CASE PageDone
    <3>1. InSlots /\ copy.idx >= copy.uplimit
      BY <2>3 DEF PageDone, BlockDone, InSlots
    <3> QED BY <2>1, <3>1, NothingComing
  <2> QED BY <2>2, <2>3
<1> QED BY <1>0, <1>1, NextPageShort

\* The record a walk over pages of one block is at.
LEMMA ShortSlot ==
    ASSUME TreeInv, ShortLists, InCall, ShortWalk, InSlots, copy.idx < copy.uplimit
    PROVE  /\ copy.blockEntry = 1 /\ Len(srcRes.blocks) = 1
           /\ curMemRec = At(srcRes, 1, copy.idx)
           /\ curMemRec \in Rec /\ curMemRec # Unwritten
           /\ ~Reallocating => Taken(getAddr(copy.start, curMemRec.pageOffset))
<1>1. /\ copy.start \in Traced /\ copy.blockEntry \in 1..Len(srcRes.blocks)
      /\ copy.uplimit \in 0..MEMRECPERENTRY /\ copy.idx \in 0..copy.uplimit
  BY WalkFacts DEF OnList, AtSlot
<1>2. Len(srcRes.blocks) = 1
  BY <1>1, ShortNode DEF ShortWalk
<1>3. copy.blockEntry = 1
  BY <1>1, <1>2
<1>4. copy.idx \in copy.idx..(copy.uplimit - 1)
  BY <1>1, MemRecPerEntryAssumption
<1>5. curMemRec = At(srcRes, 1, copy.idx)
  BY <1>3 DEF curMemRec, At
<1>6. At(srcRes, 1, copy.idx) \in Rec
  BY <1>4 DEF ShortWalk, SlotsLeft, Run
<1>7. ~Reallocating => Taken(getAddr(copy.start, At(srcRes, 1, copy.idx).pageOffset))
  BY <1>4 DEF ShortWalk, SlotsLeft
<1> QED BY <1>2, <1>3, <1>5, <1>6, <1>7, UnwrittenAssumption

LEMMA CopyRecordShort ==
    ASSUME WalkInv, ShortLists, WalkShort, CopyRecord
    PROVE  WalkShort'
<1>0. /\ InTraced /\ InTraced' /\ TreeInv /\ copy.phase = "records"
      /\ copy.idx < copy.uplimit /\ copy' = [copy EXCEPT !.idx = @ + 1]
  BY WalkPhases, CopyRecordWalks DEF CopyRecord, WalkInv
<1> SUFFICES ASSUME OnShort' PROVE ShortWalk'
  BY DEF WalkShort
<1>1. /\ copy'.phase = "records" /\ copy'.src = copy.src /\ copy'.dest = copy.dest
      /\ copy'.last = copy.last /\ copy'.start = copy.start /\ copy'.idx = copy.idx + 1
      /\ copy'.uplimit = copy.uplimit /\ copy'.wanted = copy.wanted
      /\ copy'.short = copy.short
  BY <1>0 DEF InTraced, TracedFields
<1>2. SameCall /\ ~Reallocating
  BY <1>0, <1>1, TracedSame
<1>3. ShortWalk
  BY <1>0, <1>1, <1>2 DEF WalkShort, OnShort, SameCall
<1>4. InCall /\ InSlots
  BY <1>0 DEF InCall, InSlots
<1>5. /\ curMemRec = At(srcRes, 1, copy.idx) /\ curMemRec \in Rec /\ curMemRec # Unwritten
      /\ Taken(getAddr(copy.start, curMemRec.pageOffset))
  BY <1>0, <1>2, <1>3, <1>4, ShortSlot
<1>6. PICK r, c :
                /\ r \in Rec
                /\ curMemRec # Unwritten => r = curMemRec
                /\ c = CopyOf(copy.src, copy.dest, copy.start, r)
                /\ c.rec \in Rec /\ c.page \in Pages
                /\ c.page \notin Source(copy.src, copy.last)
                /\ InsertFound(c.page, c.rec) \/ InsertNew(c.page, c.rec)
  BY CopyRecordIs
<1>7. r = At(srcRes, 1, copy.idx) /\ Taken(getAddr(copy.start, r.pageOffset))
  BY <1>5, <1>6
<1> QED BY <1>0, <1>1, <1>2, <1>3, <1>4, <1>6, <1>7, RecordMoves

(* ... and of ts_realloc.                                                   *)
LEMMA SearchPageShort ==
    ASSUME WalkInv, ShortLists, WalkShort, SearchPage
    PROVE  WalkShort'
<1>0. /\ InRealloc /\ InRealloc' /\ TreeInv /\ recTree' = recTree /\ copy.phase = "search"
  BY WalkPhases, SearchPageWalks DEF SearchPage, InPhase, WalkInv, vars
<1>1. InCall /\ AtPage /\ ~InSlots
  BY <1>0 DEF InCall, AtPage, InSlots
<1>2. CASE copy.start \notin Traced
  <2>1. SeenAt(copy.start) = {}
    BY <1>2 DEF SeenAt
  <2>2. NextReallocPage
    BY <1>2 DEF SearchPage
  <2> QED BY <1>0, <1>1, <2>1, <2>2, NothingComing, NextReallocPageShort
<1>3. CASE copy.start \in Traced
  <2> SUFFICES ASSUME OnShort' PROVE ShortWalk'
    BY DEF WalkShort
  <2>1. copy' = [copy EXCEPT !.phase = "block", !.blockEntry = 1,
                             !.mostRecBlock = srcRes.recModEntry]
    BY <1>3 DEF SearchPage
  <2>2. /\ copy'.phase = "block" /\ copy'.src = copy.src /\ copy'.dest = copy.dest
        /\ copy'.last = copy.last /\ copy'.start = copy.start /\ copy'.tail = copy.tail
        /\ copy'.wanted = copy.wanted /\ copy'.short = copy.short
        /\ copy'.mostRecBlock = srcRes.recModEntry
    BY <1>0, <2>1 DEF InRealloc, ReallocFields
  <2>3. SameCall
    BY <1>0, <2>2, ReallocSame
  <2>4. ShortWalk
    BY <1>0, <2>2, <2>3 DEF WalkShort, OnShort, SameCall
  <2>5. copy'.mostRecBlock = 1
    BY <1>0, <1>1, <1>3, <2>2, <2>4, ShortNode DEF ShortWalk
  <2>6. AtPage' /\ ~InSlots' /\ ~AtFirst'
    BY <2>2 DEF AtPage, InSlots, AtFirst
  <2>7. \A p : SeenAt(p)' = SeenAt(p)
    BY <1>0 DEF SeenAt, Traced
  <2>8. \A p, r : Ahead(p, r)' <=> Ahead(p, r)
    BY <1>1, <2>2, <2>6, <2>7 DEF Ahead
  <2>9. ShortPages' /\ Progress'
    BY <1>0, <2>3, <2>4, <2>8, SamePending DEF ShortWalk
  <2> QED BY <2>5, <2>6, <2>9 DEF ShortWalk
<1> QED BY <1>2, <1>3

LEMMA EnterBlockShort ==
    ASSUME WalkInv, ShortLists, WalkShort, EnterBlock
    PROVE  WalkShort'
<1>0. /\ InRealloc /\ InRealloc' /\ TreeInv /\ recTree' = recTree /\ copy.phase = "block"
      /\ OnList
  BY WalkPhases, EnterBlockWalks DEF EnterBlock, InPhase, WalkInv, vars, InRealloc
<1> SUFFICES ASSUME OnShort' PROVE ShortWalk'
  BY DEF WalkShort
<1>1. copy' = [copy EXCEPT !.phase = "rec", !.idx = 0, !.uplimit = uplimitHere]
  BY DEF EnterBlock
<1>2. /\ copy'.phase = "rec" /\ copy'.src = copy.src /\ copy'.dest = copy.dest
      /\ copy'.last = copy.last /\ copy'.start = copy.start /\ copy'.tail = copy.tail
      /\ copy'.wanted = copy.wanted /\ copy'.short = copy.short
      /\ copy'.mostRecBlock = copy.mostRecBlock
      /\ copy'.idx = 0 /\ copy'.uplimit = uplimitHere
  BY <1>0, <1>1 DEF InRealloc, ReallocFields
<1>3. SameCall /\ Reallocating
  BY <1>0, <1>2, ReallocSame
<1>4. ShortWalk /\ copy.mostRecBlock = 1
  BY <1>0, <1>2, <1>3 DEF WalkShort, OnShort, SameCall, ShortWalk
<1>5. InCall /\ AtPage /\ InSlots'
  BY <1>0, <1>2 DEF InCall, AtPage, InSlots
<1>6. Len(srcRes.blocks) = 1
  BY <1>0, <1>4, <1>5, ShortNode DEF ShortWalk, OnList
<1>7. copy.blockEntry = 1
  BY <1>0, <1>6 DEF OnList
<1>8. uplimitHere = srcRes.memRecIdx
  BY <1>4, <1>7 DEF uplimitHere
<1> QED BY <1>0, <1>2, <1>3, <1>4, <1>5, <1>8, EntersSlots DEF OnList

LEMMA VisitRecordShort ==
    ASSUME WalkInv, ShortLists, WalkShort, VisitRecord
    PROVE  WalkShort'
<1>0. /\ InRealloc /\ InRealloc' /\ TreeInv /\ TreeInv' /\ OnList /\ AtSlot
      /\ copy.phase = "rec" /\ copy.idx < copy.uplimit
  BY VisitRecordIs, VisitRecordWalks
<1> SUFFICES ASSUME OnShort' PROVE ShortWalk'
  BY DEF WalkShort
<1>1. PICK r \in Rec, a \in Int :
                /\ curMemRec # Unwritten => r = curMemRec
                /\ a = getAddr(copy.start, r.pageOffset)
                /\ \/ /\ a <= copy.src
                      /\ copy' = [copy EXCEPT !.idx = @ + 1] /\ UNCHANGED vars
                   \/ /\ a >= copy.tail
                      /\ copy' = [copy EXCEPT !.idx = copy.uplimit] /\ UNCHANGED vars
                   \/ copy.src < a /\ a < copy.tail /\ MoveRecord(r)
  BY VisitRecordIs
<1>2. InCall /\ InSlots
  BY <1>0 DEF InCall, InSlots
<1>3. /\ copy.uplimit \in 0..MEMRECPERENTRY /\ copy.idx \in 0..copy.uplimit
      /\ copy.uplimit \in Int /\ copy.idx \in Int /\ copy.start \in Int
      /\ copy.src \in Nat /\ copy.tail \in Nat
      /\ copy.idx \in copy.idx..(copy.uplimit - 1)
  <2>1. /\ copy.uplimit \in 0..MEMRECPERENTRY /\ copy.idx \in 0..copy.uplimit
    BY <1>0 DEF AtSlot
  <2>2. copy.start \in Int
    BY <1>2, WalkFacts
  <2> QED BY <1>0, <2>1, <2>2, MemRecPerEntryAssumption DEF InRealloc
<1>4. ASSUME NEW i \in Int, copy' = [copy EXCEPT !.idx = i], UNCHANGED vars,
             copy.idx <= i,
             \A k \in copy.idx..(i - 1) :
                k < copy.uplimit /\ ShortWalk =>
                   ~InArea(copy.src, copy.tail,
                           getAddr(copy.start, At(srcRes, 1, k).pageOffset))
      PROVE  ShortWalk'
  <2>1. /\ copy'.phase = copy.phase /\ copy'.src = copy.src /\ copy'.dest = copy.dest
        /\ copy'.last = copy.last /\ copy'.start = copy.start /\ copy'.tail = copy.tail
        /\ copy'.wanted = copy.wanted /\ copy'.short = copy.short
        /\ copy'.mostRecBlock = copy.mostRecBlock
        /\ copy'.idx = i /\ copy'.uplimit = copy.uplimit
    BY <1>0, <1>4 DEF InRealloc, ReallocFields
  <2>2. SameCall /\ Reallocating
    BY <1>0, <2>1, ReallocSame
  <2>3. ShortWalk
    BY <1>0, <2>1, <2>2 DEF WalkShort, OnShort, SameCall
  <2>4. recTree' = recTree
    BY <1>4 DEF vars
  <2>5. \A k \in copy.idx..(copy'.idx - 1) :
           k < copy.uplimit => ~Taken(getAddr(copy.start, At(srcRes, 1, k).pageOffset))
    BY <1>4, <2>1, <2>2, <2>3 DEF Taken
  <2> QED BY <1>0, <1>2, <1>3, <1>4, <2>1, <2>2, <2>3, <2>4, <2>5, PassesSlots
<1>5. ASSUME ShortWalk
      PROVE  /\ r = At(srcRes, 1, copy.idx) /\ copy.blockEntry = 1
             /\ a = getAddr(copy.start, At(srcRes, 1, copy.idx).pageOffset)
             /\ Run(srcRes, copy.idx, copy.uplimit)
  <2>1. r = At(srcRes, 1, copy.idx) /\ copy.blockEntry = 1
    BY <1>0, <1>1, <1>2, <1>5, ShortSlot
  <2> QED BY <1>1, <1>2, <1>5, <2>1 DEF ShortWalk, SlotsLeft
<1>6. CASE a <= copy.src /\ copy' = [copy EXCEPT !.idx = @ + 1] /\ UNCHANGED vars
  <2> DEFINE i == copy.idx + 1
  <2>1. i \in Int /\ copy.idx <= i /\ \A k \in copy.idx..(i - 1) : k = copy.idx
    BY <1>3
  <2>2. copy' = [copy EXCEPT !.idx = i]
    BY <1>6
  <2> HIDE DEF i
  <2>3. ShortWalk => ~InArea(copy.src, copy.tail,
                             getAddr(copy.start, At(srcRes, 1, copy.idx).pageOffset))
    BY <1>1, <1>3, <1>5, <1>6 DEF InArea
  <2>4. \A k \in copy.idx..(i - 1) :
          ShortWalk => ~InArea(copy.src, copy.tail,
                               getAddr(copy.start, At(srcRes, 1, k).pageOffset))
    BY <2>1, <2>3
  <2> QED BY <1>4, <1>6, <2>1, <2>2, <2>4
<1>7. CASE a >= copy.tail /\ copy' = [copy EXCEPT !.idx = copy.uplimit] /\ UNCHANGED vars
  <2>1. ASSUME NEW k \in copy.idx..(copy.uplimit - 1), ShortWalk
        PROVE  ~InArea(copy.src, copy.tail, getAddr(copy.start, At(srcRes, 1, k).pageOffset))
    <3> DEFINE x == At(srcRes, 1, copy.idx).pageOffset
               y == At(srcRes, 1, k).pageOffset
    <3>1. Run(srcRes, copy.idx, copy.uplimit) /\ a = getAddr(copy.start, x)
      BY <1>5, <2>1
    <3>2. k = copy.idx \/ copy.idx < k
      BY <1>3
    <3>3. x \in 0..(PAGESIZE - 1) /\ y \in 0..(PAGESIZE - 1)
      BY <1>3, <3>1 DEF Run, Rec
    <3>4. x = y \/ x < y
      BY <1>3, <3>1, <3>2 DEF Run
    <3> HIDE DEF x, y
    <3>5. getAddr(copy.start, x) <= getAddr(copy.start, y) /\ getAddr(copy.start, y) \in Int
      <4>1. copy.start * PAGESIZE \in Int
        BY <1>3, PageSizeAssumption
      <4> QED BY <3>3, <3>4, <4>1 DEF getAddr
    <3>6. ~(getAddr(copy.start, y) < copy.tail)
      BY <1>1, <1>3, <1>7, <3>1, <3>5
    <3> QED BY <3>6 DEF InArea, y
  <2>2. copy.idx <= copy.uplimit
    BY <1>3
  <2> QED BY <1>3, <1>4, <1>7, <2>1, <2>2
<1>8. CASE copy.src < a /\ a < copy.tail /\ MoveRecord(r)
  <2>1. copy.src < getAddr(copy.start, r.pageOffset)
    BY <1>1, <1>8
  <2>2. PICK c : /\ c = CopyOf(copy.src, copy.dest, copy.start, r)
                 /\ c.rec \in Rec /\ c.page \in Pages
                 /\ c.page \in Source(copy.src, copy.last) =>
                      c.page = copy.start /\ c.rec = r
                 /\ InsertFound(c.page, c.rec) \/ InsertNew(c.page, c.rec)
    BY <1>0, <1>8, <2>1, MoveRecordIs
  <2>3. copy' = IF Len(recTree'[copy.start].blocks) < copy.blockEntry
                THEN [copy EXCEPT !.phase = "lost"]
                ELSE [copy EXCEPT !.idx = @ + 1]
    BY <1>8 DEF MoveRecord
  <2>4. copy'.phase # "lost"
    BY DEF OnShort
  <2>5. copy' = [copy EXCEPT !.idx = @ + 1]
    <3>1. CASE copy' = [copy EXCEPT !.phase = "lost"]
      BY <1>0, <2>4, <3>1 DEF InRealloc, ReallocFields
    <3> QED BY <2>3, <3>1
  <2>6. /\ copy'.phase = copy.phase /\ copy'.src = copy.src /\ copy'.dest = copy.dest
        /\ copy'.last = copy.last /\ copy'.start = copy.start /\ copy'.tail = copy.tail
        /\ copy'.wanted = copy.wanted /\ copy'.short = copy.short
        /\ copy'.mostRecBlock = copy.mostRecBlock
        /\ copy'.idx = copy.idx + 1 /\ copy'.uplimit = copy.uplimit
    BY <1>0, <2>5 DEF InRealloc, ReallocFields
  <2>7. SameCall /\ Reallocating
    BY <1>0, <2>6, ReallocSame
  <2>8. ShortWalk /\ copy.mostRecBlock = 1
    BY <1>0, <2>6, <2>7 DEF WalkShort, OnShort, SameCall, ShortWalk
  <2>9. Taken(getAddr(copy.start, r.pageOffset))
    BY <1>1, <1>8, <2>7 DEF Taken, InArea
  <2> QED BY <1>0, <1>2, <1>5, <2>2, <2>6, <2>7, <2>8, <2>9, RecordMoves
<1> QED BY <1>1, <1>6, <1>7, <1>8

LEMMA LeaveBlockShort ==
    ASSUME WalkInv, ShortLists, WalkShort, LeaveBlock
    PROVE  WalkShort'
<1>0. /\ InRealloc /\ InRealloc' /\ TreeInv /\ recTree' = recTree /\ copy.phase = "rec"
      /\ OnList /\ copy.idx >= copy.uplimit
  BY WalkPhases, LeaveBlockWalks DEF LeaveBlock, InPhase, WalkInv, vars, InRealloc
<1>1. InCall /\ InSlots
  BY <1>0 DEF InCall, InSlots
<1>2. CASE copy.blockEntry < Len(srcRes.blocks)
  <2> SUFFICES ASSUME OnShort' PROVE FALSE
    BY DEF WalkShort
  <2>1. copy' = [copy EXCEPT !.phase = "block", !.blockEntry = @ + 1]
    BY <1>2 DEF LeaveBlock
  <2>2. copy'.short = copy.short
    BY <1>0, <2>1 DEF InRealloc, ReallocFields
  <2>3. ShortWalk
    BY <1>0, <2>2 DEF WalkShort, OnShort, Calling
  <2>4. Len(srcRes.blocks) = 1
    BY <1>0, <1>1, <2>3, ShortNode DEF ShortWalk, OnList
  <2> QED BY <1>0, <1>2, <2>4 DEF OnList
<1>3. CASE ~(copy.blockEntry < Len(srcRes.blocks))
  <2>1. NextReallocPage
    BY <1>3 DEF LeaveBlock
  <2> QED BY <1>0, <1>1, <2>1, NothingComing, NextReallocPageShort
<1> QED BY <1>2, <1>3

LEMMA NextBlockShort ==
    ASSUME WalkInv, ShortLists, WalkShort, NextBlock
    PROVE  WalkShort'
<1>0. InTraced /\ TreeInv /\ copy.phase = "records" /\ OnList
  BY WalkPhases DEF NextBlock, BlockDone, WalkInv, InTraced
<1> SUFFICES ASSUME OnShort' PROVE FALSE
  BY DEF WalkShort
<1>1. copy'.short = copy.short
  BY <1>0 DEF NextBlock, InTraced, TracedFields
<1>2. ShortWalk
  BY <1>0, <1>1 DEF WalkShort, OnShort, Calling
<1>3. InCall
  BY <1>0 DEF InCall
<1>4. Len(srcRes.blocks) = 1
  BY <1>0, <1>2, <1>3, ShortNode DEF ShortWalk, OnList
<1> QED BY <1>0, <1>4 DEF OnList, NextBlock

LEMMA NextShort ==
    ASSUME WalkInv, ShortLists, WalkShort, [ReallocNext]_tracedVars
    PROVE  WalkShort'
<1>1. CASE UNCHANGED tracedVars
  <2>1. recTree' = recTree /\ copy' = copy
    BY <1>1 DEF tracedVars, vars
  <2>2. \A p : SeenAt(p)' = SeenAt(p)
    BY <2>1 DEF SeenAt, Traced
  <2>3. OnShort => SameCall
    BY <2>1 DEF OnShort, SameCall, Calling, Reallocating
  <2>4. \A p, r : Ahead(p, r)' <=> Ahead(p, r)
    BY <2>1, <2>2 DEF Ahead, AtPage, InSlots
  <2>5. OnShort /\ ShortWalk => ShortPages' /\ Progress' /\ Left' = Left
    BY <2>1, <2>3, <2>4, SamePending DEF ShortWalk
  <2>6. OnShort' => OnShort
    BY <2>1 DEF OnShort, Calling
  <2>7. InSlots /\ SlotsLeft => SlotsLeft'
    BY <2>1 DEF SlotsLeft, srcRes, Taken, Reallocating, Calling, InArea
  <2> QED BY <2>1, <2>5, <2>6, <2>7 DEF WalkShort, ShortWalk, InSlots, AtFirst
<1>2. ASSUME copy'.phase \in {"idle", "spin"} PROVE WalkShort'
  BY <1>2 DEF WalkShort, OnShort, Calling
<1>3. CASE ~Calling /\ UNCHANGED copy
  BY <1>2, <1>3 DEF Calling
<1>4. CASE \E c \in Calls : Call(c.src, c.dest, c.last)
  BY <1>4, CallShort
<1>5. CASE \E c \in Reallocs : ReallocCall(c.src, c.dest, c.tail)
  BY <1>5, ReallocCallShort
<1>6. CASE FirstPage \/ LaterPage \/ PassPage \/ PageDone \/ CopyRecord \/ NextBlock
  BY <1>6, FirstPageShort, LaterPageShort, PassPageShort, CopyRecordShort, NextBlockShort
<1>7. CASE Return \/ ReallocReturn
  <2>1. copy' = NoCall
    BY <1>7 DEF Return, ReallocReturn
  <2> QED BY <1>2, <2>1 DEF NoCall
<1>8. CASE Spin
  <2>1. InRealloc /\ copy' = [copy EXCEPT !.phase = "spin"]
    BY <1>8, WalkPhases DEF Spin, InPhase
  <2>2. copy'.phase = "spin"
    BY <2>1 DEF InRealloc, ReallocFields
  <2> QED BY <1>2, <2>2
<1>9. CASE SearchPage \/ EnterBlock \/ VisitRecord \/ LeaveBlock
  BY <1>9, SearchPageShort, EnterBlockShort, VisitRecordShort, LeaveBlockShort
<1> QED
  BY <1>1, <1>3, <1>4, <1>5, <1>6, <1>7, <1>8, <1>9
  DEF ReallocNext, TracedNext, ReallocStep

-----------------------------------------------------------------------------
(* What ts_memcpy_traced leaves at the source: its cut takes from the page
   what lies from src on.                                                   *)
BelowInv == InTraced /\ copy.short /\ ~AtFirst => SeenAt(PageOf(copy.src)) = copy.below

LEMMA FirstPageBelow ==
    ASSUME WalkInv, ShortLists, WalkShort, PrefixInv, FirstPage
    PROVE  BelowInv'
<1> SUFFICES ASSUME copy'.short PROVE SeenAt(PageOf(copy.src))' = copy'.below
  BY DEF BelowInv
<1>0. /\ InTraced /\ InTraced' /\ TreeInv /\ TreeInv' /\ copy.start \in Traced
      /\ copy.phase = "page" /\ copy.start = PageOf(copy.src) /\ AtFirst
  BY WalkPhases, FirstPageWalks DEF FirstPage, WalkInv, AtFirst
<1>1. /\ copy.short /\ copy'.src = copy.src /\ copy'.below = copy.below
  <2>1. {"src", "below", "short"} \subseteq DOMAIN copy
    BY <1>0 DEF InTraced, TracedFields
  <2>2. NextPage \/ \E block, i, limit : Walk(block, i, limit)
    BY DEF FirstPage
  <2> QED BY <2>1, <2>2 DEF Walk, NextPage
<1>2. ShortPages /\ InCall
  BY <1>0, <1>1, WalkPhases DEF WalkShort, OnShort, ShortWalk, InCall
<1> DEFINE n == srcRes
           m == recTree'[copy.start]
           limit == srcRes.memRecIdx
           off == OffsetOf(copy.src)
<1>3. /\ Run(n, 0, limit) /\ limit \in 0..MEMRECPERENTRY /\ Len(n.blocks) = 1
      /\ \A x : x \in SeenAt(copy.start) <=> \E k \in 0..(limit - 1) : x = At(n, 1, k)
  BY <1>0, <1>2, ShortNode
<1>4. copy.below = {r \in SeenAt(copy.start) : r.pageOffset < off}
  BY <1>0 DEF PrefixInv, GhostsHold, Below
<1>5. \/ /\ recTree' = recTree
         /\ \A k \in 0..(limit - 1) : At(n, 1, k).pageOffset < off
      \/ \E i \in 0..limit :
            /\ \A k \in 0..(limit - 1) : k < i <=> At(n, 1, k).pageOffset < off
            /\ Traced' = Traced
            /\ m.blocks = n.blocks
            /\ m.memRecIdx = i
  BY <1>2, FirstPageIs
<1>6. CASE /\ recTree' = recTree
           /\ \A k \in 0..(limit - 1) : At(n, 1, k).pageOffset < off
  <2>1. \A x \in SeenAt(copy.start) : x.pageOffset < off
    BY <1>3, <1>6
  <2>2. SeenAt(PageOf(copy.src))' = SeenAt(copy.start)
    BY <1>0, <1>1, <1>6 DEF SeenAt, Traced
  <2> QED BY <1>1, <1>4, <2>1, <2>2
<1>7. CASE \E i \in 0..limit :
            /\ \A k \in 0..(limit - 1) : k < i <=> At(n, 1, k).pageOffset < off
            /\ Traced' = Traced
            /\ m.blocks = n.blocks
            /\ m.memRecIdx = i
  <2>1. PICK i \in 0..limit :
            /\ \A k \in 0..(limit - 1) : k < i <=> At(n, 1, k).pageOffset < off
            /\ Traced' = Traced
            /\ m.blocks = n.blocks
            /\ m.memRecIdx = i
    BY <1>7
  <2>2. SeenAt(PageOf(copy.src))' = SeenIn(m)
    BY <1>0, <1>1, <2>1 DEF SeenAt, SeenIn
  <2>3. Formed(m)
    BY <1>0, <2>1 DEF TreeInv
  <2>4. \A k : At(m, 1, k) = At(n, 1, k)
    BY <2>1 DEF At
  <2> HIDE DEF n, m, limit, off
  <2>5. \A k \in 0..(i - 1) : k \in 0..(limit - 1) /\ k < i
    BY <1>3, <2>1, MemRecPerEntryAssumption
  <2>6. \A k \in 0..(limit - 1) : k < i => k \in 0..(i - 1)
    BY <1>3, <2>1, MemRecPerEntryAssumption
  <2>7. Run(m, 0, m.memRecIdx) /\ Len(m.blocks) = 1
    BY <1>3, <2>1, <2>4, <2>5 DEF Run
  <2>8. \A x : x \in SeenIn(m) <=> \E k \in 0..(i - 1) : x = At(n, 1, k)
    BY <2>1, <2>3, <2>4, <2>7, RunSeen
  <2>9. \A x : x \in SeenIn(m) <=> x \in copy.below
    BY <1>3, <1>4, <2>1, <2>5, <2>6, <2>8
  <2>10. SeenIn(m) = copy.below
    <3> DEFINE a == SeenIn(m)
               b == copy.below
    <3>1. \A x : x \in a <=> x \in b
      BY <2>9
    <3> HIDE DEF a, b
    <3>2. a = b
      BY <3>1
    <3> QED BY <3>2 DEF a, b
  <2> QED BY <1>1, <2>2, <2>10
<1> QED BY <1>5, <1>6, <1>7

(* A step that takes nothing from the page of src and gives it nothing.     *)
LEMMA BelowPassed ==
    ASSUME BelowInv, InTraced, ~AtFirst \/ (SeenAt(PageOf(copy.src)) = {} /\ PrefixInv),
           copy'.src = copy.src, copy'.below = copy.below, copy'.short = copy.short,
           SeenAt(PageOf(copy.src))' = SeenAt(PageOf(copy.src))
    PROVE  BelowInv'
<1>1. CASE ~AtFirst
  BY <1>1 DEF BelowInv
<1>2. CASE AtFirst /\ SeenAt(PageOf(copy.src)) = {} /\ PrefixInv
  <2>1. copy.below = {}
    BY <1>2 DEF PrefixInv, GhostsHold, Below
  <2> QED BY <1>2, <2>1 DEF BelowInv
<1> QED BY <1>1, <1>2

LEMMA NextBelow ==
    ASSUME WalkInv, ShortLists, WalkShort, PrefixInv, BelowInv, [ReallocNext]_tracedVars
    PROVE  BelowInv'
<1>1. CASE UNCHANGED tracedVars
  <2>1. recTree' = recTree /\ copy' = copy
    BY <1>1 DEF tracedVars, vars
  <2> QED BY <2>1 DEF BelowInv, InTraced, OnList, AtSlot, srcRes, AtFirst, SeenAt, Traced
<1>2. ASSUME copy'.phase \notin {"page", "records", "done"} PROVE BelowInv'
  BY <1>2 DEF BelowInv, InTraced
<1>3. CASE ~Calling /\ UNCHANGED copy
  <2>1. copy' = NoCall
    BY <1>3, WalkPhases
  <2> QED BY <1>2, <2>1 DEF NoCall
<1>4. CASE \E c \in Calls : Call(c.src, c.dest, c.last)
  <2>1. copy'.phase = "page" /\ copy'.start = PageOf(copy'.src)
    BY <1>4 DEF Call
  <2> QED BY <2>1 DEF BelowInv, AtFirst
<1>5. CASE FirstPage
  BY <1>5, FirstPageBelow
<1>6. CASE PassPage \/ PageDone \/ LaterPage \/ NextBlock
  <2>1. InTraced /\ TreeInv /\ recTree' = recTree
    BY <1>6, WalkPhases
    DEF PassPage, PageDone, BlockDone, LaterPage, NextBlock, WalkInv, vars
  <2>2. copy'.src = copy.src /\ copy'.below = copy.below /\ copy'.short = copy.short
    BY <1>6, <2>1 DEF PassPage, PageDone, LaterPage, NextBlock, Walk, NextPage, InTraced,
                      TracedFields
  <2>3. SeenAt(PageOf(copy.src))' = SeenAt(PageOf(copy.src))
    BY <2>1, <2>2 DEF SeenAt, Traced
  <2>4. CASE ~AtFirst
    BY <2>1, <2>2, <2>3, <2>4, BelowPassed
  <2>5. CASE AtFirst
    <3>1. PassPage
      BY <1>6, <2>5 DEF AtFirst, PageDone, BlockDone, LaterPage, NextBlock
    <3>2. CASE copy.start \notin Traced
      <4>1. SeenAt(PageOf(copy.src)) = {}
        BY <2>5, <3>2 DEF AtFirst, SeenAt
      <4> QED BY <2>1, <2>2, <2>3, <4>1, BelowPassed
    <3>3. CASE copy.start \in Traced
      <4> SUFFICES ASSUME copy.short PROVE BelowInv'
        BY <2>2 DEF BelowInv
      <4>1. srcRes.memRecIdx = 0
        BY <3>1, <3>3 DEF PassPage
      <4>2. ShortPages /\ InCall
        BY <2>1, <2>5, WalkPhases DEF WalkShort, OnShort, ShortWalk, InCall, AtFirst
      <4>3. SeenAt(copy.start) = {}
        BY <2>1, <3>3, <4>1, <4>2, ShortNode
      <4>4. SeenAt(PageOf(copy.src)) = {}
        BY <2>5, <4>3 DEF AtFirst
      <4> QED BY <2>1, <2>2, <2>3, <4>4, BelowPassed
    <3> QED BY <3>2, <3>3
  <2> QED BY <2>4, <2>5
<1>7. CASE CopyRecord
  <2>1. InTraced /\ TreeInv /\ copy.phase = "records" /\ copy' = [copy EXCEPT !.idx = @ + 1]
    BY <1>7, WalkPhases DEF CopyRecord, WalkInv
  <2>2. copy'.src = copy.src /\ copy'.below = copy.below /\ copy'.short = copy.short
    BY <2>1 DEF InTraced, TracedFields
  <2>3. PICK r, c :
                /\ r \in Rec
                /\ c.rec \in Rec /\ c.page \in Pages
                /\ c.page \notin Source(copy.src, copy.last)
                /\ InsertFound(c.page, c.rec) \/ InsertNew(c.page, c.rec)
    BY <1>7, CopyRecordIs
  <2>4. Inserted(c.page, c.rec)
    BY <2>1, <2>3, InsertTree
  <2>5. PageOf(copy.src) # c.page
    <3>1. /\ PageOf(copy.src) \in Int /\ copy.start \in PageOf(copy.src)..copy.last
          /\ copy.last \in Int
      BY <2>1, WalkFacts DEF InCall
    <3>2. PageOf(copy.src) \in Source(copy.src, copy.last)
      BY <3>1 DEF Source
    <3> QED BY <2>3, <3>2
  <2>6. /\ PageOf(copy.src) \in Traced' <=> PageOf(copy.src) \in Traced
        /\ PageOf(copy.src) \in Traced =>
              recTree'[PageOf(copy.src)] = recTree[PageOf(copy.src)]
    BY <2>4, <2>5 DEF Inserted
  <2>7. SeenAt(PageOf(copy.src))' = SeenAt(PageOf(copy.src))
    <3>1. CASE PageOf(copy.src) \in Traced
      BY <2>2, <2>6, <3>1 DEF SeenAt
    <3>2. CASE PageOf(copy.src) \notin Traced
      BY <2>2, <2>6, <3>2 DEF SeenAt
    <3> QED BY <3>1, <3>2
  <2> QED BY <2>1, <2>2, <2>7, BelowPassed DEF AtFirst
<1>8. CASE Return \/ ReallocReturn
  <2>1. copy' = NoCall
    BY <1>8 DEF Return, ReallocReturn
  <2> QED BY <1>2, <2>1 DEF NoCall
<1>9. CASE (\E c \in Reallocs : ReallocCall(c.src, c.dest, c.tail)) \/ ReallocStep
  <2>1. InRealloc'
    BY <1>9, ReallocCallWalks, SearchPageWalks, EnterBlockWalks, SpinWalks,
       VisitRecordWalks, LeaveBlockWalks DEF ReallocStep
  <2> QED BY <1>2, <2>1 DEF InRealloc
<1> QED
  BY <1>1, <1>3, <1>4, <1>5, <1>6, <1>7, <1>8, <1>9
  DEF ReallocNext, TracedNext, ReallocStep

-----------------------------------------------------------------------------
(* The inductive invariant of the walks over pages of one block each.       *)
ShortInv == WalkInv /\ ShortLists /\ PrefixInv /\ WalkShort /\ BelowInv

(* It holds of every state of every instance.                               *)
THEOREM ShortInvariance == ReallocSpec => []ShortInv
<1>1. ASSUME TracedInit PROVE ShortInv
  <2>1. WalkInv
    BY <1>1, InitWalk
  <2>2. copy = NoCall /\ Traced = {}
    BY <1>1 DEF TracedInit, Init, Traced
  <2>3. ~Calling /\ ~InTraced
    BY <2>2 DEF Calling, NoCall, InTraced
  <2> QED BY <2>1, <2>2, <2>3
          DEF ShortInv, ShortLists, PrefixInv, WalkShort, OnShort, BelowInv
<1>2. ShortInv /\ [ReallocNext]_tracedVars => ShortInv'
  BY NextWalk, NextRuns, NextPrefix, NextShort, NextBelow DEF ShortInv
<1> QED BY <1>1, <1>2, PTL DEF ReallocSpec

\* Nothing is to come when the walk is over.
LEMMA NothingLeft ==
    ASSUME copy.phase \in {"done", "moved"}
    PROVE  Left = {}
<1>1. ~AtPage /\ ~InSlots
  BY DEF AtPage, InSlots
<1>2. Pending = {}
  BY <1>1 DEF Pending, Coming, Ahead
<1> QED BY <1>2 DEF Left

(* The records of a copy between pages of one block each all arrive where
   they are wanted, and the source keeps those below src, in every instance
   (awn.c:1073-1177).                                                       *)
THEOREM ShortPagesAlwaysMove == ReallocSpec => []ShortPagesMove
<1>1. ASSUME ShortInv PROVE ShortPagesMove
  <2> SUFFICES ASSUME Returning, copy.short
               PROVE  /\ \A w \in copy.wanted : w.rec \in SeenAt(w.page)
                      /\ SeenAt(PageOf(copy.src)) = copy.below
    BY DEF ShortPagesMove
  <2>1. copy.phase = "done" /\ InTraced
    BY <1>1, WalkPhases DEF Returning, ShortInv
  <2>2. ShortWalk
    BY <1>1, <2>1 DEF ShortInv, WalkShort, OnShort, Calling
  <2>3. \A w \in copy.wanted : Arrived(recTree, w, Left)
    BY <2>1, <2>2, NothingLeft DEF ShortWalk, Progress
  <2>4. \A w \in copy.wanted : w.rec \in SeenAt(w.page)
    BY <2>3 DEF Arrived, SeenAt, SeenIn, Traced
  <2>5. SeenAt(PageOf(copy.src)) = copy.below
    BY <1>1, <2>1 DEF ShortInv, BelowInv, AtFirst
  <2> QED BY <2>4, <2>5
<1> QED BY <1>1, ShortInvariance, PTL

(* ts_realloc over ordered pages of one block each inserts all records of the
   area at their new addresses, where they are still seen when it is done, in
   every instance: whether the area moved or stayed (awn.c:1624-1680).      *)
THEOREM ReallocAlwaysMoves == ReallocSpec => []ReallocMoves
<1>1. ASSUME ShortInv PROVE ReallocMoves
  <2> SUFFICES ASSUME InPhase("moved"), copy.short, NEW w \in copy.wanted
               PROVE  w.rec \in SeenAt(w.page)
    BY DEF ReallocMoves
  <2>1. copy.phase = "moved"
    BY DEF InPhase
  <2>2. ShortWalk
    BY <1>1, <2>1 DEF ShortInv, WalkShort, OnShort, Calling
  <2>3. Arrived(recTree, w, Left)
    BY <2>1, <2>2, NothingLeft DEF ShortWalk, Progress
  <2> QED BY <2>3 DEF Arrived, SeenAt, SeenIn, Traced
<1> QED BY <1>1, ShortInvariance, PTL
=============================================================================
