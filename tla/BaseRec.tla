------------------------------- MODULE BaseRec -------------------------------
(* The record tree of the build with BASE_VERSION (make base): one node for
   each record, ordered by startMemory, no pages, no blocks, no sweep.

   The comparators are monotone over a tree of disjoint records, so a search
   finds a record that compares equal if there is one: which one depends on
   the shape of the tree, and is any of them here.                           *)
EXTENDS Integers, FiniteSets

CONSTANTS
    Size,           \* addresses 0..Size-1 are copied to, from, and written
    FileLen,        \* bytes of the mapped file
    MaxLen          \* longest copy or write

ASSUME SizesAssumption == {Size, FileLen, MaxLen} \subseteq Nat

VARIABLES
    recs,           \* the records in the tree
    call,           \* the call in progress, with the locals of its loop
    stopped,        \* an assertion failed
    memory,         \* ghost: file byte copied to each address, or Other;
                    \* followed as long as whole holds
    whole           \* ghost: every traced copy was a whole one (see below)

vars == <<recs, call, stopped, memory, whole>>

Memory == 0..(Size - 1)
Other == -1
Idle == [op |-> "none"]

Init ==
    /\ recs = {}
    /\ call = Idle
    /\ stopped = FALSE
    /\ memory = [a \in Memory |-> Other]
    /\ whole = TRUE

Ready == call = Idle /\ ~stopped

-----------------------------------------------------------------------------
(* Inserting.                                                                *)

\* Mutation of overlapRec: a record that begins before start does not overlap.
OverlapFromStart(start, tail, b) ==
    IF start > b.startMemory THEN 1
    ELSE IF start < b.startMemory /\ tail <= b.startMemory THEN -1
    ELSE 0

overlapRec(start, tail, b) ==
    IF start > b.startMemory /\ start >= b.tailMemory THEN 1
    ELSE IF start < b.startMemory /\ tail <= b.startMemory THEN -1
    ELSE 0

overlapRecBegBigger(start, tail, b) ==
    IF start > b.startMemory THEN 1
    ELSE IF start < b.startMemory /\ tail < b.startMemory THEN -1
    ELSE 0

(* Every record that overlaps is taken out of the tree, and its cell of the
   pool is lost.                                                             *)
deleteRec(S, dest, length) == {b \in S : overlapRec(dest, dest + length, b) # 0}

\* Mutation of assertRec: the assertions are compiled out.
NoAssert(length) == TRUE

\* The first assertion of deleteRec.
assertRec(length) == length > 0

insertRec(S, fileOffset, dest, length) ==
    IF assertRec(length)
    THEN /\ recs' = deleteRec(S, dest, length)
                      \cup {[startMemory |-> dest, tailMemory |-> dest + length,
                             fileOffset |-> fileOffset]}
         /\ UNCHANGED stopped
    ELSE /\ stopped' = TRUE
         /\ recs' = S

\* Out of the mapped file.
ts_memcpy(dest, fileOffset, n) ==
    /\ Ready
    /\ insertRec(recs, fileOffset, dest, n)
    /\ memory' = [a \in Memory |-> IF whole /\ a \in dest..(dest + n - 1)
                                   THEN fileOffset + (a - dest) ELSE memory[a]]
    /\ UNCHANGED <<call, whole>>

-----------------------------------------------------------------------------
(* ts_memcpy_traced.  memcpy's two areas are disjoint.                       *)

Found(start, tail) == {b \in recs : overlapRecBegBigger(start, tail, b) = 0}

\* Mutation of insertDest: the record stays where it was.
InsertAtSource(c, b) == b.startMemory

insertDest(c, b) == c.dest + (b.startMemory - c.src)

\* Mutation of copyLen: the larger of the two ends.
CopyLenLarger(c, b) ==
    (IF b.tailMemory < c.src + c.n THEN c.src + c.n ELSE b.tailMemory) - c.src

\* Mutation of copyLen: counted from the destination (the line commented out).
CopyLenFromDest(c, b) ==
    (IF b.tailMemory < c.src + c.n THEN b.tailMemory ELSE c.src + c.n) - insertDest(c, b)

\* The smaller of the two ends, counted from src.
copyLen(c, b) ==
    (IF b.tailMemory < c.src + c.n THEN b.tailMemory ELSE c.src + c.n) - c.src

(* A traced copy is whole if one record holds all of its source and begins
   with it, and no other record begins at its end, nor does the destination. *)
WholeCopy(dest, src, n) ==
    /\ dest # src + n
    /\ \E b \in recs : /\ Found(src, src + n) = {b}
                       /\ b.startMemory = src
                       /\ b.tailMemory >= src + n

TracedCall(dest, src, n) ==
    /\ Ready
    /\ dest + n <= src \/ src + n <= dest
    /\ call' = [op |-> "copy", dest |-> dest, src |-> src, n |-> n]
    /\ whole' = (whole /\ WholeCopy(dest, src, n))
    /\ memory' = [a \in Memory |-> IF ~whole' THEN Other
                                   ELSE IF a \in dest..(dest + n - 1)
                                   THEN memory[src + (a - dest)] ELSE memory[a]]
    /\ UNCHANGED <<recs, stopped>>

InCopy == call.op = "copy" /\ ~stopped

\* One turn of the loop: a record found in the source is moved.
MoveRec(b) ==
    /\ InCopy
    /\ b \in Found(call.src, call.src + call.n)
    /\ insertRec(recs \ {b}, b.fileOffset, insertDest(call, b), copyLen(call, b))
    /\ UNCHANGED <<call, memory, whole>>

TracedReturn ==
    /\ InCopy
    /\ Found(call.src, call.src + call.n) = {}
    /\ call' = Idle
    /\ UNCHANGED <<recs, stopped, memory, whole>>

-----------------------------------------------------------------------------
(* ts_write: do_ts_write goes through the records that begin in the buffer.
   How long a record and its file agree is any length that cmpWrite compares,
   which goes on to the end of the buffer.                                   *)

WriteCall(buf, length) ==
    /\ Ready
    /\ call' = [op |-> "write", buf |-> buf, startMemory |-> buf,
                tailMemory |-> buf + length, compared |-> {}, same |-> 0,
                ranOver |-> FALSE]
    /\ UNCHANGED <<recs, stopped, memory, whole>>

InWrite == call.op = "write"

\* Mutations of nextStart: a byte more is passed over; the record itself is not.
NextStartFar(b) == b.tailMemory + 2
NextStartSame(b) == b.startMemory

nextStart(b) == b.tailMemory + 1

\* The break: nothing of the buffer is left behind the last record.
Broken == call.compared # {} /\ call.startMemory >= call.tailMemory

cmpWrite(b) ==
    /\ InWrite /\ ~Broken
    /\ b \in Found(call.startMemory, call.tailMemory)
    /\ \E addLen \in 0..(call.tailMemory - b.startMemory) :
          call' = [call EXCEPT !.startMemory = nextStart(b),
                               !.compared = @ \cup {b},
                               !.same = @ + addLen,
                               !.ranOver = @ \/ b.startMemory + addLen > b.tailMemory]
    /\ UNCHANGED <<recs, stopped, memory, whole>>

WriteReturn ==
    /\ InWrite
    /\ Broken \/ Found(call.startMemory, call.tailMemory) = {}
    /\ call' = Idle
    /\ UNCHANGED <<recs, stopped, memory, whole>>

-----------------------------------------------------------------------------
Areas == {area \in Memory \X (0..MaxLen) : area[1] + area[2] <= Size}

Loop ==
    \/ \E b \in recs : MoveRec(b) \/ cmpWrite(b)
    \/ TracedReturn \/ WriteReturn

Next ==
    \/ \E area \in Areas :
          \/ \E off \in 0..(FileLen - area[2]) : ts_memcpy(area[1], off, area[2])
          \/ \E src \in 0..(Size - area[2]) : TracedCall(area[1], src, area[2])
          \/ WriteCall(area[1], area[2])
    \/ Loop

Spec == Init /\ [][Next]_vars

\* The thread in a call goes on with it.
FairSpec == Spec /\ WF_vars(Loop)

-----------------------------------------------------------------------------
(* Properties.                                                               *)

Rec == [startMemory : Nat, tailMemory : Nat, fileOffset : Nat]

TypeOK ==
    /\ recs \subseteq Rec
    /\ \A b \in recs : b.startMemory < b.tailMemory
    /\ stopped \in BOOLEAN
    /\ memory \in [Memory -> Nat \cup {Other}]
    /\ call.op \in {"none", "copy", "write"}

(* insertRec takes out what overlaps (awn.c:231): no two records of the tree
   overlap, after any sequence of copies, whatever length copyLen computes.  *)
RecordsDisjoint ==
    \A b, c \in recs : b # c => b.tailMemory <= c.startMemory
                                  \/ c.tailMemory <= b.startMemory

(* The assertion of deleteRec fails only for a copy of no bytes: never in the
   middle of a traced copy that has something to move.                       *)
HaltsOnlyOnEmpty == stopped /\ call.op = "copy" => call.n = 0

(* As long as every traced copy was whole, what a record says of the memory is
   what was last copied there (awn.c:1272 counts the length from src).       *)
TruthfulWhenWhole ==
    whole /\ call.op # "copy" =>
        \A b \in recs : \A a \in b.startMemory..(b.tailMemory - 1) :
            a \in Memory /\ memory[a] = b.fileOffset + (a - b.startMemory)

(* do_ts_write assumes that tfind searches from head to tail (awn.c:774).  It
   misses a record of the buffer only if one behind it was found first, or if
   it begins where one ends: the next search starts a byte behind the tail.  *)
MissesOnlyBehind ==
    InWrite /\ (Broken \/ Found(call.startMemory, call.tailMemory) = {}) =>
        \A r \in recs :
            call.buf <= r.startMemory /\ r.startMemory < call.tailMemory
                => \E b \in call.compared :
                       r.startMemory <= b.startMemory \/ r.startMemory = b.tailMemory

(* The bytes reported the same are at most the bytes written, as long as the
   record and the file did not agree beyond the record: cmpWrite compares to
   the end of the buffer, and what follows is compared again.                *)
SameWithinRecords ==
    InWrite /\ ~call.ranOver => call.same <= call.tailMemory - call.buf

(* The loops end: a record that was moved may be found again, at the end of
   the source, but no record for ever.                                       *)
CallEnds == call # Idle ~> (call = Idle \/ stopped)
=============================================================================
