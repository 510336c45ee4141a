---------------------------- MODULE BaseRecProofs ----------------------------
(* What holds of BaseRec for every size of the memory and of the file.      *)
EXTENDS BaseRec, TLAPS

\* The records of a tree: not empty, no two overlap.
Apart(b, c) == b.tailMemory <= c.startMemory \/ c.tailMemory <= b.startMemory
Tree(S) ==
    /\ S \subseteq Rec
    /\ \A b \in S : b.startMemory < b.tailMemory
    /\ \A b, c \in S : b # c => Apart(b, c)

CopyCalls == [op : {"copy"}, dest : Nat, src : Nat, n : Nat]
WriteCalls == [op : {"write"}, buf : Nat, startMemory : Nat, tailMemory : Nat,
               compared : SUBSET Rec, same : Nat, ranOver : BOOLEAN]

-----------------------------------------------------------------------------
(* Insertion.                                                                *)

NewRec(fileOffset, dest, length) ==
    [startMemory |-> dest, tailMemory |-> dest + length, fileOffset |-> fileOffset]

(* Which records a search may find.                                          *)
LEMMA FoundBetween ==
    ASSUME NEW start \in Nat, NEW tail \in Nat, start <= tail, NEW b \in Rec
    PROVE  overlapRecBegBigger(start, tail, b) = 0
              <=> (start <= b.startMemory /\ b.startMemory <= tail)
  BY DEF overlapRecBegBigger, Rec

(* What is left of a tree lies outside the area of the new record.           *)
LEMMA DeletedOutside ==
    ASSUME NEW S, Tree(S), NEW dest \in Nat, NEW length \in Nat \ {0},
           NEW b \in deleteRec(S, dest, length)
    PROVE  b \in S /\ (b.tailMemory <= dest \/ dest + length <= b.startMemory)
<1>1. b \in S /\ b \in Rec /\ b.startMemory < b.tailMemory
         /\ overlapRec(dest, dest + length, b) # 0
  BY DEF deleteRec, Tree
<1> QED BY <1>1 DEF overlapRec, Rec

(* The tree after an insertion is a tree again.                              *)
LEMMA InsertedTree ==
    ASSUME NEW S, Tree(S), NEW dest \in Nat, NEW length \in Nat \ {0},
           NEW fileOffset \in Nat
    PROVE  Tree(deleteRec(S, dest, length) \cup {NewRec(fileOffset, dest, length)})
<1> DEFINE new == NewRec(fileOffset, dest, length)
           T == deleteRec(S, dest, length) \cup {new}
<1>1. new \in Rec /\ new.startMemory = dest /\ new.tailMemory = dest + length
  BY DEF NewRec, Rec
<1>2. \A b \in deleteRec(S, dest, length) : b \in S /\ Apart(b, new) /\ Apart(new, b)
  BY DeletedOutside, <1>1 DEF Apart
<1>3. T \subseteq Rec
  BY <1>1, <1>2 DEF Tree
<1>4. ASSUME NEW b \in T PROVE b.startMemory < b.tailMemory
  BY <1>1, <1>2, <1>4 DEF Tree
<1>5. ASSUME NEW b \in T, NEW c \in T, b # c PROVE Apart(b, c)
  <2>1. CASE b = new
    BY <2>1, <1>2, <1>5
  <2>2. CASE c = new
    BY <2>2, <1>2, <1>5
  <2>3. CASE b # new /\ c # new
    BY <2>3, <1>2, <1>5 DEF Tree
  <2> QED BY <2>1, <2>2, <2>3
<1> HIDE DEF T
<1>6. Tree(T)
  BY <1>3, <1>4, <1>5 DEF Tree
<1> QED BY <1>6 DEF T

(* insertRec as a step.                                                      *)
LEMMA InsertRecStep ==
    ASSUME NEW S, Tree(S), NEW dest \in Nat, NEW length \in Int,
           NEW fileOffset \in Nat, insertRec(S, fileOffset, dest, length)
    PROVE  /\ Tree(recs')
           /\ \/ /\ length > 0 /\ stopped' = stopped
                 /\ recs' = deleteRec(S, dest, length)
                              \cup {NewRec(fileOffset, dest, length)}
              \/ length <= 0 /\ stopped' = TRUE /\ recs' = S
<1>1. CASE length > 0
  <2>1. /\ recs' = deleteRec(S, dest, length) \cup {NewRec(fileOffset, dest, length)}
        /\ stopped' = stopped
    BY <1>1 DEF insertRec, assertRec, NewRec
  <2> QED BY <1>1, <2>1, InsertedTree
<1>2. CASE length <= 0
  BY <1>2 DEF insertRec, assertRec
<1>3. length > 0 \/ length <= 0
  OBVIOUS
<1> QED BY <1>1, <1>2, <1>3

-----------------------------------------------------------------------------
(* The state.                                                                *)

Inv ==
    /\ Tree(recs)
    /\ stopped \in BOOLEAN /\ whole \in BOOLEAN
    /\ memory \in [Memory -> Nat \cup {Other}]
    /\ call \in {Idle} \cup CopyCalls \cup WriteCalls
    /\ HaltsOnlyOnEmpty

LEMMA CallKinds ==
    ASSUME Inv
    PROVE  /\ call.op = "copy" <=> call \in CopyCalls
           /\ call.op = "write" <=> call \in WriteCalls
           /\ Idle.op = "none"
           /\ call.op \in {"none", "copy", "write"}
<1>1. Idle.op = "none"
  BY DEF Idle
<1>2. \A c \in CopyCalls : c.op = "copy"
  BY DEF CopyCalls
<1>3. \A c \in WriteCalls : c.op = "write"
  BY DEF WriteCalls
<1> QED BY <1>1, <1>2, <1>3 DEF Inv

(* The numbers of a call.                                                    *)
LEMMA AreaNumbers ==
    ASSUME NEW area \in Areas
    PROVE  /\ area[1] \in Nat /\ area[2] \in Nat
           /\ area[1] + area[2] <= Size /\ Size \in Nat /\ FileLen \in Nat
           /\ \A a \in area[1]..(area[1] + area[2] - 1) : a \in Memory
  BY SizesAssumption DEF Areas, Memory

(* A record that is found in the source, and what is computed for it.        *)
LEMMA MovedNumbers ==
    ASSUME Inv, InCopy, NEW b \in Found(call.src, call.src + call.n)
    PROVE  /\ call \in CopyCalls /\ b \in recs /\ b \in Rec
           /\ b.startMemory < b.tailMemory
           /\ call.src <= b.startMemory /\ b.startMemory <= call.src + call.n
           /\ insertDest(call, b) \in Nat /\ copyLen(call, b) \in Int
           /\ call.n # 0 => copyLen(call, b) > 0
           /\ Tree(recs \ {b})
<1>1. call \in CopyCalls
  BY CallKinds DEF InCopy
<1>2. /\ call.src \in Nat /\ call.n \in Nat /\ call.dest \in Nat
  BY <1>1 DEF CopyCalls
<1>3. /\ b \in recs /\ b \in Rec /\ b.startMemory < b.tailMemory
      /\ overlapRecBegBigger(call.src, call.src + call.n, b) = 0
  BY DEF Found, Inv, Tree
<1>4. call.src <= b.startMemory /\ b.startMemory <= call.src + call.n
  BY <1>2, <1>3, FoundBetween
<1>5. b.startMemory \in Nat /\ b.tailMemory \in Nat
  BY <1>3 DEF Rec
<1>6. Tree(recs \ {b})
  BY DEF Inv, Tree
<1>7. insertDest(call, b) \in Nat
  BY <1>2, <1>4, <1>5 DEF insertDest
<1>8. copyLen(call, b) \in Int /\ (call.n # 0 => copyLen(call, b) > 0)
  BY <1>2, <1>3, <1>4, <1>5 DEF copyLen
<1> QED BY <1>1, <1>3, <1>4, <1>6, <1>7, <1>8

LEMMA InvInit ==
    Init => Inv
<1> SUFFICES ASSUME Init PROVE Inv
  OBVIOUS
<1>1. Tree(recs)
  BY DEF Init, Tree
<1>2. memory \in [Memory -> Nat \cup {Other}]
  BY DEF Init
<1>3. HaltsOnlyOnEmpty
  BY DEF Init, HaltsOnlyOnEmpty
<1> QED BY <1>1, <1>2, <1>3 DEF Init, Inv

LEMMA InvMemcpy ==
    ASSUME Inv, NEW area \in Areas, NEW off \in 0..(FileLen - area[2]),
           ts_memcpy(area[1], off, area[2])
    PROVE  Inv'
<1>1. /\ area[1] \in Nat /\ area[2] \in Nat /\ off \in Nat
  BY AreaNumbers
<1>2. Tree(recs') /\ stopped' \in BOOLEAN
  <2>1. Tree(recs) /\ insertRec(recs, off, area[1], area[2]) /\ area[2] \in Int
    BY <1>1 DEF Inv, ts_memcpy
  <2>2. Tree(recs') /\ (stopped' = stopped \/ stopped' = TRUE)
    BY <1>1, <2>1, InsertRecStep
  <2>3. stopped \in BOOLEAN
    BY DEF Inv
  <2>4. CASE stopped' = stopped
    BY <2>2, <2>3, <2>4
  <2>5. CASE stopped' = TRUE
    BY <2>2, <2>5
  <2> QED BY <2>2, <2>4, <2>5
<1>3. memory' \in [Memory -> Nat \cup {Other}]
  <2>1. ASSUME NEW a \in Memory, a \in area[1]..(area[1] + area[2] - 1)
        PROVE  off + (a - area[1]) \in Nat
    BY <1>1, <2>1
  <2> QED BY <2>1 DEF Inv, ts_memcpy
<1>4. call' = Idle /\ call'.op = "none" /\ whole' = whole
  BY DEF ts_memcpy, Ready, Idle
<1>5. HaltsOnlyOnEmpty'
  BY <1>4 DEF HaltsOnlyOnEmpty
<1> QED BY <1>2, <1>3, <1>4, <1>5 DEF Inv

LEMMA InvTracedCall ==
    ASSUME Inv, NEW area \in Areas, NEW src \in 0..(Size - area[2]),
           TracedCall(area[1], src, area[2])
    PROVE  Inv'
<1>1. /\ area[1] \in Nat /\ area[2] \in Nat /\ src \in Nat
      /\ area[1] + area[2] <= Size /\ src + area[2] <= Size /\ Size \in Nat
  BY AreaNumbers
<1>2. call' \in CopyCalls
  BY <1>1 DEF TracedCall, CopyCalls
<1>3. whole' \in BOOLEAN
  BY DEF TracedCall, Inv
<1>4. memory' \in [Memory -> Nat \cup {Other}]
  <2>1. ASSUME NEW a \in Memory, a \in area[1]..(area[1] + area[2] - 1)
        PROVE  memory[src + (a - area[1])] \in Nat \cup {Other}
    <3>1. src + (a - area[1]) \in Memory
      BY <1>1, <2>1 DEF Memory
    <3> QED BY <3>1 DEF Inv
  <2> QED BY <2>1 DEF Inv, TracedCall
<1>5. HaltsOnlyOnEmpty'
  BY DEF TracedCall, Ready, HaltsOnlyOnEmpty
<1>6. recs' = recs /\ stopped' = stopped
  BY DEF TracedCall
<1> QED BY <1>2, <1>3, <1>4, <1>5, <1>6 DEF Inv, Tree

LEMMA InvMoveRec ==
    ASSUME Inv, NEW b \in recs, MoveRec(b)
    PROVE  Inv'
<1>1. InCopy /\ b \in Found(call.src, call.src + call.n) /\ b.fileOffset \in Nat
  BY DEF MoveRec, Inv, Tree, Rec
<1>2. insertRec(recs \ {b}, b.fileOffset, insertDest(call, b), copyLen(call, b))
  BY DEF MoveRec
<1>3. /\ Tree(recs \ {b}) /\ insertDest(call, b) \in Nat
      /\ copyLen(call, b) \in Int /\ (call.n # 0 => copyLen(call, b) > 0)
  BY <1>1, MovedNumbers
<1>4. Tree(recs') /\ stopped' \in BOOLEAN /\ (stopped' => call.n = 0)
  <2>1. /\ Tree(recs')
        /\ stopped' = stopped \/ (copyLen(call, b) <= 0 /\ stopped' = TRUE)
    BY <1>1, <1>2, <1>3, InsertRecStep
  <2>2. ~stopped
    BY <1>1 DEF InCopy
  <2>3. copyLen(call, b) <= 0 => call.n = 0
    BY <1>3
  <2>4. CASE stopped' = stopped
    BY <2>1, <2>2, <2>4 DEF Inv
  <2>5. CASE copyLen(call, b) <= 0 /\ stopped' = TRUE
    BY <2>1, <2>3, <2>5
  <2> QED BY <2>1, <2>4, <2>5
<1>5. UNCHANGED <<call, memory, whole>>
  BY DEF MoveRec
<1>6. HaltsOnlyOnEmpty'
  BY <1>4, <1>5 DEF HaltsOnlyOnEmpty
<1> QED BY <1>4, <1>5, <1>6 DEF Inv

LEMMA InvWrite ==
    ASSUME Inv, NEW area \in Areas, WriteCall(area[1], area[2])
    PROVE  Inv'
<1>1. area[1] \in Nat /\ area[2] \in Nat
  BY AreaNumbers
<1>2. call' \in WriteCalls /\ call'.op = "write"
  BY <1>1 DEF WriteCall, WriteCalls
<1>3. HaltsOnlyOnEmpty'
  BY <1>2 DEF HaltsOnlyOnEmpty
<1> QED BY <1>2, <1>3 DEF Inv, WriteCall, Tree

LEMMA InvCmpWrite ==
    ASSUME Inv, NEW b \in recs, cmpWrite(b)
    PROVE  Inv'
<1>1. call \in WriteCalls
  BY CallKinds DEF cmpWrite, InWrite
<1>2. b \in Rec /\ b.startMemory \in Nat /\ b.tailMemory \in Nat
  BY DEF Inv, Tree, Rec
<1>3. call' \in WriteCalls /\ call'.op = "write"
  <2>1. PICK addLen \in 0..(call.tailMemory - b.startMemory) :
           call' = [call EXCEPT !.startMemory = nextStart(b),
                                !.compared = @ \cup {b},
                                !.same = @ + addLen,
                                !.ranOver = @ \/ b.startMemory + addLen > b.tailMemory]
    BY DEF cmpWrite
  <2>2. /\ addLen \in Nat /\ call.same + addLen \in Nat
        /\ (call.ranOver \/ b.startMemory + addLen > b.tailMemory) \in BOOLEAN
    BY <1>1, <1>2 DEF WriteCalls
  <2>3. nextStart(b) \in Nat /\ call.compared \cup {b} \in SUBSET Rec
    BY <1>1, <1>2 DEF WriteCalls, nextStart
  <2> QED BY <1>1, <2>1, <2>2, <2>3 DEF WriteCalls
<1>4. HaltsOnlyOnEmpty'
  BY <1>3 DEF HaltsOnlyOnEmpty
<1> QED BY <1>3, <1>4 DEF Inv, cmpWrite, Tree

LEMMA InvReturn ==
    ASSUME Inv, TracedReturn \/ WriteReturn
    PROVE  Inv'
<1>1. call' = Idle /\ UNCHANGED <<recs, stopped, memory, whole>>
  BY DEF TracedReturn, WriteReturn
<1>2. HaltsOnlyOnEmpty'
  BY <1>1 DEF HaltsOnlyOnEmpty, Idle
<1> QED BY <1>1, <1>2 DEF Inv

LEMMA InvStep ==
    Inv /\ [Next]_vars => Inv'
<1> SUFFICES ASSUME Inv, [Next]_vars PROVE Inv'
  OBVIOUS
<1>1. ASSUME NEW area \in Areas, NEW off \in 0..(FileLen - area[2]),
             ts_memcpy(area[1], off, area[2])
      PROVE  Inv'
  BY <1>1, InvMemcpy
<1>2. ASSUME NEW area \in Areas, NEW src \in 0..(Size - area[2]),
             TracedCall(area[1], src, area[2])
      PROVE  Inv'
  BY <1>2, InvTracedCall
<1>3. ASSUME NEW area \in Areas, WriteCall(area[1], area[2]) PROVE Inv'
  BY <1>3, InvWrite
<1>4. ASSUME NEW b \in recs, MoveRec(b) PROVE Inv'
  BY <1>4, InvMoveRec
<1>5. ASSUME NEW b \in recs, cmpWrite(b) PROVE Inv'
  BY <1>5, InvCmpWrite
<1>6. CASE TracedReturn \/ WriteReturn
  BY <1>6, InvReturn
<1>7. CASE UNCHANGED vars
  BY <1>7 DEF Inv, vars, HaltsOnlyOnEmpty, Tree
<1> QED BY <1>1, <1>2, <1>3, <1>4, <1>5, <1>6, <1>7 DEF Next, Loop

LEMMA InvAlways ==
    Spec => []Inv
<1> QED BY InvInit, InvStep, PTL DEF Spec

(* Whatever copies, traced copies and writes are made, the tree holds records
   that are not empty, and a call in progress has its numbers.               *)
THEOREM BaseTypeOK ==
    Spec => []TypeOK
<1>1. Inv => TypeOK
  BY CallKinds DEF Inv, TypeOK, Tree
<1> QED BY <1>1, InvAlways, PTL

(* No two records of the tree overlap (RecordsDisjoint), whatever the length
   that a traced copy computes.                                              *)
THEOREM BaseRecordsDisjoint ==
    Spec => []RecordsDisjoint
<1>1. Inv => RecordsDisjoint
  BY DEF Inv, RecordsDisjoint, Tree, Apart
<1> QED BY <1>1, InvAlways, PTL

(* The assertion of deleteRec fails in a traced copy only if it copies no
   bytes (HaltsOnlyOnEmpty).                                                 *)
THEOREM BaseHaltsOnlyOnEmpty ==
    Spec => []HaltsOnlyOnEmpty
<1>1. Inv => HaltsOnlyOnEmpty
  BY DEF Inv
<1> QED BY <1>1, InvAlways, PTL

-----------------------------------------------------------------------------
(* Writes.  What the loop has passed over so far, and what it has counted.   *)

PassedOver(r) == call.buf <= r.startMemory /\ r.startMemory < call.tailMemory
                   /\ r.startMemory < call.startMemory
ExcusedBy(r, b) == r.startMemory <= b.startMemory \/ r.startMemory = b.tailMemory

WriteInv ==
    InWrite =>
        /\ call.buf <= call.startMemory /\ call.buf <= call.tailMemory
        /\ ~call.ranOver => call.same <= call.startMemory - call.buf
                              /\ call.same <= call.tailMemory - call.buf
        /\ \A r \in recs : PassedOver(r) => \E b \in call.compared : ExcusedBy(r, b)

LEMMA WriteInvCall ==
    ASSUME Inv, NEW area \in Areas, WriteCall(area[1], area[2])
    PROVE  WriteInv'
<1>1. area[1] \in Nat /\ area[2] \in Nat
  BY AreaNumbers
<1>2. /\ call'.buf = area[1] /\ call'.startMemory = area[1]
      /\ call'.tailMemory = area[1] + area[2] /\ call'.same = 0
  BY DEF WriteCall
<1>3. recs' = recs /\ \A r \in recs : r.startMemory \in Nat
  BY DEF WriteCall, Inv, Tree, Rec
<1> QED BY <1>1, <1>2, <1>3 DEF WriteInv, PassedOver

LEMMA WriteInvCmp ==
    ASSUME Inv, WriteInv, NEW b \in recs, cmpWrite(b)
    PROVE  WriteInv'
<1>1. InWrite /\ call \in WriteCalls
  BY CallKinds DEF cmpWrite, InWrite
<1>2. /\ call.buf \in Nat /\ call.startMemory \in Nat /\ call.tailMemory \in Nat
      /\ call.same \in Nat /\ call.ranOver \in BOOLEAN
  BY <1>1 DEF WriteCalls
<1>3. /\ b \in Rec /\ b.startMemory \in Nat /\ b.tailMemory \in Nat
      /\ b.startMemory < b.tailMemory
  BY DEF Inv, Tree, Rec
<1>4. PICK addLen \in 0..(call.tailMemory - b.startMemory) :
         call' = [call EXCEPT !.startMemory = nextStart(b),
                              !.compared = @ \cup {b},
                              !.same = @ + addLen,
                              !.ranOver = @ \/ b.startMemory + addLen > b.tailMemory]
  BY DEF cmpWrite
<1>5. /\ call'.buf = call.buf /\ call'.tailMemory = call.tailMemory
      /\ call'.startMemory = b.tailMemory + 1
      /\ call'.compared = call.compared \cup {b}
      /\ call'.same = call.same + addLen
      /\ call'.ranOver = (call.ranOver \/ b.startMemory + addLen > b.tailMemory)
  BY <1>1, <1>4 DEF WriteCalls, nextStart
<1>6. call.startMemory <= b.startMemory
  <2>1. overlapRecBegBigger(call.startMemory, call.tailMemory, b) = 0
    BY DEF cmpWrite, Found
  <2> QED BY <2>1, <1>2, <1>3 DEF overlapRecBegBigger
<1>7. call'.buf <= call'.startMemory /\ call'.buf <= call'.tailMemory
  BY <1>1, <1>2, <1>3, <1>5, <1>6 DEF WriteInv
<1>8. ASSUME ~call'.ranOver
      PROVE  /\ call'.same <= call'.startMemory - call'.buf
             /\ call'.same <= call'.tailMemory - call'.buf
  <2>1. ~call.ranOver /\ ~(b.startMemory + addLen > b.tailMemory)
    BY <1>5, <1>8
  <2>2. call.same <= call.startMemory - call.buf
    BY <2>1, <1>1 DEF WriteInv
  <2>3. addLen \in Nat /\ b.startMemory + addLen <= b.tailMemory
           /\ b.startMemory + addLen <= call.tailMemory
    BY <2>1, <1>2, <1>3
  <2> QED BY <2>2, <2>3, <1>2, <1>3, <1>5, <1>6
<1>9. ASSUME NEW r \in recs, PassedOver(r)'
      PROVE  \E d \in call'.compared : ExcusedBy(r, d)
  <2>1. /\ r \in Rec /\ r.startMemory \in Nat /\ r.tailMemory \in Nat
        /\ r.startMemory < r.tailMemory
    BY DEF Inv, Tree, Rec
  <2>2. call.buf <= r.startMemory /\ r.startMemory < call.tailMemory
           /\ r.startMemory < b.tailMemory + 1
    BY <1>5, <1>9 DEF PassedOver
  <2>3. r # b => Apart(r, b)
    BY DEF Inv, Tree
  <2>4. ExcusedBy(r, b)
    BY <2>1, <2>2, <2>3, <1>3 DEF Apart, ExcusedBy
  <2> QED BY <2>4, <1>5
<1>10. recs' = recs
  BY DEF cmpWrite
<1>11. \A r \in recs' : PassedOver(r)' => \E d \in call'.compared : ExcusedBy(r, d)
  BY <1>9, <1>10
<1> QED BY <1>7, <1>8, <1>11 DEF WriteInv, ExcusedBy

LEMMA WriteInvStep ==
    Inv /\ WriteInv /\ [Next]_vars => WriteInv'
<1> SUFFICES ASSUME Inv, WriteInv, [Next]_vars PROVE WriteInv'
  OBVIOUS
<1>1. ASSUME NEW area \in Areas, WriteCall(area[1], area[2]) PROVE WriteInv'
  BY <1>1, WriteInvCall
<1>2. ASSUME NEW b \in recs, cmpWrite(b) PROVE WriteInv'
  BY <1>2, WriteInvCmp
<1>3. ASSUME NEW area \in Areas, NEW off \in 0..(FileLen - area[2]),
             ts_memcpy(area[1], off, area[2])
      PROVE  WriteInv'
  BY <1>3 DEF ts_memcpy, Ready, WriteInv, InWrite, Idle
<1>4. ASSUME NEW area \in Areas, NEW src \in 0..(Size - area[2]),
             TracedCall(area[1], src, area[2])
      PROVE  WriteInv'
  BY <1>4 DEF TracedCall, WriteInv, InWrite
<1>5. ASSUME NEW b \in recs, MoveRec(b) PROVE WriteInv'
  BY <1>5 DEF MoveRec, InCopy, WriteInv, InWrite
<1>6. CASE TracedReturn \/ WriteReturn
  BY <1>6 DEF TracedReturn, WriteReturn, WriteInv, InWrite, Idle
<1>7. CASE UNCHANGED vars
  BY <1>7 DEF vars, WriteInv, InWrite, PassedOver, ExcusedBy
<1> QED BY <1>1, <1>2, <1>3, <1>4, <1>5, <1>6, <1>7 DEF Next, Loop

LEMMA WriteInvAlways ==
    Spec => [](Inv /\ WriteInv)
<1>1. Init => WriteInv
  BY DEF Init, WriteInv, InWrite, Idle
<1> QED BY <1>1, InvInit, InvStep, WriteInvStep, PTL DEF Spec

(* Whatever order tfind goes in, a write passes over a record of its buffer
   only behind, or right at the end of, one that it compares
   (MissesOnlyBehind).                                                       *)
THEOREM BaseMissesOnlyBehind ==
    Spec => []MissesOnlyBehind
<1>1. Inv /\ WriteInv => MissesOnlyBehind
  <2> SUFFICES ASSUME Inv, WriteInv, InWrite,
                      Broken \/ Found(call.startMemory, call.tailMemory) = {},
                      NEW r \in recs,
                      call.buf <= r.startMemory, r.startMemory < call.tailMemory
               PROVE  \E b \in call.compared : ExcusedBy(r, b)
    BY DEF MissesOnlyBehind, ExcusedBy
  <2>1. /\ call.startMemory \in Nat /\ call.tailMemory \in Nat
        /\ r.startMemory \in Nat
    BY CallKinds DEF InWrite, WriteCalls, Inv, Tree, Rec
  <2>2. r.startMemory < call.startMemory
    <3>1. CASE Broken
      BY <3>1, <2>1 DEF Broken
    <3>2. CASE Found(call.startMemory, call.tailMemory) = {}
      <4>1. overlapRecBegBigger(call.startMemory, call.tailMemory, r) # 0
        BY <3>2 DEF Found
      <4> QED BY <4>1, <2>1 DEF overlapRecBegBigger
    <3> QED BY <3>1, <3>2
  <2> QED BY <2>2 DEF WriteInv, PassedOver
<1> QED BY <1>1, WriteInvAlways, PTL

(* A write reports no more bytes the same than it wrote, as long as no record
   agreed with its file beyond its tail (SameWithinRecords).                 *)
THEOREM BaseSameWithinRecords ==
    Spec => []SameWithinRecords
<1>1. Inv /\ WriteInv => SameWithinRecords
  BY DEF WriteInv, SameWithinRecords
<1> QED BY <1>1, WriteInvAlways, PTL

-----------------------------------------------------------------------------
(* Truth of the records.  A whole copy moves one record once; before it does,
   the records are true but for the destination, and the destination holds
   what that record says of the source.                                      *)

Area(b) == b.startMemory..(b.tailMemory - 1)
TrueAt(b, a) == a \in Memory /\ memory[a] = b.fileOffset + (a - b.startMemory)
Truth == \A b \in recs : \A a \in Area(b) : TrueAt(b, a)

Dest == call.dest..(call.dest + call.n - 1)

Unmoved ==
    /\ call.dest # call.src + call.n
    /\ call.dest + call.n <= call.src \/ call.src + call.n <= call.dest
    /\ \E b \in recs : /\ Found(call.src, call.src + call.n) = {b}
                       /\ b.startMemory = call.src
                       /\ b.tailMemory >= call.src + call.n
    /\ \A b \in recs : \A a \in Area(b) :
          a \in Memory /\ (a \notin Dest => TrueAt(b, a))
    /\ \A a \in Dest : a \in Memory /\ memory[a] = memory[call.src + (a - call.dest)]

TruthInv ==
    whole =>
        /\ call.op # "copy" => Truth
        /\ InCopy => Unmoved \/ (Truth /\ Found(call.src, call.src + call.n) = {})

LEMMA TruthMemcpy ==
    ASSUME Inv, TruthInv, NEW area \in Areas, NEW off \in 0..(FileLen - area[2]),
           ts_memcpy(area[1], off, area[2])
    PROVE  TruthInv'
<1> DEFINE dest == area[1]
           n == area[2]
<1>1. dest \in Nat /\ n \in Nat /\ n \in Int /\ off \in Nat
  BY AreaNumbers
<1>2. Tree(recs) /\ insertRec(recs, off, dest, n)
  BY DEF Inv, ts_memcpy
<1>3. call' = call /\ call.op = "none" /\ whole' = whole
  BY DEF ts_memcpy, Ready, Idle
<1>4. SUFFICES ASSUME whole PROVE Truth'
  BY <1>3 DEF TruthInv, InCopy
<1>5. Truth
  BY <1>3, <1>4 DEF TruthInv
<1>6. /\ \A a \in Memory : a \in dest..(dest + n - 1) => memory'[a] = off + (a - dest)
      /\ \A a \in Memory : a \notin dest..(dest + n - 1) => memory'[a] = memory[a]
  BY <1>4 DEF ts_memcpy
<1> HIDE DEF dest, n
<1>7. \/ n > 0 /\ recs' = deleteRec(recs, dest, n) \cup {NewRec(off, dest, n)}
      \/ n <= 0 /\ recs' = recs
  BY <1>1, <1>2, InsertRecStep
<1>8. CASE n > 0 /\ recs' = deleteRec(recs, dest, n) \cup {NewRec(off, dest, n)}
  <2>1. n \in Nat \ {0}
    BY <1>1, <1>8
  <2>2. ASSUME NEW a \in Area(NewRec(off, dest, n)) PROVE TrueAt(NewRec(off, dest, n), a)'
    <3>1. a \in dest..(dest + n - 1) /\ NewRec(off, dest, n).fileOffset = off
            /\ NewRec(off, dest, n).startMemory = dest
      BY <1>1, <2>2 DEF Area, NewRec
    <3>2. a \in Memory
      BY <3>1, AreaNumbers DEF dest, n
    <3> QED BY <3>1, <3>2, <1>6 DEF TrueAt
  <2>3. ASSUME NEW b \in deleteRec(recs, dest, n), NEW a \in Area(b)
        PROVE  TrueAt(b, a)'
    <3>1. b \in recs /\ (b.tailMemory <= dest \/ dest + n <= b.startMemory)
      BY <1>1, <1>2, <2>1, DeletedOutside
    <3>2. b.startMemory \in Nat /\ b.tailMemory \in Nat
      BY <3>1, <1>2 DEF Tree, Rec
    <3>3. a \notin dest..(dest + n - 1)
      BY <3>1, <3>2, <2>3, <1>1 DEF Area
    <3>4. TrueAt(b, a)
      BY <3>1, <2>3, <1>5 DEF Truth
    <3> QED BY <3>3, <3>4, <1>6 DEF TrueAt
  <2> QED BY <1>8, <2>2, <2>3 DEF Truth, Area
<1>9. CASE n <= 0 /\ recs' = recs
  <2>2. \A a \in Memory : memory'[a] = memory[a]
    BY <1>1, <1>6, <1>9
  <2> QED BY <1>9, <2>2, <1>5 DEF Truth, TrueAt, Area
<1> QED BY <1>7, <1>8, <1>9

LEMMA TruthTracedCall ==
    ASSUME Inv, TruthInv, NEW area \in Areas, NEW src \in 0..(Size - area[2]),
           TracedCall(area[1], src, area[2])
    PROVE  TruthInv'
<1> DEFINE dest == area[1]
           n == area[2]
<1>1. /\ dest \in Nat /\ n \in Nat /\ src \in Nat
      /\ dest + n <= Size /\ src + n <= Size /\ Size \in Nat
  BY AreaNumbers
<1>2. /\ recs' = recs /\ call'.op = "copy" /\ call'.dest = dest /\ call'.src = src
      /\ call'.n = n /\ call.op = "none"
  BY DEF TracedCall, Ready, Idle
<1>3. SUFFICES ASSUME whole' PROVE Unmoved'
  BY <1>2 DEF TruthInv
<1>4. whole /\ WholeCopy(dest, src, n)
  BY <1>3 DEF TracedCall
<1>5. Truth
  BY <1>2, <1>4 DEF TruthInv
<1>6. /\ \A a \in Memory : a \in dest..(dest + n - 1)
            => memory'[a] = memory[src + (a - dest)]
      /\ \A a \in Memory : a \notin dest..(dest + n - 1) => memory'[a] = memory[a]
  BY <1>3 DEF TracedCall
<1>7. dest # src + n /\ (dest + n <= src \/ src + n <= dest)
  BY <1>4 DEF TracedCall, WholeCopy
<1> HIDE DEF dest, n
<1>8. \E b \in recs' : /\ Found(src, src + n)' = {b}
                       /\ b.startMemory = src
                       /\ b.tailMemory >= src + n
  <2>1. Found(src, src + n)' = Found(src, src + n)
    BY <1>2 DEF Found
  <2> QED BY <2>1, <1>2, <1>4 DEF WholeCopy
<1>9. ASSUME NEW b \in recs, NEW a \in Area(b)
      PROVE  a \in Memory /\ (a \notin dest..(dest + n - 1) => TrueAt(b, a)')
  BY <1>5, <1>6, <1>9 DEF Truth, TrueAt
<1>10. ASSUME NEW a \in dest..(dest + n - 1)
       PROVE  a \in Memory /\ memory'[a] = memory'[src + (a - dest)]
  <2>1. /\ a \in Memory /\ src + (a - dest) \in Memory
        /\ src + (a - dest) \notin dest..(dest + n - 1)
    BY <1>1, <1>7, <1>10 DEF Memory
  <2> QED BY <2>1, <1>6
<1>11. Dest' = dest..(dest + n - 1)
  BY <1>2 DEF Dest
<1> QED BY <1>2, <1>7, <1>8, <1>9, <1>10, <1>11 DEF Unmoved, Area

LEMMA TruthMoveRec ==
    ASSUME Inv, TruthInv, NEW b \in recs, MoveRec(b)
    PROVE  TruthInv'
<1>1. /\ InCopy /\ b \in Found(call.src, call.src + call.n)
      /\ insertRec(recs \ {b}, b.fileOffset, insertDest(call, b), copyLen(call, b))
      /\ call' = call /\ memory' = memory /\ whole' = whole /\ call.op = "copy"
  BY DEF MoveRec, InCopy
<1>2. /\ call.src \in Nat /\ call.n \in Nat /\ call.dest \in Nat
      /\ b.startMemory \in Nat /\ b.tailMemory \in Nat /\ b.fileOffset \in Nat
      /\ Tree(recs \ {b})
  BY <1>1, MovedNumbers DEF CopyCalls, Rec
<1>3. SUFFICES ASSUME whole, ~stopped'
               PROVE  Truth' /\ Found(call.src, call.src + call.n)' = {}
  BY <1>1 DEF TruthInv, InCopy
<1>4. Unmoved
  BY <1>1, <1>3 DEF TruthInv
<1>5. /\ Found(call.src, call.src + call.n) = {b}
      /\ b.startMemory = call.src /\ b.tailMemory >= call.src + call.n
  BY <1>1, <1>4 DEF Unmoved
<1>6. insertDest(call, b) = call.dest /\ copyLen(call, b) = call.n
  BY <1>2, <1>5 DEF insertDest, copyLen
<1>7. /\ call.n > 0
      /\ recs' = deleteRec(recs \ {b}, call.dest, call.n)
                   \cup {NewRec(b.fileOffset, call.dest, call.n)}
  <2>1. insertRec(recs \ {b}, b.fileOffset, call.dest, call.n) /\ call.n \in Int
    BY <1>1, <1>2, <1>6
  <2> QED BY <2>1, <1>2, <1>3, InsertRecStep
<1> DEFINE new == NewRec(b.fileOffset, call.dest, call.n)
<1>8. /\ new.startMemory = call.dest /\ new.tailMemory = call.dest + call.n
      /\ new.fileOffset = b.fileOffset
  BY DEF NewRec
<1> HIDE DEF new
<1>9. ASSUME NEW r \in deleteRec(recs \ {b}, call.dest, call.n)
      PROVE  /\ r \in recs /\ r # b
             /\ r.startMemory \in Nat /\ r.tailMemory \in Nat
             /\ r.tailMemory <= call.dest \/ call.dest + call.n <= r.startMemory
  <2>1. /\ r \in recs \ {b}
        /\ r.tailMemory <= call.dest \/ call.dest + call.n <= r.startMemory
    BY <1>2, <1>7, DeletedOutside
  <2> QED BY <2>1, <1>2 DEF Tree, Rec
<1>10. Truth'
  <2>1. ASSUME NEW a \in Area(new) PROVE TrueAt(new, a)
    <3>1. a \in Dest
      BY <1>2, <1>8, <2>1 DEF Area, Dest
    <3>2. /\ a \in Memory /\ memory[a] = memory[call.src + (a - call.dest)]
          /\ call.dest + call.n <= call.src \/ call.src + call.n <= call.dest
      BY <3>1, <1>4 DEF Unmoved
    <3>3. /\ call.src + (a - call.dest) \in Area(b)
          /\ call.src + (a - call.dest) \notin Dest /\ a \in Int
      BY <3>1, <3>2, <1>2, <1>5 DEF Area, Dest
    <3>4. memory[call.src + (a - call.dest)]
             = b.fileOffset + ((call.src + (a - call.dest)) - b.startMemory)
      BY <3>3, <1>4 DEF Unmoved, TrueAt
    <3>5. memory[a] = b.fileOffset + (a - call.dest)
      BY <3>2, <3>3, <3>4, <1>2, <1>5
    <3> QED BY <3>2, <3>5, <1>8 DEF TrueAt
  <2>2. ASSUME NEW r \in deleteRec(recs \ {b}, call.dest, call.n), NEW a \in Area(r)
        PROVE  TrueAt(r, a)
    <3>1. /\ r \in recs /\ r.startMemory \in Nat /\ r.tailMemory \in Nat
          /\ r.tailMemory <= call.dest \/ call.dest + call.n <= r.startMemory
      BY <1>9, <2>2
    <3>2. a \in r.startMemory..(r.tailMemory - 1)
      BY <2>2 DEF Area
    <3>3. a \notin Dest
      BY <1>2, <3>1, <3>2 DEF Dest
    <3> QED BY <3>1, <3>3, <2>2, <1>4 DEF Unmoved
  <2> QED BY <2>1, <2>2, <1>1, <1>7 DEF Truth, TrueAt, Area, new
<1>11. Found(call.src, call.src + call.n)' = {}
  <2>1. overlapRecBegBigger(call.src, call.src + call.n, new) # 0
    BY <1>2, <1>4, <1>7, <1>8 DEF overlapRecBegBigger, Unmoved
  <2>2. ASSUME NEW r \in deleteRec(recs \ {b}, call.dest, call.n)
        PROVE  overlapRecBegBigger(call.src, call.src + call.n, r) # 0
    BY <1>5, <1>9 DEF Found
  <2> QED BY <2>1, <2>2, <1>1, <1>7 DEF Found, new
<1> QED BY <1>10, <1>11

LEMMA TruthReturn ==
    ASSUME Inv, TruthInv, TracedReturn \/ WriteReturn
    PROVE  TruthInv'
<1>1. /\ call' = Idle /\ call'.op = "none" /\ recs' = recs /\ memory' = memory
      /\ whole' = whole
  BY DEF TracedReturn, WriteReturn, Idle
<1>2. SUFFICES ASSUME whole PROVE Truth
  BY <1>1 DEF TruthInv, InCopy, Truth, TrueAt, Area
<1>3. CASE TracedReturn
  <2>1. InCopy /\ Found(call.src, call.src + call.n) = {}
    BY <1>3 DEF TracedReturn
  <2>2. ~Unmoved
    BY <2>1 DEF Unmoved
  <2> QED BY <1>2, <2>1, <2>2 DEF TruthInv
<1>4. CASE WriteReturn
  BY <1>2, <1>4 DEF WriteReturn, InWrite, TruthInv
<1> QED BY <1>3, <1>4

LEMMA TruthStep ==
    Inv /\ TruthInv /\ [Next]_vars => TruthInv'
<1> SUFFICES ASSUME Inv, TruthInv, [Next]_vars PROVE TruthInv'
  OBVIOUS
<1>1. ASSUME NEW area \in Areas, NEW off \in 0..(FileLen - area[2]),
             ts_memcpy(area[1], off, area[2])
      PROVE  TruthInv'
  BY <1>1, TruthMemcpy
<1>2. ASSUME NEW area \in Areas, NEW src \in 0..(Size - area[2]),
             TracedCall(area[1], src, area[2])
      PROVE  TruthInv'
  BY <1>2, TruthTracedCall
<1>3. ASSUME NEW area \in Areas, WriteCall(area[1], area[2]) PROVE TruthInv'
  <2>1. /\ call.op = "none" /\ call'.op = "write" /\ recs' = recs
        /\ memory' = memory /\ whole' = whole
    BY <1>3 DEF WriteCall, Ready, Idle
  <2> QED BY <2>1 DEF TruthInv, InCopy, Truth, TrueAt, Area
<1>4. ASSUME NEW b \in recs, MoveRec(b) PROVE TruthInv'
  BY <1>4, TruthMoveRec
<1>5. ASSUME NEW b \in recs, cmpWrite(b) PROVE TruthInv'
  <2>1. call.op = "write" /\ recs' = recs /\ memory' = memory /\ whole' = whole
    BY <1>5 DEF cmpWrite, InWrite
  <2>2. call'.op = "write"
    <3>1. call \in WriteCalls
      BY <2>1, CallKinds
    <3> QED BY <3>1, <2>1, <1>5 DEF cmpWrite, WriteCalls
  <2> QED BY <2>1, <2>2 DEF TruthInv, InCopy, Truth, TrueAt, Area
<1>6. CASE TracedReturn \/ WriteReturn
  BY <1>6, TruthReturn
<1>7. CASE UNCHANGED vars
  BY <1>7 DEF vars, TruthInv, InCopy, Truth, TrueAt, Area, Unmoved, Dest, Found
<1> QED BY <1>1, <1>2, <1>3, <1>4, <1>5, <1>6, <1>7 DEF Next, Loop

(* As long as every traced copy is whole, the records say of every byte what
   was last copied there (TruthfulWhenWhole), across any number of copies.   *)
THEOREM BaseTruthfulWhenWhole ==
    Spec => []TruthfulWhenWhole
<1>1. Init => TruthInv
  BY DEF Init, TruthInv, Truth, InCopy, Idle
<1>2. TruthInv => TruthfulWhenWhole
  BY DEF TruthInv, TruthfulWhenWhole, Truth, TrueAt, Area
<1> QED BY <1>1, <1>2, InvInit, InvStep, TruthStep, PTL DEF Spec
=============================================================================
