---------------------------- MODULE TsWriteProofs ----------------------------
(* What holds of a traced write for every size of page, length of the write,
   placing of records and outcome of the comparisons.                       *)
EXTENDS TsWrite, TLAPS, FiniteSetTheorems

-----------------------------------------------------------------------------
(* Arithmetic of pages.                                                      *)

LEMMA MinOfTwo ==
    ASSUME NEW x \in Int, NEW y \in Int
    PROVE  /\ Min({x, y}) \in {x, y}
           /\ Min({x, y}) <= x
           /\ Min({x, y}) <= y
<1>1. \E m \in {x, y} : \A z \in {x, y} : m <= z
  <2>1. CASE x <= y
    BY <2>1
  <2>2. CASE ~(x <= y)
    BY <2>2
  <2> QED BY <2>1, <2>2
<1> QED BY <1>1 DEF Min

LEMMA MaxOfTwo ==
    ASSUME NEW x \in Int, NEW y \in Int
    PROVE  Max({x, y}) \in {x, y} /\ Max({x, y}) >= x /\ Max({x, y}) >= y
<1>1. \E m \in {x, y} : \A z \in {x, y} : m >= z
  <2>1. CASE x >= y
    BY <2>1
  <2>2. CASE ~(x >= y)
    BY <2>2
  <2> QED BY <2>1, <2>2
<1> QED BY <1>1 DEF Max

(* Where a page begins, and that the next one begins PAGESIZE later.         *)
LEMMA PageAddresses ==
    ASSUME NEW p \in Nat
    PROVE  /\ getAddr(p, 0) \in Nat
           /\ getAddr(p + 1, 0) = getAddr(p, 0) + PAGESIZE
           /\ \A off \in Nat : getAddr(p, off) = getAddr(p, 0) + off
<1>1. p * PAGESIZE \in Nat
  BY PageSizeAssumption
<1>2. (p + 1) * PAGESIZE = p * PAGESIZE + PAGESIZE
  BY PageSizeAssumption
<1> QED BY <1>1, <1>2, PageSizeAssumption DEF getAddr

-----------------------------------------------------------------------------
(* Numbers of limited size.                                                  *)

LEMMA Modulo ==
    ASSUME NEW x \in Int, NEW k \in Nat \ {0}
    PROVE  /\ x % k \in 0..(k - 1)
           /\ x \in 0..(k - 1) => x % k = x
  OBVIOUS

LEMMA IntHolds ==
    ASSUME NEW x \in Int
    PROVE  /\ AsInt(x) \in Int
           /\ x \in 0..INT_MAX => AsInt(x) = x
<1> DEFINE k == 2 * (INT_MAX + 1)
           y == x + INT_MAX + 1
<1>1. k \in Nat \ {0} /\ y \in Int /\ INT_MAX \in Nat
  BY LimitsAssumption
<1>2. y % k \in Int /\ (y \in 0..(k - 1) => y % k = y)
  <2> HIDE DEF y, k
  <2> QED BY <1>1, Modulo
<1>3. AsInt(x) = (y % k) - (INT_MAX + 1)
  BY DEF AsInt
<1>4. x \in 0..INT_MAX => y \in 0..(k - 1) /\ y - (INT_MAX + 1) = x
  BY <1>1
<1> HIDE DEF y, k
<1> QED BY <1>1, <1>2, <1>3, <1>4

LEMMA UnsignedHolds ==
    ASSUME NEW x \in Int
    PROVE  /\ AsUnsigned(x) \in 0..ULONG_MAX
           /\ x \in 0..ULONG_MAX => AsUnsigned(x) = x
<1>1. ULONG_MAX \in Nat /\ ULONG_MAX + 1 \in Nat \ {0} /\ (ULONG_MAX + 1) - 1 = ULONG_MAX
  BY LimitsAssumption
<1> QED BY <1>1, Modulo DEF AsUnsigned

LEMMA LengthLimit == /\ MaxLen \in Nat \ {0} /\ MaxLen <= ULONG_MAX
                     /\ ULONG_MAX \in Nat /\ INT_MAX \in Nat /\ INT_MAX <= ULONG_MAX
  BY MaxLenAssumption, LimitsAssumption

-----------------------------------------------------------------------------
Arguments == buf \in 0..(PAGESIZE - 1) /\ length \in 1..MaxLen

(* The last page of the write begins at or before its tail.                  *)
LEMMA LastPage ==
    ASSUME Arguments
    PROVE  /\ tail \in Nat /\ end \in Nat
           /\ \A p \in 0..end : getAddr(p, 0) <= tail
<1>1. tail \in Nat
  BY PageSizeAssumption, LengthLimit DEF Arguments, tail
<1>2. end \in Nat /\ end * PAGESIZE <= tail
  BY <1>1, PageSizeAssumption DEF end
<1>3. ASSUME NEW p \in 0..end PROVE p * PAGESIZE <= end * PAGESIZE
  BY <1>2, <1>3, PageSizeAssumption
<1>4. ASSUME NEW p \in 0..end PROVE getAddr(p, 0) <= tail
  <2>1. p * PAGESIZE \in Int /\ end * PAGESIZE \in Int
    BY <1>2, PageSizeAssumption
  <2> QED BY <2>1, <1>1, <1>2, <1>3 DEF getAddr
<1> QED BY <1>1, <1>2, <1>4

-----------------------------------------------------------------------------
(* The inductive invariant: the type invariant, and that what has been counted
   as not found is no more than the pages the loop has left, nor than the
   address behind the write, if that fits an int.                            *)

Loop ==
    /\ fn \in Fns /\ Arguments
    /\ pc \in {"page", "records", "done"}
    /\ start \in 0..(end + 1)
    /\ pc # "done" => start <= end
    /\ pending \subseteq PageAddrs(start)

Counted ==
    /\ diffPos \in Nat
    /\ credited \subseteq Int /\ missed \subseteq Int
    /\ notFoundSize \in 0..ULONG_MAX
    /\ tail <= INT_MAX => notFoundSize <= getAddr(start, 0) /\ notFoundSize <= tail

WriteInv == Loop /\ Counted

(* A record's address is on the loop's page, so it is a natural number.       *)
LEMMA RecordAddress ==
    ASSUME Loop, NEW a \in pending
    PROVE  a \in Nat
<1>1. start \in Nat
  BY LastPage DEF Loop
<1>2. a \in getAddr(start, 0)..getAddr(start, PAGESIZE - 1)
  BY DEF Loop, PageAddrs
<1>3. getAddr(start, 0) \in Nat /\ getAddr(start, PAGESIZE - 1) \in Nat
  BY <1>1, PageAddresses, PageSizeAssumption
<1> QED BY <1>2, <1>3

LEMMA InitInv == Init => WriteInv
<1> SUFFICES ASSUME Init PROVE WriteInv
  OBVIOUS
<1>1. Arguments /\ fn \in Fns
  BY DEF Init, Arguments
<1>2. tail \in Nat /\ end \in Nat
  BY <1>1, LastPage
<1>3. Loop
  BY <1>1, <1>2 DEF Init, Loop
<1>4. diffPos \in Nat
  BY PageSizeAssumption DEF Init
<1>5. Counted
  BY <1>2, <1>4, PageAddresses, LengthLimit DEF Init, Counted
<1> QED BY <1>3, <1>5 DEF WriteInv

(* Going on to the next page.                                                *)
LEMMA NextPageLoop ==
    ASSUME Loop, pc # "done", NextPage, UNCHANGED args
    PROVE  /\ Loop'
           /\ getAddr(start', 0) = getAddr(start, 0) + PAGESIZE
           /\ getAddr(start, 0) \in Nat
           /\ tail' = tail
<1>1. start \in 0..end /\ end \in Nat /\ tail \in Nat
  BY LastPage DEF Loop
<1>2. Arguments' /\ tail' = tail /\ end' = end /\ fn' \in Fns
  BY DEF Loop, Arguments, args, tail, end
<1>3. start' = start + 1 /\ pending' = {} /\ pc' = IF start < end THEN "page" ELSE "done"
  BY DEF NextPage
<1>4. Loop'
  BY <1>1, <1>2, <1>3 DEF Loop
<1>5. getAddr(start', 0) = getAddr(start, 0) + PAGESIZE /\ getAddr(start, 0) \in Nat
  BY <1>1, <1>3, PageAddresses
<1> QED BY <1>2, <1>4, <1>5

LEMMA SkipPageInv ==
    ASSUME WriteInv, NEW rs \in SUBSET PageAddrs(start), SkipPage(rs)
    PROVE  WriteInv'
<1>1. pc # "done" /\ NextPage /\ UNCHANGED args
  BY DEF SkipPage
<1>2. start \in Nat
  BY LastPage DEF WriteInv, Loop
<1>3. rs \subseteq Int
  <2>1. getAddr(start, 0) \in Int /\ getAddr(start, PAGESIZE - 1) \in Int
    BY <1>2, PageAddresses, PageSizeAssumption
  <2> QED BY <2>1 DEF PageAddrs
<1>4. /\ getAddr(start', 0) = getAddr(start, 0) + PAGESIZE
      /\ getAddr(start, 0) \in Nat /\ tail' = tail /\ Loop'
  BY <1>1, NextPageLoop DEF WriteInv
<1>5. UNCHANGED <<diffPos, notFoundSize, credited>> /\ missed' \subseteq missed \cup rs
  BY DEF SkipPage, counters
<1>6. Counted'
  BY <1>3, <1>4, <1>5, PageSizeAssumption DEF WriteInv, Counted
<1> QED BY <1>4, <1>6 DEF WriteInv

LEMMA PageNotFoundInv ==
    ASSUME WriteInv, PageNotFound
    PROVE  WriteInv'
<1>1. pc # "done" /\ NextPage /\ UNCHANGED args
  BY DEF PageNotFound
<1>2. tail \in Nat /\ getAddr(start, 0) \in 0..tail
  <2>1. start \in 0..end
    BY <1>1, LastPage DEF WriteInv, Loop
  <2> QED BY <2>1, LastPage, PageAddresses DEF WriteInv, Loop
<1> DEFINE add == Min({PAGESIZE, toTailLen})
<1>3. toTailLen = AsInt(tail - getAddr(start, 0)) /\ tail - getAddr(start, 0) \in Nat
  <2>1. buf \in Int /\ length \in Int
    BY PageSizeAssumption, LengthLimit DEF WriteInv, Loop, Arguments
  <2>2. length - (getAddr(start, 0) - buf) = tail - getAddr(start, 0)
    BY <1>2, <2>1 DEF tail
  <2> QED BY <1>2, <2>2 DEF toTailLen
<1>4. add \in Int /\ add <= PAGESIZE /\ add <= toTailLen /\ add \in {PAGESIZE, toTailLen}
  <2>1. toTailLen \in Int /\ PAGESIZE \in Int
    BY <1>3, IntHolds, PageSizeAssumption
  <2>2. add \in {PAGESIZE, toTailLen} /\ add <= PAGESIZE /\ add <= toTailLen
    BY <2>1, MinOfTwo, Zenon
  <2> HIDE DEF add
  <2> QED BY <2>1, <2>2
<1> HIDE DEF add
<1>5. notFoundSize' = AsUnsigned(notFoundSize + add)
  BY DEF PageNotFound, add
<1>6. /\ getAddr(start', 0) = getAddr(start, 0) + PAGESIZE
      /\ getAddr(start, 0) \in Nat /\ tail' = tail
  BY <1>1, NextPageLoop DEF WriteInv
<1>7. notFoundSize \in 0..ULONG_MAX /\ notFoundSize' \in 0..ULONG_MAX
  <2>1. notFoundSize \in 0..ULONG_MAX /\ notFoundSize + add \in Int
    BY <1>4, LengthLimit DEF WriteInv, Counted
  <2> QED BY <2>1, <1>5, UnsignedHolds
<1>8. ASSUME tail <= INT_MAX
      PROVE  notFoundSize' <= getAddr(start', 0) /\ notFoundSize' <= tail
  <2>1. toTailLen = tail - getAddr(start, 0) /\ add \in Nat
    BY <1>2, <1>3, <1>4, <1>8, IntHolds, LengthLimit, PageSizeAssumption
  <2>2. /\ notFoundSize <= getAddr(start, 0) /\ notFoundSize <= tail
        /\ notFoundSize \in Nat
    BY <1>7, <1>8, LengthLimit DEF WriteInv, Counted
  <2>3. notFoundSize + add <= getAddr(start, 0) + PAGESIZE /\ notFoundSize + add <= tail
    BY <1>2, <1>4, <2>1, <2>2, PageSizeAssumption
  <2>4. notFoundSize + add \in 0..ULONG_MAX
    BY <1>2, <1>8, <2>1, <2>2, <2>3, LengthLimit
  <2> QED BY <1>5, <1>6, <2>3, <2>4, UnsignedHolds
<1>9. Counted'
  BY <1>6, <1>7, <1>8 DEF PageNotFound, WriteInv, Counted
<1> QED BY <1>1, <1>9, NextPageLoop DEF WriteInv

LEMMA PageFoundInv ==
    ASSUME WriteInv, NEW rs \in SUBSET PageAddrs(start), PageFound(rs)
    PROVE  WriteInv'
<1>1. pc = "page" /\ pc' = "records" /\ pending' = rs
         /\ UNCHANGED <<fn, buf, length, start, diffPos, counters, missed>>
  BY DEF PageFound, args
<1>2. Loop'
  BY <1>1 DEF WriteInv, Loop, Arguments, tail, end, PageAddrs
<1>3. Counted'
  BY <1>1 DEF WriteInv, Counted, counters, tail
<1> QED BY <1>2, <1>3 DEF WriteInv

LEMMA PageFinishedInv ==
    ASSUME WriteInv, PageFinished
    PROVE  WriteInv'
<1>1. pc # "done" /\ NextPage /\ UNCHANGED args
  BY DEF PageFinished
<1>2. Counted'
  BY <1>1, NextPageLoop, PageSizeAssumption
  DEF PageFinished, WriteInv, Counted, counters
<1> QED BY <1>1, <1>2, NextPageLoop DEF WriteInv

(* Where a comparison may stop: at a natural number, and in ts_fwrite within
   the write.                                                                *)
LEMMA Stops ==
    ASSUME WriteInv, NEW a \in pending, NEW d \in Runs(a)
    PROVE  /\ a \in Nat /\ tail \in Nat /\ d \in Nat
           /\ a <= tail => a + d < tail
<1>1. a \in Nat /\ tail \in Nat
  BY RecordAddress, LastPage DEF WriteInv, Loop
<1> QED BY <1>1, MaxRunAssumption DEF Runs

(* The steps of the loop over a page's records.                              *)
LEMMA RecordsInv ==
    ASSUME WriteInv, NEW a \in pending,
           \/ SkipRecord(a) \/ BeyondTail(a)
           \/ CompareWithNothing(a) \/ CompareSame(a)
           \/ \E d \in Runs(a) : CompareDiffers(a, d)
    PROVE  WriteInv'
<1>1. UNCHANGED <<fn, buf, length, start, pc, notFoundSize>>
  BY DEF SkipRecord, BeyondTail, CompareWithNothing, CompareSame,
         CompareDiffers, Compared, Visit, args
<1>2. pending' \subseteq pending
  BY DEF SkipRecord, BeyondTail, CompareWithNothing, CompareSame,
         CompareDiffers, Compared
<1>3. missed' = missed
  BY DEF SkipRecord, BeyondTail, CompareWithNothing, CompareSame,
         CompareDiffers, Compared
<1>4. Loop'
  BY <1>1, <1>2 DEF WriteInv, Loop, Arguments, tail, end, PageAddrs
<1>5. a \in Nat /\ tail \in Nat
  BY RecordAddress, LastPage DEF WriteInv, Loop
<1>6. diffPos' \in Nat /\ credited' \subseteq Int
  <2>1. CASE SkipRecord(a) \/ BeyondTail(a) \/ CompareWithNothing(a)
    BY <2>1 DEF SkipRecord, BeyondTail, CompareWithNothing, WriteInv, Counted
  <2>2. CASE CompareSame(a)
    BY <2>2, <1>5 DEF CompareSame, WriteInv, Counted
  <2>3. CASE \E d \in Runs(a) : CompareDiffers(a, d)
    <3>1. PICK d \in Runs(a) : CompareDiffers(a, d)
      BY <2>3
    <3>2. diffPos' \in Nat
      BY <3>1, <1>5, Stops DEF CompareDiffers
    <3>3. credited' = credited \cup a..(Min({tail, diffPos'}) - 1)
      BY <3>1 DEF CompareDiffers
    <3>4. a..(Min({tail, diffPos'}) - 1) \subseteq Int
      OBVIOUS
    <3> QED BY <3>2, <3>3, <3>4 DEF WriteInv, Counted
  <2> QED BY <2>1, <2>2, <2>3
<1>7. Counted'
  BY <1>1, <1>3, <1>6 DEF WriteInv, Counted, tail, getAddr
<1> QED BY <1>4, <1>7 DEF WriteInv

LEMMA NextInv == WriteInv /\ [Next]_vars => WriteInv'
<1> SUFFICES ASSUME WriteInv, [Next]_vars PROVE WriteInv'
  OBVIOUS
<1>1. CASE \E rs \in SUBSET PageAddrs(start) : SkipPage(rs) \/ PageFound(rs)
  BY <1>1, SkipPageInv, PageFoundInv
<1>2. CASE PageNotFound
  BY <1>2, PageNotFoundInv
<1>3. CASE PageFinished
  BY <1>3, PageFinishedInv
<1>4. ASSUME NEW a \in pending,
             \/ SkipRecord(a) \/ BeyondTail(a)
             \/ CompareWithNothing(a) \/ CompareSame(a)
             \/ \E d \in Runs(a) : CompareDiffers(a, d)
      PROVE  WriteInv'
  BY <1>4, RecordsInv
<1>5. CASE UNCHANGED vars
  BY <1>5 DEF vars, args, counters, WriteInv, Loop, Counted, Arguments, tail,
              end, PageAddrs, getAddr
<1> QED BY <1>1, <1>2, <1>3, <1>4, <1>5 DEF Next

LEMMA WriteInvAlways == Spec => []WriteInv
<1> QED BY InitInv, NextInv, PTL DEF Spec

(* What ts_write and ts_fwrite report as not found is no more than the write
   and the part of its first page before buf (awn.c:593), if an int can hold
   the length of both.                                                       *)
THEOREM NotFoundIsBounded == Spec => []NotFoundBound
<1>1. WriteInv => NotFoundBound
  BY DEF WriteInv, Counted, NotFoundBound
<1> QED BY <1>1, WriteInvAlways, PTL

-----------------------------------------------------------------------------
(* The counter of equal bytes.  It can hold the length of a write.           *)

SameTyped == sameSize \in 0..ULONG_MAX

LEMMA AddSameTyped ==
    ASSUME NEW addLen \in Int, SameTyped, AddSame(addLen)
    PROVE  SameTyped'
<1>1. sameSize + addLen \in Int
  BY LengthLimit DEF SameTyped
<1> QED BY <1>1, UnsignedHolds DEF AddSame, SameTyped

LEMMA SameTypedInit == Init => SameTyped
  BY LengthLimit DEF Init, SameTyped

LEMMA SameTypedStep ==
    ASSUME WriteInv, SameTyped, [Next]_vars
    PROVE  SameTyped'
<1>1. ASSUME NEW a \in pending, CompareSame(a) PROVE SameTyped'
  <2>1. tail - a \in Int
    BY <1>1, RecordAddress, LastPage DEF WriteInv, Loop
  <2> QED BY <1>1, <2>1, AddSameTyped DEF CompareSame
<1>2. ASSUME NEW a \in pending, NEW d \in Runs(a), CompareDiffers(a, d)
      PROVE  SameTyped'
  <2>1. a \in Nat /\ tail \in Nat /\ a + d \in Nat /\ diffPos' = a + d
    BY <1>2, Stops DEF CompareDiffers
  <2>2. tail \in Int /\ diffPos' \in Int
    BY <2>1
  <2>3. Min({tail, diffPos'}) \in {tail, diffPos'}
    BY <2>2, MinOfTwo, Zenon
  <2>4. Min({tail, diffPos'}) - a \in Int
    BY <2>1, <2>2, <2>3
  <2>5. AddSame(Min({tail, diffPos'}) - a)
    BY <1>2 DEF CompareDiffers
  <2> QED BY <2>4, <2>5, AddSameTyped
<1>3. CASE UNCHANGED sameSize
  BY <1>3 DEF SameTyped
<1> QED BY <1>1, <1>2, <1>3
  DEF Next, vars, counters, SkipPage, PageFound, PageNotFound, PageFinished,
      SkipRecord, BeyondTail, CompareWithNothing

(* Types, the wrapping counter among them (awn.c:530).                       *)
THEOREM WriteTypeOK == Spec => []TypeOK
<1>1. Init => SameTyped
  BY SameTypedInit
<1>2. WriteInv /\ SameTyped /\ [Next]_vars => SameTyped'
  BY SameTypedStep
<1>3. WriteInv /\ SameTyped => TypeOK
  BY DEF WriteInv, Loop, Arguments, Counted, SameTyped, TypeOK
<1> QED BY <1>1, <1>2, <1>3, WriteInvAlways, PTL DEF Spec

-----------------------------------------------------------------------------
(* ts_write and ts_pwrite pass over a page only when its last byte, and so
   each of its records, is behind diffPos: none that could be compared is
   missed (awn.c:596).                                                       *)

LEMMA SkippedBehind ==
    ASSUME WriteInv, fn = "write", NEW rs \in SUBSET PageAddrs(start), SkipPage(rs)
    PROVE  missed' = missed
<1>1. start \in Nat /\ buf \in Int /\ diffPos \in Int
  BY LastPage, PageSizeAssumption DEF WriteInv, Loop, Counted, Arguments
<1>2. /\ getAddr(start, 0) \in Int /\ getAddr(start, PAGESIZE - 1) \in Int
      /\ getAddr(start, PAGESIZE - 1) < diffPos
  BY <1>1, PageAddresses, PageSizeAssumption DEF SkipPage, BehindDiffPos
<1>3. Max({buf, diffPos}) >= diffPos /\ Max({buf, diffPos}) \in Int
  <2>1. Max({buf, diffPos}) \in {buf, diffPos} /\ Max({buf, diffPos}) >= diffPos
    BY <1>1, MaxOfTwo, Zenon
  <2> QED BY <1>1, <2>1
<1>4. ASSUME NEW a \in rs PROVE ~(a >= Max({buf, diffPos}))
  BY <1>2, <1>3, <1>1 DEF PageAddrs
<1> QED BY <1>4 DEF SkipPage

THEOREM WriteMissesNone == Spec => []WriteMissesNoRecord
<1>1. Init => WriteMissesNoRecord
  BY DEF Init, WriteMissesNoRecord, NoRecordMissed
<1>2. ASSUME WriteInv, WriteMissesNoRecord, [Next]_vars PROVE WriteMissesNoRecord'
  <2>1. fn' = fn
    BY <1>2 DEF Next, vars, args, counters, SkipPage, PageFound, PageNotFound,
       PageFinished, SkipRecord, BeyondTail, CompareWithNothing, CompareSame,
       CompareDiffers, Compared, Visit
  <2>2. ASSUME NEW rs \in SUBSET PageAddrs(start), SkipPage(rs)
        PROVE  WriteMissesNoRecord'
    BY <1>2, <2>1, <2>2, SkippedBehind DEF WriteMissesNoRecord, NoRecordMissed
  <2>3. CASE missed' = missed
    BY <1>2, <2>1, <2>3 DEF WriteMissesNoRecord, NoRecordMissed
  <2> QED BY <1>2, <2>2, <2>3
    DEF Next, vars, PageFound, PageNotFound, PageFinished, SkipRecord,
        BeyondTail, CompareWithNothing, CompareSame, CompareDiffers, Compared
<1> QED BY <1>1, <1>2, WriteInvAlways, PTL DEF Spec

-----------------------------------------------------------------------------
(* ts_fwrite counts each equal byte once.  What it has counted lies before
   diffPos, and a record is compared only from diffPos on.                   *)

SameInv ==
    fn = "fwrite" =>
        /\ credited \subseteq buf..(tail - 1)
        /\ \A c \in credited : c < diffPos
        /\ sameSize = Cardinality(credited)

(* Counting an interval behind all that has been counted.                    *)
LEMMA CountInterval ==
    ASSUME WriteInv, SameInv, fn = "fwrite",
           NEW a \in Nat, a >= buf, a >= diffPos,
           NEW e \in a..tail, sameSize' = AsUnsigned(sameSize + (e - a))
    PROVE  /\ credited \cup a..(e - 1) \subseteq buf..(tail - 1)
           /\ sameSize' = Cardinality(credited \cup a..(e - 1))
<1> DEFINE new == a..(e - 1)
           whole == buf..(tail - 1)
<1>1. /\ buf \in Nat /\ length \in 1..MaxLen /\ tail = buf + length
      /\ diffPos \in Nat /\ credited \subseteq Int /\ tail \in Nat
  BY LastPage, PageSizeAssumption DEF WriteInv, Loop, Arguments, Counted, tail
<1>2. credited \cup new \subseteq whole
  BY <1>1 DEF SameInv
<1>3. IsFiniteSet(whole) /\ Cardinality(whole) = length
  BY <1>1, FS_Interval, LengthLimit
<1>4. /\ IsFiniteSet(credited) /\ IsFiniteSet(new)
      /\ Cardinality(credited \cup new) <= length
  BY <1>2, <1>3, FS_Subset
<1>5. credited \cap new = {}
  BY <1>1 DEF SameInv
<1>6. Cardinality(new) = e - a
  <2>1. Cardinality(new) = IF a > e - 1 THEN 0 ELSE e - 1 - a + 1
    BY <1>1, FS_Interval
  <2> QED BY <2>1, <1>1
<1>7. Cardinality(credited \cap new) = 0
  BY <1>5, FS_EmptySet
<1>8. Cardinality(credited) \in Nat
  BY <1>4, FS_CardinalityType
<1>9. Cardinality(credited \cup new) = sameSize + (e - a)
  <2>1. Cardinality(credited \cup new)
          = Cardinality(credited) + Cardinality(new) - Cardinality(credited \cap new)
    BY <1>4, FS_Union
  <2>2. sameSize = Cardinality(credited)
    BY DEF SameInv
  <2> QED BY <2>1, <2>2, <1>1, <1>6, <1>7, <1>8
<1>10. sameSize + (e - a) \in 0..ULONG_MAX
  <2>1. Cardinality(credited \cup new) \in Nat
    BY <1>2, <1>3, FS_Subset, FS_CardinalityType
  <2> QED BY <2>1, <1>1, <1>4, <1>9, LengthLimit
<1>11. sameSize' = sameSize + (e - a)
  BY <1>10, UnsignedHolds
<1> QED BY <1>2, <1>9, <1>11

LEMMA SameInvStep ==
    ASSUME WriteInv, SameInv, [Next]_vars
    PROVE  SameInv'
<1> SUFFICES ASSUME fn = "fwrite" PROVE SameInv'
  <2>1. fn' = fn
    BY DEF Next, vars, args, counters, SkipPage, PageFound, PageNotFound,
       PageFinished, SkipRecord, BeyondTail, CompareWithNothing, CompareSame,
       CompareDiffers, Compared, Visit
  <2> QED BY <2>1 DEF SameInv
<1>1. tail' = tail /\ buf' = buf
  BY DEF Next, vars, args, counters, SkipPage, PageFound, PageNotFound,
     PageFinished, SkipRecord, BeyondTail, CompareWithNothing, CompareSame,
     CompareDiffers, Compared, Visit, tail
<1>2. /\ diffPos \in Nat /\ credited \subseteq Int /\ buf \in Nat /\ tail \in Nat
  BY LastPage, PageSizeAssumption DEF WriteInv, Loop, Arguments, Counted
<1>3. ASSUME NEW a \in pending, Compared(a)
      PROVE  a \in Nat /\ a >= diffPos /\ a >= buf /\ a <= tail
  <2>1. a \in Nat
    BY RecordAddress DEF WriteInv
  <2> QED BY <2>1, <1>2, <1>3 DEF Compared, Filtered, BreaksAt
<1>4. ASSUME NEW a \in pending, CompareSame(a) PROVE SameInv'
  <2>1. Compared(a) /\ diffPos' = tail
           /\ sameSize' = AsUnsigned(sameSize + (tail - a))
           /\ credited' = credited \cup a..(tail - 1)
    BY <1>4 DEF CompareSame, AddSame
  <2>2. a \in Nat /\ a >= diffPos /\ a >= buf /\ tail \in a..tail
    BY <1>2, <1>3, <2>1
  <2>3. credited' \subseteq buf..(tail - 1) /\ sameSize' = Cardinality(credited')
    BY <2>1, <2>2, CountInterval
  <2>4. \A c \in credited' : c < diffPos'
    BY <2>1, <2>3, <1>2
  <2> QED BY <1>1, <2>3, <2>4 DEF SameInv
<1>5. ASSUME NEW a \in pending, NEW d \in Runs(a), CompareDiffers(a, d)
      PROVE  SameInv'
  <2>1. Compared(a) /\ diffPos' = a + d
    BY <1>5 DEF CompareDiffers
  <2>2. a \in Nat /\ a >= diffPos /\ a >= buf /\ a <= tail /\ d \in Nat /\ a + d < tail
    BY <1>2, <1>3, <2>1, Stops
  <2>3. Min({tail, diffPos'}) = a + d
    <3>1. tail \in Int /\ diffPos' \in Int /\ diffPos' < tail
      BY <2>1, <2>2, <1>2
    <3>2. /\ Min({tail, diffPos'}) \in {tail, diffPos'}
          /\ Min({tail, diffPos'}) <= diffPos'
      BY <3>1, MinOfTwo, Zenon
    <3> QED BY <3>1, <3>2, <2>1
  <2>4. /\ sameSize' = AsUnsigned(sameSize + ((a + d) - a))
        /\ credited' = credited \cup a..((a + d) - 1)
    BY <1>5, <2>3 DEF CompareDiffers, AddSame
  <2>5. a + d \in a..tail
    BY <2>2, <1>2
  <2>6. credited' \subseteq buf..(tail - 1) /\ sameSize' = Cardinality(credited')
    BY <2>2, <2>4, <2>5, CountInterval
  <2>7. \A c \in credited' : c < diffPos'
    BY <2>1, <2>2, <2>4, <1>2 DEF SameInv
  <2> QED BY <1>1, <2>6, <2>7 DEF SameInv
<1>6. CASE UNCHANGED <<sameSize, credited, diffPos>>
  BY <1>6, <1>1 DEF SameInv
<1> QED BY <1>4, <1>5, <1>6
  DEF Next, vars, counters, SkipPage, PageFound, PageNotFound, PageFinished,
      SkipRecord, BeyondTail, CompareWithNothing

(* However the records overlap, ts_fwrite counts each equal byte of the write
   once (awn.c:993).                                                         *)
THEOREM FwriteCountsOnce == Spec => []FwriteSameWithinWrite
<1>1. Init => SameInv
  BY FS_EmptySet DEF Init, SameInv
<1>2. WriteInv /\ SameInv /\ [Next]_vars => SameInv'
  BY SameInvStep
<1>3. SameInv => FwriteSameWithinWrite
  BY DEF SameInv, FwriteSameWithinWrite, SameWithinWrite
<1> QED BY <1>1, <1>2, <1>3, WriteInvAlways, PTL DEF Spec

=============================================================================
