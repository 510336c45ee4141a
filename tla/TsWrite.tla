------------------------------ MODULE TsWrite ------------------------------
(* One traced write: do_ts_write (ts_write, ts_pwrite) or the loop of
   ts_fwrite, and cmpWrite.  The bytes buf .. tail-1 are compared, page by
   page and record by record, with the files they were copied from; what is
   equal is added to ts_write_same_size, what lies on pages with no record to
   ts_write_not_found_size.

   Addresses are numbers; buf is on page 0.  The records of a page are a set
   of addresses visited in ascending order: the order of the page's list
   (PageOrdered of RecTree).  What the page holds and how long a comparison
   agrees are chosen when the code finds out.                              *)
EXTENDS Integers, FiniteSets, FiniteSetsExt

CONSTANTS
    Fns,        \* of "write" (do_ts_write) and "fwrite" (ts_fwrite)
    PAGESIZE,   \* bytes in a page
    MaxLen,     \* bound: bytes written
    MaxRun,     \* bound: equal bytes behind an address beyond tail
    INT_MAX,    \* limits of int and of unsigned long
    ULONG_MAX

ASSUME FnsAssumption == Fns \subseteq {"write", "fwrite"}
ASSUME PageSizeAssumption == PAGESIZE \in Nat \ {0}
ASSUME LimitsAssumption == INT_MAX \in Nat /\ ULONG_MAX \in Nat /\ INT_MAX <= ULONG_MAX
\* length is a size_t.
ASSUME MaxLenAssumption == MaxLen \in 1..ULONG_MAX
ASSUME MaxRunAssumption == MaxRun \in Nat

VARIABLES
    fn,             \* the function called
    buf, length,    \* its arguments
    start,          \* page the loop is at
    pc,             \* "page", "records" or "done"
    pending,        \* addresses of the page's records not yet visited
    diffPos,        \* where the last comparison stopped
    sameSize,       \* ts_write_same_size, 0 before the call
    notFoundSize,   \* ts_write_not_found_size, 0 before the call
    credited,       \* ghost: the bytes of the write counted as the same
    missed          \* ghost: records of the rest of the write passed over

args == <<fn, buf, length>>
counters == <<sameSize, notFoundSize, credited>>
vars == <<args, start, pc, pending, diffPos, counters, missed>>

getAddr(page, off) == page * PAGESIZE + off
PageAddrs(page) == getAddr(page, 0)..getAddr(page, PAGESIZE - 1)
tail == buf + length
end == tail \div PAGESIZE

\* What an int holds of a number assigned to it, and an unsigned long.
AsInt(x) == ((x + INT_MAX + 1) % (2 * (INT_MAX + 1))) - (INT_MAX + 1)
AsUnsigned(x) == x % (ULONG_MAX + 1)

\* Mutation of toTailLen: what earlier pages took is not subtracted.
toTailLenFixed == AsInt(length)

\* Below zero when more than INT_MAX bytes are left.
toTailLen == AsInt(length - (getAddr(start, 0) - buf))

Init ==
    /\ fn \in Fns
    /\ buf \in 0..(PAGESIZE - 1)
    /\ length \in 1..MaxLen
    /\ start = 0
    /\ pc = "page"
    /\ pending = {}
    /\ diffPos = IF fn = "write" THEN buf ELSE 0
    /\ sameSize = 0 /\ notFoundSize = 0 /\ credited = {}
    /\ missed = {}

-----------------------------------------------------------------------------
(* The loop over the pages start .. end.                                   *)

NextPage ==
    /\ start' = start + 1
    /\ pc' = IF start < end THEN "page" ELSE "done"
    /\ pending' = {}

\* Mutation of BehindDiffPos: ts_fwrite's test in do_ts_write.
BehindDiffPosFirst == getAddr(start, 0) < diffPos

\* The page test: its last byte in do_ts_write, its first in ts_fwrite.
BehindDiffPos ==
    IF fn = "write" THEN getAddr(start, PAGESIZE - 1) < diffPos
    ELSE getAddr(start, 0) < diffPos

\* A page with records at rs is not looked at.
SkipPage(rs) ==
    /\ pc = "page"
    /\ BehindDiffPos
    /\ missed' = missed \cup {a \in rs : a >= Max({buf, diffPos}) /\ a < tail}
    /\ NextPage
    /\ UNCHANGED <<args, diffPos, counters>>

PageNotFound ==
    /\ pc = "page"
    /\ ~BehindDiffPos
    /\ notFoundSize' = AsUnsigned(notFoundSize + Min({PAGESIZE, toTailLen}))
    /\ NextPage
    /\ UNCHANGED <<args, diffPos, sameSize, credited, missed>>

\* A page with records at rs is found.
PageFound(rs) ==
    /\ pc = "page"
    /\ ~BehindDiffPos
    /\ pending' = rs
    /\ pc' = "records"
    /\ UNCHANGED <<args, start, diffPos, counters, missed>>

PageFinished ==
    /\ pc = "records"
    /\ pending = {}
    /\ NextPage
    /\ UNCHANGED <<args, diffPos, counters, missed>>

-----------------------------------------------------------------------------
(* The loop over the records of a page; a is the next one.                 *)

Visit(a) ==
    /\ pc = "records"
    /\ pending # {} /\ a = Min(pending)
    /\ UNCHANGED <<args, start, pc, notFoundSize>>

Filtered(a) == a < diffPos \/ (fn = "fwrite" /\ a < buf)

SkipRecord(a) ==
    /\ Visit(a)
    /\ Filtered(a)
    /\ pending' = pending \ {a}
    /\ UNCHANGED <<diffPos, sameSize, credited, missed>>

\* Mutation of BreaksAt: do_ts_write's empty statement in ts_fwrite.
BreaksAtNowhere(a) == FALSE

\* `break` in ts_fwrite; do_ts_write has an empty statement there.
BreaksAt(a) == fn = "fwrite" /\ a > tail

BeyondTail(a) ==
    /\ Visit(a)
    /\ ~Filtered(a)
    /\ BreaksAt(a)
    /\ pending' = {}
    /\ UNCHANGED <<diffPos, sameSize, credited, missed>>

Compared(a) ==
    /\ Visit(a)
    /\ ~Filtered(a) /\ ~BreaksAt(a)
    /\ pending' = pending \ {a}
    /\ UNCHANGED missed

(* cmpWrite: the file of the record is not in the name tree, or its mapping
   starts beyond the record.                                               *)
CompareWithNothing(a) ==
    /\ Compared(a)
    /\ UNCHANGED <<diffPos, sameSize, credited>>

\* Mutation of AddSame: a signed counter.
AddSameSigned(addLen) == sameSize' = sameSize + addLen

\* addLen is an unsigned long.
AddSame(addLen) == sameSize' = AsUnsigned(sameSize + addLen)

\* How many equal bytes may precede a difference.
Runs(a) == IF a > tail THEN 0..MaxRun ELSE 0..(tail - a - 1)

(* memcmp_avx2_asm returned non-zero: the first difference is at a + d.
   Beyond tail the length passed is negative, taken as unsigned: the
   comparison runs on until the memory differs.                            *)
CompareDiffers(a, d) ==
    /\ Compared(a)
    /\ diffPos' = a + d
    /\ AddSame(Min({tail, diffPos'}) - a)
    /\ credited' = credited \cup a..(Min({tail, diffPos'}) - 1)

CompareSame(a) ==
    /\ a <= tail
    /\ Compared(a)
    /\ diffPos' = tail
    /\ AddSame(tail - a)
    /\ credited' = credited \cup a..(tail - 1)

Next ==
    \/ \E rs \in SUBSET PageAddrs(start) : SkipPage(rs) \/ PageFound(rs)
    \/ PageNotFound
    \/ PageFinished
    \/ \E a \in pending :
          \/ SkipRecord(a) \/ BeyondTail(a)
          \/ CompareWithNothing(a) \/ CompareSame(a)
          \/ \E d \in Runs(a) : CompareDiffers(a, d)

Spec == Init /\ [][Next]_vars

-----------------------------------------------------------------------------
(* Properties.                                                             *)

TypeOK ==
    /\ fn \in Fns
    /\ buf \in 0..(PAGESIZE - 1) /\ length \in 1..MaxLen
    /\ start \in 0..(end + 1)
    /\ pc \in {"page", "records", "done"}
    /\ pending \subseteq PageAddrs(start)
    /\ diffPos \in Nat
    /\ sameSize \in 0..ULONG_MAX /\ notFoundSize \in 0..ULONG_MAX
    /\ credited \subseteq Int /\ missed \subseteq Int

(* ts_write_same_size grows by the number of bytes of the write found equal,
   each counted once however the records overlap (awn.c:530, "same content
   length").                                                               *)
SameWithinWrite ==
    /\ credited \subseteq buf..(tail - 1)
    /\ sameSize = Cardinality(credited)

(* It does in ts_fwrite, whose loop leaves a page at the first record beyond
   the write (awn.c:993).                                                  *)
FwriteSameWithinWrite == fn = "fwrite" => SameWithinWrite

(* Every record of a byte of the write that no comparison has settled yet is
   visited: the pages passed over lie behind diffPos (awn.c:621: what is
   filtered is "the addresses smaller than diffPos").                      *)
NoRecordMissed == missed = {}

(* It is in ts_write and ts_pwrite, which pass over a page by its last byte
   (awn.c:596).                                                            *)
WriteMissesNoRecord == fn = "write" => NoRecordMissed

(* What is reported as not found exceeds the write by no more than the part
   of the first page before buf, though pages are counted whole - for a write
   whose length, that part included, an int can hold.  What is left of a longer
   one may be negative, and is added to an unsigned counter (awn.c:593, 672). *)
NotFoundBound == tail <= INT_MAX => notFoundSize <= tail
=============================================================================
