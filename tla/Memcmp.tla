------------------------------- MODULE Memcmp -------------------------------
(* memcmp_avx2_asm(s1, s2, n, diffPos) of memcmp-avx2-addr.S: compares n
   bytes, returns 0 when they are equal, and stores at *diffPos the address
   in s1 of the first byte that differs.  One action per block of
   instructions between two labels that a jump can reach.

   Both pointers always move together, so one offset di from the start stands
   for both.  The bytes are abstracted to the set of offsets at which s1 and
   s2 differ, plus whether the second byte of s1 is zero, which the code for
   two and three bytes lets through to the result.                          *)
EXTENDS Integers, Sequences, FiniteSets, FiniteSetsExt

CONSTANTS
    Lengths,        \* values of n
    Misalignments,  \* values of s1 mod VEC_SIZE
    DifferSets(_)   \* the sets of differing offsets to try for a length

VEC_SIZE == 32

ASSUME LengthsAssumption == Lengths \subseteq Nat
ASSUME MisalignmentsAssumption == Misalignments \subseteq 0..(VEC_SIZE - 1)
ASSUME DifferSetsAssumption ==
    \A k \in Lengths : DifferSets(k) \subseteq SUBSET (0..(k - 1))

VARIABLES
    pc,             \* the label control is at, or "done"
    n,              \* the argument
    differ,         \* offsets below n at which s1 and s2 differ
    secondByteZero, \* s1[1] = 0
    misalign,       \* s1 mod VEC_SIZE
    di,             \* %rdi and %rsi, as an offset
    dx,             \* %rdx
    ret,            \* %eax # 0 on return
    diffPos,        \* *diffPos as an offset, or Unset
    reach           \* the offsets loaded so far: [lo, hi)

vars == <<pc, n, differ, secondByteZero, misalign, di, dx, ret, diffPos, reach>>
args == <<n, differ, secondByteZero, misalign>>

Unset == -1

Init ==
    /\ n \in Lengths
    /\ differ \in DifferSets(n)
    /\ secondByteZero \in IF n \in 2..3 THEN BOOLEAN ELSE {FALSE}
    /\ misalign \in Misalignments
    /\ pc = "memcmp_avx2_asm"
    /\ di = 0 /\ dx = n
    /\ ret = FALSE /\ diffPos = Unset
    /\ reach = [lo |-> 0, hi |-> 0]

-----------------------------------------------------------------------------
(* Loads and returns.                                                      *)

Window(a, w) == a..(a + w - 1)
Hit(a, w) == differ \cap Window(a, w) # {}

\* Loads of w bytes at each of the offsets in as.
Load(as, w) ==
    reach' = [lo |-> Min(as \cup {reach.lo}),
              hi |-> Max({a + w : a \in as} \cup {reach.hi})]

Goto(label) == pc' = label /\ UNCHANGED <<ret, diffPos>>
Return(nonzero, pos) == pc' = "done" /\ ret' = nonzero /\ diffPos' = pos
ReturnZero == Return(FALSE, diffPos)

\* first_vec and its variants: tzcnt gives the first differing byte of the
\* window at a.
FirstVec(a, w) == Return(TRUE, Min(differ \cap Window(a, w)))

(* Windows of w bytes at the offsets as, compared one after another: the
   first that differs is reported and the later ones are not loaded; when
   none differs control goes on with Otherwise.                            *)
InTurn(as, w, Otherwise) ==
    LET hits == {i \in DOMAIN as : Hit(as[i], w)}
        upto == IF hits = {} THEN Len(as) ELSE Min(hits)
    IN  /\ Load({as[i] : i \in 1..upto}, w)
        /\ IF hits = {} THEN Otherwise ELSE FirstVec(as[upto], w)

(* The four vectors from a on, loaded together: on a difference l4x_vec_end
   looks at them in order.                                                 *)
FourAt(a, Otherwise) ==
    LET as   == [i \in 1..4 |-> a + (i - 1) * VEC_SIZE]
        hits == {i \in DOMAIN as : Hit(as[i], VEC_SIZE)}
    IN  /\ Load({as[i] : i \in DOMAIN as}, VEC_SIZE)
        /\ IF hits = {} THEN Otherwise ELSE FirstVec(as[Min(hits)], VEC_SIZE)

\* The bytes of the 16-bit word at a that differ.
Word(a) == differ \cap {a, a + 1}

-----------------------------------------------------------------------------
(* Fewer than VEC_SIZE bytes.                                              *)

\* Mutation of UpToOne: jbe for je, so that no bytes are compared as one is.
UpToOneBelow ==
    /\ pc = "less_vec" /\ n < 2
    /\ Load({0}, 1)
    /\ \E outside \in BOOLEAN : Return(IF n = 1 THEN 0 \in differ ELSE outside, 0)
    /\ UNCHANGED <<args, di, dx>>

\* le1 and zero
UpToOne ==
    /\ pc = "less_vec" /\ n < 2
    /\ IF n = 1 THEN Load({0}, 1) /\ Return(0 \in differ, 0)
       ELSE ReturnZero /\ UNCHANGED reach
    /\ UNCHANGED <<args, di, dx>>

(* between_2_3, sameLess2 and firstDiff2_3.  The word read first stays in
   %eax when it is equal; its second byte is still there when the last
   bytes have been subtracted.                                             *)
TwoOrThree ==
    /\ pc = "less_vec" /\ n \in 2..3
    /\ Load({0, n - 2}, 2)
    /\ IF Word(0) # {} THEN Return(TRUE, Min(Word(0)))
       ELSE Return(n - 1 \in differ \/ ~secondByteZero, n - 1)
    /\ UNCHANGED <<args, di, dx>>

(* between_4_7 and the labels ...diff4_7: overlapping loads of four bytes
   decide, then the words at 0, 2 and 4 are loaded again to find the byte.  *)
FourToSeven ==
    /\ pc = "less_vec" /\ n \in 4..7
    /\ LET words == {a \in {0, 2, 4} : Word(a) # {}}
       IN  IF differ = {} THEN Load({0, n - 4}, 4) /\ ReturnZero
           ELSE IF words = {} THEN Load({0, 2, n - 4}, 4) /\ Return(TRUE, 6)
           ELSE /\ reach' = [lo |-> 0, hi |-> Max({n, Min(words) + 2})]
                /\ Return(TRUE, Min(Word(Min(words))))
    /\ UNCHANGED <<args, di, dx>>

\* The 8 to 15 bytes of less_vec, and between_16_31: two loads of w bytes.
TwoOverlapping(w) ==
    /\ pc = "less_vec" /\ n \in w..(2 * w - 1)
    /\ InTurn(<<0, n - w>>, w, ReturnZero)
    /\ di' = n - w
    /\ UNCHANGED <<args, dx>>

-----------------------------------------------------------------------------
(* VEC_SIZE bytes or more.                                                 *)

Entry ==
    /\ pc = "memcmp_avx2_asm"
    /\ IF n < VEC_SIZE THEN Goto("less_vec") /\ UNCHANGED reach
       ELSE InTurn(<<0>>, VEC_SIZE,
                   Goto(CASE n <= 2 * VEC_SIZE -> "last_vec"
                          [] n > 8 * VEC_SIZE  -> "more_8x_vec"
                          [] n > 2 * VEC_SIZE /\ n < 4 * VEC_SIZE -> "last_4x_vec"
                          [] OTHER             -> "from_4x_to_8x"))
    /\ UNCHANGED <<args, di, dx>>

\* From 4 * VEC to 8 * VEC: the first four vectors, then the last four.
From4xTo8x ==
    /\ pc = "from_4x_to_8x"
    /\ FourAt(di, Goto("last_four"))
    /\ UNCHANGED <<args, di, dx>>

LastFour ==
    /\ pc = "last_four"
    /\ di' = di + dx - 4 * VEC_SIZE
    /\ FourAt(di', ReturnZero)
    /\ UNCHANGED <<args, dx>>

Last2xVec ==
    /\ pc = "last_2x_vec"
    /\ InTurn(<<di>>, VEC_SIZE, Goto("last_vec"))
    /\ UNCHANGED <<args, di, dx>>

LastVec ==
    /\ pc = "last_vec"
    /\ di' = di + dx - VEC_SIZE
    /\ InTurn(<<di'>>, VEC_SIZE, ReturnZero)
    /\ UNCHANGED <<args, dx>>

\* Mutation of Align: the length is adjusted the wrong way.
AlignLonger ==
    /\ di' = di + (VEC_SIZE - misalign)
    /\ dx' = dx + (VEC_SIZE - misalign)

\* The loop starts at the next aligned byte of s1.
Align ==
    /\ di' = di + (VEC_SIZE - misalign)
    /\ dx' = dx - (VEC_SIZE - misalign)

More8xVec ==
    /\ pc = "more_8x_vec"
    /\ InTurn(<<di>>, VEC_SIZE, Goto("loop_4x_vec"))
    /\ Align
    /\ UNCHANGED args

\* Mutation of AfterLoop: up to two vectors are left to last_vec.
AfterLoopShort(left) ==
    CASE left >= 4 * VEC_SIZE -> "loop_4x_vec"
      [] left <= 2 * VEC_SIZE -> "last_vec"
      [] OTHER                -> "last_4x_vec"

\* Mutation of AfterLoop: the loop goes on with less than four vectors left.
AfterLoopLong(left) ==
    CASE left >= 3 * VEC_SIZE -> "loop_4x_vec"
      [] left <= VEC_SIZE     -> "last_vec"
      [] left > VEC_SIZE /\ left <= 2 * VEC_SIZE -> "last_2x_vec"
      [] OTHER                -> "last_4x_vec"

\* Where the loop goes with `left` bytes not compared.
AfterLoop(left) ==
    CASE left >= 4 * VEC_SIZE -> "loop_4x_vec"
      [] left <= VEC_SIZE     -> "last_vec"
      [] left > VEC_SIZE /\ left <= 2 * VEC_SIZE -> "last_2x_vec"
      [] OTHER                -> "last_4x_vec"

\* Mutation of Loop4xVec: the pointers and the length do not move.
Loop4xVecStuck ==
    /\ pc = "loop_4x_vec"
    /\ FourAt(di, Goto(AfterLoop(dx)))
    /\ UNCHANGED <<args, di, dx>>

Loop4xVec ==
    /\ pc = "loop_4x_vec"
    /\ di' = di + 4 * VEC_SIZE
    /\ dx' = dx - 4 * VEC_SIZE
    /\ FourAt(di, Goto(AfterLoop(dx')))
    /\ UNCHANGED args

\* The third and fourth vectors are the last two, and may overlap the others.
Last4xVec ==
    /\ pc = "last_4x_vec"
    /\ InTurn(<<di, di + VEC_SIZE, di + dx - 2 * VEC_SIZE, di + dx - VEC_SIZE>>,
              VEC_SIZE, ReturnZero)
    /\ di' = di + dx - VEC_SIZE
    /\ UNCHANGED <<args, dx>>

Next ==
    \/ Entry
    \/ UpToOne \/ TwoOrThree \/ FourToSeven \/ TwoOverlapping(8) \/ TwoOverlapping(16)
    \/ From4xTo8x \/ LastFour \/ Last2xVec \/ LastVec
    \/ More8xVec \/ Loop4xVec \/ Last4xVec

Spec == Init /\ [][Next]_vars
FairSpec == Spec /\ WF_vars(Next)

-----------------------------------------------------------------------------
Labels == {"memcmp_avx2_asm", "less_vec", "from_4x_to_8x", "last_four",
           "last_2x_vec", "last_vec", "more_8x_vec", "loop_4x_vec",
           "last_4x_vec", "done"}

(* %rdx never goes below zero (it is unsigned) nor the offset out of the
   buffer.                                                                 *)
TypeOK ==
    /\ pc \in Labels
    /\ n \in Lengths /\ differ \subseteq 0..(n - 1)
    /\ secondByteZero \in BOOLEAN /\ misalign \in Misalignments
    /\ di \in 0..n /\ dx \in 0..n
    /\ ret \in BOOLEAN
    /\ diffPos \in {Unset} \cup 0..(n - 1)
    /\ reach \in [lo : Int, hi : Int]

(* When the bytes differ the result is not zero and *diffPos is the FIRST
   difference, through every path, overlap and alignment: cmpWrite
   (awn.c:558) counts the bytes before it as already in the file.          *)
ReportsFirstDifference ==
    pc = "done" /\ differ # {} => ret /\ diffPos = Min(differ)

(* When the bytes are equal the result is zero: cmpWrite then counts all of
   them.                                                                   *)
EqualReturnsZero == pc = "done" /\ differ = {} => ~ret

(* It does for every length but two and three.                             *)
EqualReturnsZeroButShort == n \notin 2..3 => EqualReturnsZero

(* The loads stay inside the buffers, but for the word at 4 of five bytes
   (memcmp-avx2-addr.S:220), which reads one byte more.                    *)
LoadsInBounds == reach.lo >= 0 /\ (reach.hi <= n \/ (n = 5 /\ reach.hi = 6))

(* The loop always reaches a tail and the function returns: dx falls below
   4 * VEC_SIZE without wrapping.  Instructions that can run do run.       *)
Terminates == <>(pc = "done")
=============================================================================
