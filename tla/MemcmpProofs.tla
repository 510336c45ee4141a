---------------------------- MODULE MemcmpProofs ----------------------------
(* What memcmp_avx2_asm returns and what it loads, for every length, every
   alignment and every placing of the differences.                           *)
EXTENDS Memcmp, TLAPS, WellFoundedInduction

-----------------------------------------------------------------------------
(* Least and greatest elements.                                              *)

LEMMA MinNat ==
    ASSUME NEW S, S \subseteq Nat, S # {}
    PROVE  Min(S) \in S /\ \A x \in S : Min(S) <= x
<1>1. \E x \in S : \A y \in S : ~(<<y, x>> \in OpToRel(<, Nat))
  BY NatLessThanWellFounded, WFMin
<1>2. PICK x \in S : \A y \in S : ~(<<y, x>> \in OpToRel(<, Nat))
  BY <1>1
<1>3. ASSUME NEW y \in S PROVE x <= y
  <2>1. x \in Nat /\ y \in Nat
    OBVIOUS
  <2>2. ~(y < x)
    BY <1>2, <2>1 DEF OpToRel
  <2> QED BY <2>1, <2>2
<1>4. \E m \in S : \A y \in S : m <= y
  BY <1>3
<1> QED BY <1>4 DEF Min

LEMMA MinIs ==
    ASSUME NEW S, S \subseteq Nat, NEW m \in S, \A x \in S : m <= x
    PROVE  Min(S) = m
<1>1. Min(S) \in S /\ Min(S) <= m
  BY MinNat
<1>2. Min(S) \in Nat /\ m \in Nat /\ m <= Min(S)
  BY <1>1
<1> QED BY <1>1, <1>2

LEMMA MaxNat ==
    ASSUME NEW S, S \subseteq Nat, S # {}, NEW b \in Nat, \A x \in S : x <= b
    PROVE  Max(S) \in S /\ \A x \in S : x <= Max(S)
<1> DEFINE T == {b - x : x \in S}
<1>1. T \subseteq Nat /\ T # {}
  <2>1. ASSUME NEW x \in S PROVE b - x \in Nat
    <3>1. x \in Nat /\ x <= b
      OBVIOUS
    <3> QED BY <3>1
  <2> QED BY <2>1
<1>2. Min(T) \in T /\ \A t \in T : Min(T) <= t
  BY <1>1, MinNat
<1>3. PICK m \in S : Min(T) = b - m
  BY <1>2
<1>4. ASSUME NEW x \in S PROVE x <= m
  <2>1. b - m <= b - x
    BY <1>2, <1>3
  <2> QED BY <2>1
<1>5. \E k \in S : \A x \in S : k >= x
  BY <1>4
<1> QED BY <1>5 DEF Max

-----------------------------------------------------------------------------
(* Loads and comparisons.                                                    *)

Arguments ==
    /\ n \in Nat /\ n \in Lengths
    /\ differ \subseteq 0..(n - 1)
    /\ secondByteZero \in BOOLEAN
    /\ misalign \in Misalignments /\ misalign \in 0..31

Reached == reach \in [lo : Nat, hi : 0..n]

(* Loads inside the buffers leave what has been loaded inside them.          *)
LEMMA LoadInBounds ==
    ASSUME Arguments, Reached, NEW S, S \subseteq Nat, NEW w \in Nat,
           \A a \in S : a + w <= n, Load(S, w)
    PROVE  reach' \in [lo : Nat, hi : 0..n]
<1> DEFINE lows == S \cup {reach.lo}
           highs == {a + w : a \in S} \cup {reach.hi}
<1>1. n \in Nat /\ reach.lo \in Nat /\ reach.hi \in 0..n
  BY DEF Reached, Arguments
<1>2. lows \subseteq Nat /\ lows # {}
  BY <1>1
<1>3. highs \subseteq Nat /\ highs # {} /\ \A x \in highs : x <= n
  <2>1. ASSUME NEW a \in S PROVE a + w \in Nat /\ a + w <= n
    <3>1. a \in Nat
      OBVIOUS
    <3> QED BY <3>1
  <2> QED BY <1>1, <2>1
<1>4. Min(lows) \in Nat
  BY <1>2, MinNat
<1>5. Max(highs) \in 0..n
  <2>1. Max(highs) \in highs
    BY <1>1, <1>3, MaxNat
  <2> QED BY <1>3, <2>1
<1> QED BY <1>4, <1>5 DEF Load

Clean(k) == \A x \in differ : x >= k

(* A window with all that lies before it equal holds the first difference, if
   it holds any.                                                             *)
LEMMA FirstInWindow ==
    ASSUME Arguments, NEW a \in Nat, NEW w \in Nat, Clean(a), Hit(a, w)
    PROVE  differ # {} /\ Min(differ \cap Window(a, w)) = Min(differ)
<1>1. differ \subseteq Nat
  BY DEF Arguments
<1> DEFINE there == differ \cap Window(a, w)
<1>2. there # {} /\ there \subseteq Nat
  BY <1>1 DEF Hit
<1>3. PICK m \in there : m = Min(there) /\ \A x \in there : m <= x
  BY <1>2, MinNat
<1>4. m \in Nat /\ m <= a + w - 1
  BY <1>1 DEF Window
<1>5. ASSUME NEW x \in differ PROVE m <= x
  <2>1. CASE x \in Window(a, w)
    BY <2>1, <1>3
  <2>2. CASE x \notin Window(a, w)
    <3>1. x \in Nat /\ x >= a
      BY <1>1 DEF Clean
    <3>2. x > a + w - 1
      BY <2>2, <3>1 DEF Window
    <3> QED BY <3>1, <3>2, <1>4
  <2> QED BY <2>1, <2>2
<1>6. m \in differ /\ m = Min(differ)
  BY <1>1, <1>5, MinIs
<1> QED BY <1>3, <1>6

TurnHits(as, w) == {i \in DOMAIN as : Hit(as[i], w)}

(* The first of the windows that differs holds the first difference, when each
   difference before a window lies in an earlier one.                        *)
LEMMA FirstHit ==
    ASSUME Arguments, NEW k \in Nat, NEW as \in [1..k -> Nat], NEW w \in Nat,
           TurnHits(as, w) # {},
           \A i \in 1..k : \A x \in differ :
              x < as[i] => \E j \in 1..(i - 1) : Hit(as[j], w)
    PROVE  /\ Min(TurnHits(as, w)) \in 1..k
           /\ differ # {}
           /\ Min(differ \cap Window(as[Min(TurnHits(as, w))], w)) = Min(differ)
<1>1. differ \subseteq Nat
  BY DEF Arguments
<1>2. DOMAIN as = 1..k
  OBVIOUS
<1>3. TurnHits(as, w) \subseteq Nat
  <2>1. TurnHits(as, w) \subseteq 1..k
    BY <1>2 DEF TurnHits
  <2>2. 1..k \subseteq Nat
    OBVIOUS
  <2> QED BY <2>1, <2>2
<1>4. PICK i \in TurnHits(as, w) :
         i = Min(TurnHits(as, w)) /\ \A j \in TurnHits(as, w) : i <= j
  BY <1>3, MinNat
<1>5. i \in 1..k /\ Hit(as[i], w)
  BY <1>2, <1>4 DEF TurnHits
<1>6. PICK a \in Nat : a = as[i]
  BY <1>5
<1>7. ASSUME NEW x \in differ PROVE x >= a
  <2>1. ASSUME NEW j \in 1..(i - 1) PROVE ~Hit(as[j], w)
    <3>1. j \in 1..k /\ ~(i <= j)
      BY <1>5
    <3> QED BY <1>2, <1>4, <3>1 DEF TurnHits
  <2>2. ~(x < a)
    BY <1>5, <1>6, <2>1
  <2> QED BY <1>1, <2>2
<1>8. Clean(a)
  BY <1>7 DEF Clean
<1> QED BY <1>4, <1>5, <1>6, <1>8, FirstInWindow

(* Windows compared in turn: what follows from the first that differs, and from
   none.                                                                     *)
Loaded == reach' \in [lo : Nat, hi : 0..n]

FoundFirst ==
    /\ pc' = "done" /\ ret' = TRUE
    /\ differ # {} /\ diffPos' = Min(differ)

LEMMA TurnHit ==
    ASSUME Arguments, Reached, NEW k \in Nat, NEW as \in [1..k -> Nat], NEW w \in Nat,
           \A i \in 1..k : as[i] + w <= n,
           \A i \in 1..k : \A x \in differ :
              x < as[i] => \E j \in 1..(i - 1) : Hit(as[j], w),
           TurnHits(as, w) # {},
           NEW upto \in Nat, Min(TurnHits(as, w)) <= upto, upto <= k,
           Load({as[i] : i \in 1..upto}, w),
           FirstVec(as[Min(TurnHits(as, w))], w)
    PROVE  Loaded /\ FoundFirst
<1>1. FoundFirst
  BY FirstHit DEF FirstVec, Return, FoundFirst
<1> DEFINE S == {as[i] : i \in 1..upto}
<1>2. ASSUME NEW a \in S PROVE a \in Nat /\ a + w <= n
  <2>1. PICK i \in 1..upto : a = as[i]
    OBVIOUS
  <2>2. i \in 1..k
    OBVIOUS
  <2> QED BY <2>1, <2>2
<1>3. Loaded
  BY <1>2, LoadInBounds DEF Loaded
<1> QED BY <1>1, <1>3

LEMMA TurnHitUpto ==
    ASSUME Arguments, Reached, NEW k \in Nat, NEW as \in [1..k -> Nat], NEW w \in Nat,
           \A i \in 1..k : as[i] + w <= n,
           \A i \in 1..k : \A x \in differ :
              x < as[i] => \E j \in 1..(i - 1) : Hit(as[j], w),
           TurnHits(as, w) # {},
           Load({as[i] : i \in 1..Min(TurnHits(as, w))}, w),
           FirstVec(as[Min(TurnHits(as, w))], w)
    PROVE  Loaded /\ FoundFirst
<1>1. Min(TurnHits(as, w)) \in 1..k
  BY FirstHit
<1>2. PICK m \in 1..k : m = Min(TurnHits(as, w))
  BY <1>1
<1>3. m \in Nat /\ m <= m /\ m <= k
  OBVIOUS
<1>4. Min(TurnHits(as, w)) <= m
  BY <1>2, <1>3
<1> QED BY <1>2, <1>3, <1>4, TurnHit

LEMMA TurnHitAll ==
    ASSUME Arguments, Reached, NEW k \in Nat, NEW as \in [1..k -> Nat], NEW w \in Nat,
           \A i \in 1..k : as[i] + w <= n,
           \A i \in 1..k : \A x \in differ :
              x < as[i] => \E j \in 1..(i - 1) : Hit(as[j], w),
           TurnHits(as, w) # {},
           Load({as[i] : i \in 1..k}, w),
           FirstVec(as[Min(TurnHits(as, w))], w)
    PROVE  Loaded /\ FoundFirst
<1>1. Min(TurnHits(as, w)) \in 1..k
  BY FirstHit
<1>2. PICK m \in 1..k : m = Min(TurnHits(as, w))
  BY <1>1
<1>3. k <= k /\ m <= k
  OBVIOUS
<1>4. Min(TurnHits(as, w)) <= k
  BY <1>2, <1>3
<1> QED BY <1>2, <1>3, <1>4, TurnHit

LEMMA TurnMiss ==
    ASSUME Arguments, Reached, NEW k \in Nat, NEW as \in [1..k -> Nat], NEW w \in Nat,
           \A i \in 1..k : as[i] + w <= n,
           TurnHits(as, w) = {},
           Load({as[i] : i \in 1..k}, w)
    PROVE  /\ Loaded
           /\ \A i \in 1..k : \A x \in differ : x < as[i] \/ x >= as[i] + w
<1> DEFINE S == {as[i] : i \in 1..k}
<1>1. ASSUME NEW a \in S PROVE a \in Nat /\ a + w <= n
  OBVIOUS
<1>2. Loaded
  BY <1>1, LoadInBounds DEF Loaded
<1>3. ASSUME NEW i \in 1..k, NEW x \in differ PROVE x < as[i] \/ x >= as[i] + w
  <2>1. ~Hit(as[i], w)
    BY DEF TurnHits
  <2>2. PICK a \in Nat : a = as[i]
    OBVIOUS
  <2>3. x \notin Window(a, w)
    BY <2>1, <2>2 DEF Hit
  <2>4. x \in Nat
    BY DEF Arguments
  <2>5. x < a \/ x >= a + w
    <3>1. a \in Nat /\ w \in Nat /\ x \in Nat
      BY <2>4
    <3>2. x \notin a..(a + w - 1)
      BY <2>3 DEF Window
    <3> QED BY <3>1, <3>2
  <2> QED BY <2>2, <2>5
<1> QED BY <1>2, <1>3

-----------------------------------------------------------------------------
(* The inductive invariant: what is known at each label.                     *)

Position ==
    /\ pc \in Labels
    /\ di \in 0..n /\ dx \in 0..n
    /\ ret \in BOOLEAN
    /\ pc # "done" => di + dx = n /\ ret = FALSE /\ diffPos = Unset
    /\ pc \in {"memcmp_avx2_asm", "less_vec", "from_4x_to_8x", "last_four",
              "more_8x_vec"} => di = 0

\* The bytes left, and those known to be equal.
Settled ==
    /\ pc = "less_vec" => n < 32
    /\ pc = "from_4x_to_8x" => n \in 128..256
    /\ pc = "last_four" => n \in 128..256 /\ Clean(128)
    /\ pc = "last_2x_vec" => dx \in 33..64 /\ Clean(di)
    /\ pc = "last_vec" => n >= 32 /\ Clean(n - 32)
    /\ pc = "more_8x_vec" => n > 256 /\ Clean(32)
    /\ pc = "loop_4x_vec" => dx >= 128 /\ Clean(di)
    /\ pc = "last_4x_vec" => dx \in 65..128 /\ Clean(di)

Bounds ==
    /\ reach \in [lo : Nat, hi : Nat]
    /\ reach.hi <= n \/ (n = 5 /\ reach.hi = 6)
    /\ pc # "done" => Reached

Right ==
    pc = "done" =>
        /\ diffPos \in {Unset} \cup 0..(n - 1)
        /\ differ # {} => ret = TRUE /\ diffPos = Min(differ)
        /\ differ = {} /\ n \notin 2..3 => ret = FALSE

MemInv == Arguments /\ Position /\ Settled /\ Bounds /\ Right

LEMMA InitInv == Init => MemInv
<1> SUFFICES ASSUME Init PROVE MemInv
  OBVIOUS
<1>1. Arguments
  <2>1. n \in Nat /\ n \in Lengths
    BY LengthsAssumption DEF Init
  <2>2. differ \subseteq 0..(n - 1)
    BY DifferSetsAssumption DEF Init
  <2>3. secondByteZero \in BOOLEAN
    BY DEF Init
  <2>4. misalign \in Misalignments /\ misalign \in 0..31
    BY MisalignmentsAssumption DEF Init, VEC_SIZE
  <2> QED BY <2>1, <2>2, <2>3, <2>4 DEF Arguments
<1>2. Position /\ Settled /\ Right
  <2>1. n \in Nat /\ pc = "memcmp_avx2_asm" /\ di = 0 /\ dx = n
           /\ ret = FALSE /\ diffPos = Unset
    BY <1>1 DEF Init, Arguments
  <2>2. di \in 0..n /\ dx \in 0..n /\ di + dx = n
    BY <2>1
  <2>3. Position
    BY <2>1, <2>2 DEF Position, Labels
  <2>4. Settled /\ Right
    BY <2>1 DEF Settled, Right
  <2> QED BY <2>3, <2>4
<1>3. Bounds
  BY <1>1 DEF Init, Arguments, Bounds, Reached
<1> QED BY <1>1, <1>2, <1>3 DEF MemInv

LEMMA ArgumentsKept == ASSUME Arguments, UNCHANGED args PROVE Arguments'
  BY DEF Arguments, args

\* Going on at another label.
Continue ==
    /\ UNCHANGED <<args, ret, diffPos>>
    /\ pc # "done" /\ pc' \in Labels /\ pc' # "done"
    /\ di' \in 0..n /\ dx' \in 0..n /\ di' + dx' = n
    /\ Loaded

LEMMA Continues ==
    ASSUME MemInv, Continue, Settled',
           pc' \in {"memcmp_avx2_asm", "less_vec", "from_4x_to_8x", "last_four",
                   "more_8x_vec"} => di' = 0
    PROVE  MemInv'
<1>1. Arguments'
  BY ArgumentsKept DEF Continue, MemInv
<1>2. n' = n /\ ret' = ret /\ diffPos' = diffPos /\ differ' = differ
  BY DEF Continue, args
<1>3. Position'
  BY <1>2 DEF Continue, MemInv, Position
<1>4. Bounds'
  <2>1. reach'.hi <= n /\ reach' \in [lo : Nat, hi : Nat]
    BY DEF Continue, Loaded, MemInv, Arguments
  <2> QED BY <2>1, <1>2 DEF Continue, Loaded, Bounds, Reached
<1>5. Right'
  BY DEF Continue, Right
<1> QED BY <1>1, <1>3, <1>4, <1>5 DEF MemInv

\* Returning, with the pointers and the loads still inside the buffers.
Returns ==
    /\ UNCHANGED args
    /\ pc' = "done" /\ ret' \in BOOLEAN
    /\ di' \in 0..n /\ dx' \in 0..n

LEMMA ReturnsInv ==
    ASSUME MemInv, Returns,
           reach' \in [lo : Nat, hi : Nat],
           reach'.hi <= n \/ (n = 5 /\ reach'.hi = 6),
           diffPos' \in {Unset} \cup 0..(n - 1),
           differ # {} => ret' = TRUE /\ diffPos' = Min(differ),
           differ = {} /\ n \notin 2..3 => ret' = FALSE
    PROVE  MemInv'
<1>1. Arguments'
  BY ArgumentsKept DEF Returns, MemInv
<1>2. n' = n /\ differ' = differ
  BY DEF Returns, args
<1>3. Position' /\ Settled'
  BY <1>2 DEF Returns, Position, Settled, Labels
<1>4. Bounds'
  BY <1>2 DEF Returns, Bounds
<1>5. Right'
  BY <1>2 DEF Returns, Right
<1> QED BY <1>1, <1>3, <1>4, <1>5 DEF MemInv

LEMMA FirstIsInside ==
    ASSUME Arguments, differ # {}
    PROVE  Min(differ) \in 0..(n - 1)
<1>1. differ \subseteq Nat
  BY DEF Arguments
<1> QED BY <1>1, MinNat DEF Arguments

LEMMA ReturnsFirst ==
    ASSUME MemInv, Returns, Loaded, FoundFirst
    PROVE  MemInv'
<1>1. reach' \in [lo : Nat, hi : Nat] /\ reach'.hi <= n
  BY DEF Loaded, MemInv, Arguments
<1>2. diffPos' \in 0..(n - 1)
  BY FirstIsInside DEF FoundFirst, MemInv
<1> QED BY <1>1, <1>2, ReturnsInv DEF FoundFirst

LEMMA ReturnsEqual ==
    ASSUME MemInv, Returns, Loaded, pc # "done", ReturnZero, differ = {}
    PROVE  MemInv'
<1>1. reach' \in [lo : Nat, hi : Nat] /\ reach'.hi <= n
  BY DEF Loaded, MemInv, Arguments
<1>2. diffPos' = Unset /\ ret' = FALSE
  BY DEF ReturnZero, Return, MemInv, Position
<1> QED BY <1>1, <1>2, ReturnsInv

-----------------------------------------------------------------------------
(* Fewer than 32 bytes.                                                      *)

LEMMA LessVec ==
    ASSUME MemInv, pc = "less_vec"
    PROVE  /\ di = 0 /\ dx = n /\ n < 32 /\ n \in Nat
           /\ differ \subseteq 0..(n - 1)
           /\ Arguments /\ Reached
           /\ ret = FALSE /\ diffPos = Unset
  BY DEF MemInv, Position, Settled, Bounds, Arguments

LEMMA UpToOneInv == ASSUME MemInv, UpToOne PROVE MemInv'
<1>1. pc = "less_vec" /\ n < 2 /\ UNCHANGED args /\ di' = di /\ dx' = dx
  BY DEF UpToOne
<1>2. di = 0 /\ dx = n /\ n \in Nat
  BY <1>1, LessVec
<1>3. CASE n = 1
  <2>1. Load({0}, 1) /\ Return(0 \in differ, 0)
    BY <1>3 DEF UpToOne
  <2>2. Loaded
    <3>1. {0} \subseteq Nat /\ \A a \in {0} : a + 1 <= n
      BY <1>3
    <3> QED BY <1>1, <2>1, <3>1, LessVec, LoadInBounds DEF Loaded
  <2>3. reach' \in [lo : Nat, hi : Nat] /\ reach'.hi <= n
    BY <1>2, <2>2 DEF Loaded
  <2>4. differ # {} => 0 \in differ /\ Min(differ) = 0
    <3>1. differ \subseteq {0}
      BY <1>1, <1>3, LessVec
    <3>2. differ # {} => differ = {0}
      BY <3>1
    <3>3. Min({0}) = 0
      BY MinIs
    <3> QED BY <3>2, <3>3
  <2>5. ret' = (0 \in differ) /\ diffPos' = 0 /\ pc' = "done" /\ ret' \in BOOLEAN
    BY <2>1 DEF Return
  <2>6. Returns
    BY <1>1, <1>2, <1>3, <2>5 DEF Returns
  <2>7. differ = {} => ret' = FALSE
    BY <2>5
  <2>8. differ # {} => ret' = TRUE /\ diffPos' = Min(differ)
    BY <2>4, <2>5
  <2>9. diffPos' \in {Unset} \cup 0..(n - 1)
    BY <1>3, <2>5
  <2> QED BY <2>3, <2>6, <2>7, <2>8, <2>9, ReturnsInv
<1>4. CASE n # 1
  <2>1. n = 0 /\ ReturnZero /\ reach' = reach
    BY <1>1, <1>2, <1>4 DEF UpToOne
  <2>2. differ = {}
    BY <1>1, <2>1, LessVec
  <2>3. Loaded
    BY <1>1, <2>1, LessVec DEF Loaded, Reached
  <2>4. Returns
    <3>1. pc' = "done" /\ ret' = FALSE
      BY <2>1 DEF ReturnZero, Return
    <3>2. di' \in 0..n /\ dx' \in 0..n
      BY <1>1, <1>2, <2>1
    <3> QED BY <1>1, <3>1, <3>2 DEF Returns
  <2> QED BY <1>1, <2>1, <2>2, <2>3, <2>4, ReturnsEqual
<1> QED BY <1>3, <1>4

LEMMA TwoOrThreeInv == ASSUME MemInv, TwoOrThree PROVE MemInv'
<1>1. /\ pc = "less_vec" /\ n \in 2..3 /\ UNCHANGED args /\ di' = di /\ dx' = dx
      /\ Load({0, n - 2}, 2)
  BY DEF TwoOrThree
<1>2. di = 0 /\ dx = n /\ n \in Nat /\ differ \subseteq 0..(n - 1)
  BY <1>1, LessVec
<1>3. Loaded
  <2>1. {0, n - 2} \subseteq Nat /\ \A a \in {0, n - 2} : a + 2 <= n
    BY <1>1
  <2> QED BY <1>1, <2>1, LessVec, LoadInBounds DEF Loaded
<1>4. reach' \in [lo : Nat, hi : Nat] /\ reach'.hi <= n
  BY <1>2, <1>3 DEF Loaded
<1>5. differ \subseteq Nat /\ Word(0) = differ \cap {0, 1}
  BY <1>2 DEF Word
<1>6. CASE Word(0) # {}
  <2>1. pc' = "done" /\ ret' = TRUE /\ diffPos' = Min(Word(0))
    BY <1>1, <1>6 DEF TwoOrThree, Return
  <2>2. PICK m \in Word(0) : m = Min(Word(0)) /\ \A x \in Word(0) : m <= x
    BY <1>5, <1>6, MinNat
  <2>3. \A x \in differ : m <= x
    BY <1>5, <2>2
  <2>4. Min(differ) = m /\ m \in 0..(n - 1)
    BY <1>2, <1>5, <2>2, <2>3, MinIs
  <2>5. Returns
    BY <1>1, <1>2, <2>1 DEF Returns
  <2> QED BY <1>4, <1>6, <2>1, <2>2, <2>4, <2>5, <1>5, ReturnsInv
<1>7. CASE Word(0) = {}
  <2>1. /\ pc' = "done" /\ diffPos' = n - 1
        /\ ret' = (n - 1 \in differ \/ ~secondByteZero) /\ ret' \in BOOLEAN
    BY <1>1, <1>7 DEF TwoOrThree, Return
  <2>2. differ # {} => n - 1 \in differ /\ \A x \in differ : n - 1 <= x
    <3>1. ASSUME NEW x \in differ PROVE x = 2 /\ n = 3
      <4>1. x \in 0..(n - 1) /\ x \notin {0, 1}
        BY <1>2, <1>5, <1>7
      <4> QED BY <1>1, <4>1
    <3> QED BY <3>1
  <2>3. differ # {} => Min(differ) = n - 1
    BY <1>5, <2>2, MinIs
  <2>4. Returns
    BY <1>1, <1>2, <2>1 DEF Returns
  <2>5. diffPos' \in {Unset} \cup 0..(n - 1)
    BY <1>1, <2>1
  <2>6. differ # {} => ret' = TRUE /\ diffPos' = Min(differ)
    BY <2>1, <2>2, <2>3
  <2> QED BY <1>1, <1>4, <2>4, <2>5, <2>6, ReturnsInv
<1> QED BY <1>6, <1>7

LEMMA FourToSevenInv == ASSUME MemInv, FourToSeven PROVE MemInv'
<1> DEFINE words == {a \in {0, 2, 4} : Word(a) # {}}
<1>1. pc = "less_vec" /\ n \in 4..7 /\ UNCHANGED args /\ di' = di /\ dx' = dx
  BY DEF FourToSeven
<1>2. di = 0 /\ dx = n /\ n \in Nat /\ differ \subseteq 0..(n - 1)
         /\ differ \subseteq Nat /\ Arguments /\ Reached
  BY <1>1, LessVec
<1>3. CASE differ = {}
  <2>1. Load({0, n - 4}, 4) /\ ReturnZero
    BY <1>3 DEF FourToSeven
  <2>2. {0, n - 4} \subseteq Nat /\ \A a \in {0, n - 4} : a + 4 <= n
    BY <1>1
  <2>3. Loaded
    BY <1>2, <2>1, <2>2, LoadInBounds DEF Loaded
  <2>4. pc' = "done" /\ ret' = FALSE
    BY <2>1 DEF ReturnZero, Return
  <2>5. Returns
    <3>1. di' \in 0..n /\ dx' \in 0..n
      BY <1>1, <1>2
    <3> QED BY <1>1, <2>4, <3>1 DEF Returns
  <2> QED BY <1>1, <1>3, <2>1, <2>3, <2>5, ReturnsEqual
<1>4. CASE differ # {} /\ words = {}
  <2>1. Load({0, 2, n - 4}, 4) /\ Return(TRUE, 6)
    BY <1>4 DEF FourToSeven
  <2>2. differ = {6} /\ n = 7
    <3>1. \A x \in differ : x \notin {0, 1, 2, 3, 4, 5}
      BY <1>4 DEF Word
    <3>2. ASSUME NEW x \in differ PROVE x = 6 /\ n = 7
      <4>1. x \in 0..(n - 1) /\ x \notin {0, 1, 2, 3, 4, 5}
        BY <1>2, <3>1
      <4> QED BY <1>1, <4>1
    <3> QED BY <1>4, <3>2
  <2>3. {0, 2, n - 4} \subseteq Nat /\ \A a \in {0, 2, n - 4} : a + 4 <= n
    BY <2>2
  <2>4. Loaded
    BY <1>2, <2>1, <2>3, LoadInBounds DEF Loaded
  <2>5. pc' = "done" /\ ret' = TRUE /\ diffPos' = 6
    BY <2>1 DEF Return
  <2>6. Returns
    BY <1>1, <1>2, <2>5 DEF Returns
  <2>7. Min(differ) = 6
    BY <2>2, MinIs
  <2> QED BY <2>2, <2>4, <2>5, <2>6, <2>7, ReturnsFirst DEF FoundFirst
<1>5. CASE differ # {} /\ words # {}
  <2>1. /\ reach' = [lo |-> 0, hi |-> Max({n, Min(words) + 2})]
        /\ Return(TRUE, Min(Word(Min(words))))
    BY <1>5 DEF FourToSeven
  <2>2. PICK a \in words : a = Min(words) /\ \A b \in words : a <= b
    <3>1. words \subseteq Nat
      OBVIOUS
    <3> QED BY <1>5, <3>1, MinNat
  <2>3. a \in {0, 2, 4} /\ Word(a) # {} /\ Word(a) = differ \cap {a, a + 1}
    BY <2>2 DEF Word
  <2>4. PICK m \in Word(a) : m = Min(Word(a)) /\ \A x \in Word(a) : m <= x
    BY <1>2, <2>3, MinNat
  <2>5. ASSUME NEW x \in differ PROVE m <= x
    <3>1. CASE x \in Word(a)
      BY <2>4, <3>1
    <3>2. CASE x \notin Word(a)
      <4>1. x \in 0..6
        BY <1>1, <1>2
      <4>2. \A b \in {0, 2, 4} : x \in {b, b + 1} => a <= b
        BY <2>2 DEF Word
      <4>3. x > a + 1
        BY <3>2, <2>3, <4>1, <4>2
      <4> QED BY <2>3, <2>4, <4>1, <4>3
    <3> QED BY <3>1, <3>2
  <2>6. m \in differ /\ m = Min(differ)
    BY <1>2, <2>3, <2>4, <2>5, MinIs
  <2>7. pc' = "done" /\ ret' = TRUE /\ diffPos' = Min(differ)
    BY <2>1, <2>2, <2>4, <2>6 DEF Return
  <2>8. Returns
    BY <1>1, <1>2, <2>7 DEF Returns
  <2>9. diffPos' \in 0..(n - 1)
    BY <1>2, <2>6, <2>7
  <2>10. Max({n, a + 2}) \in Nat /\ (Max({n, a + 2}) <= n \/ (n = 5 /\ Max({n, a + 2}) = 6))
    <3>1. a + 2 <= n \/ (n = 5 /\ a + 2 = 6)
      BY <1>1, <1>2, <2>3
    <3>2. {n, a + 2} \subseteq Nat /\ \A x \in {n, a + 2} : x <= 9
      BY <1>1, <2>3
    <3>3. Max({n, a + 2}) \in {n, a + 2} /\ \A x \in {n, a + 2} : x <= Max({n, a + 2})
      BY <3>2, MaxNat
    <3> QED BY <1>1, <2>3, <3>1, <3>3
  <2>11. reach' \in [lo : Nat, hi : Nat] /\ (reach'.hi <= n \/ (n = 5 /\ reach'.hi = 6))
    BY <2>1, <2>2, <2>10
  <2> QED BY <1>5, <2>7, <2>8, <2>9, <2>11, ReturnsInv
<1> QED BY <1>3, <1>4, <1>5

LEMMA TwoOverlappingInv ==
    ASSUME MemInv, NEW w \in {8, 16}, TwoOverlapping(w)
    PROVE  MemInv'
<1> DEFINE as == <<0, n - w>>
<1>1. /\ pc = "less_vec" /\ n \in w..(2 * w - 1) /\ UNCHANGED args
      /\ di' = n - w /\ dx' = dx
  BY DEF TwoOverlapping
<1>2. di = 0 /\ dx = n /\ n \in Nat /\ Arguments /\ Reached /\ differ \subseteq 0..(n - 1)
  BY <1>1, LessVec
<1>3. di' \in 0..n /\ dx' \in 0..n
  BY <1>1, <1>2
<1>4. /\ as \in [1..2 -> Nat] /\ as[1] = 0 /\ as[2] = n - w /\ Len(as) = 2
      /\ DOMAIN as = 1..2
  BY <1>1, <1>2
<1>5. \/ TurnHits(as, w) = {} /\ Load({as[i] : i \in 1..2}, w) /\ ReturnZero
      \/ /\ TurnHits(as, w) # {}
         /\ Load({as[i] : i \in 1..Min(TurnHits(as, w))}, w)
         /\ FirstVec(as[Min(TurnHits(as, w))], w)
  BY <1>4 DEF TwoOverlapping, InTurn, TurnHits
<1> HIDE DEF as
<1>6. ASSUME NEW i \in 1..2 PROVE as[i] + w <= n
  <2>1. 0 + w <= n /\ (n - w) + w <= n
    BY <1>1, <1>2
  <2>2. i = 1 \/ i = 2
    OBVIOUS
  <2> QED BY <1>4, <2>1, <2>2
<1>7. CASE TurnHits(as, w) = {} /\ Load({as[i] : i \in 1..2}, w) /\ ReturnZero
  <2>1. Loaded /\ \A i \in 1..2 : \A x \in differ : x < as[i] \/ x >= as[i] + w
    BY <1>2, <1>4, <1>6, <1>7, TurnMiss
  <2>2. differ = {}
    <3>1. ASSUME NEW x \in differ PROVE FALSE
      <4>1. (x < 0 \/ x >= 0 + w) /\ (x < n - w \/ x >= (n - w) + w)
        <5>1. 1 \in 1..2 /\ 2 \in 1..2
          OBVIOUS
        <5> QED BY <1>4, <2>1, <5>1
      <4>2. x \in 0..(n - 1)
        BY <1>2
      <4> QED BY <1>1, <1>2, <4>1, <4>2
    <3> QED BY <3>1
  <2>3. pc' = "done" /\ ret' = FALSE
    BY <1>7 DEF ReturnZero, Return
  <2>4. Returns
    BY <1>1, <1>3, <2>3 DEF Returns
  <2> QED BY <1>1, <1>7, <2>1, <2>2, <2>4, ReturnsEqual
<1>8. CASE /\ TurnHits(as, w) # {}
           /\ Load({as[i] : i \in 1..Min(TurnHits(as, w))}, w)
           /\ FirstVec(as[Min(TurnHits(as, w))], w)
  <2>1. ASSUME NEW i \in 1..2, NEW x \in differ, x < as[i]
        PROVE  \E j \in 1..(i - 1) : Hit(as[j], w)
    <3>1. x \in 0..(n - 1)
      BY <1>2
    <3>2. i = 2 /\ x < n - w
      <4>1. i = 1 \/ i = 2
        OBVIOUS
      <4>2. ~(x < 0)
        BY <3>1
      <4> QED BY <1>4, <2>1, <4>1, <4>2
    <3>3. x \in Window(0, w)
      BY <1>1, <1>2, <3>1, <3>2 DEF Window
    <3>4. Hit(as[1], w)
      BY <1>4, <3>3 DEF Hit
    <3>5. 1 \in 1..(i - 1)
      BY <3>2
    <3> QED BY <3>4, <3>5
  <2>2. Loaded /\ FoundFirst
    <3>1. w \in Nat /\ 2 \in Nat
      OBVIOUS
    <3>2. \A i \in 1..2 : as[i] + w <= n
      BY <1>6
    <3>3. \A i \in 1..2 : \A x \in differ :
             x < as[i] => \E j \in 1..(i - 1) : Hit(as[j], w)
      BY <2>1
    <3> QED BY <1>2, <1>4, <1>8, <3>1, <3>2, <3>3, TurnHitUpto, Zenon
  <2>3. Returns
    BY <1>1, <1>3, <2>2 DEF Returns, FoundFirst
  <2> QED BY <2>2, <2>3, ReturnsFirst
<1> QED BY <1>5, <1>7, <1>8

-----------------------------------------------------------------------------
(* 32 bytes or more: a single vector, and four of them.                      *)

\* InTurn of a single vector at a.
One(a) ==
    \/ Hit(a, 32) /\ Load({a}, 32) /\ FirstVec(a, 32)
    \/ ~Hit(a, 32) /\ Load({a}, 32)

LEMMA SingleWindow ==
    ASSUME NEW a
    PROVE  /\ TurnHits(<<a>>, 32) = IF Hit(a, 32) THEN {1} ELSE {}
           /\ {<<a>>[i] : i \in 1..1} = {a} /\ Len(<<a>>) = 1 /\ Min({1}) = 1
<1>1. DOMAIN <<a>> = 1..1 /\ <<a>>[1] = a /\ Len(<<a>>) = 1
  OBVIOUS
<1>2. \A i \in 1..1 : i = 1
  OBVIOUS
<1>3. 1 \in 1..1
  OBVIOUS
<1>4. TurnHits(<<a>>, 32) = IF Hit(a, 32) THEN {1} ELSE {}
  BY <1>1, <1>2, <1>3 DEF TurnHits
<1>5. Min({1}) = 1
  BY MinIs
<1>6. {<<a>>[i] : i \in 1..1} = {a}
  BY <1>1, <1>2, <1>3
<1> QED BY <1>1, <1>4, <1>5, <1>6

LEMMA OneVector ==
    ASSUME Arguments, Reached, NEW a \in Nat, a + 32 <= n, Clean(a), One(a)
    PROVE  /\ Loaded
           /\ Hit(a, 32) => FoundFirst
           /\ ~Hit(a, 32) => Clean(a + 32)
<1>1. Load({a}, 32) /\ {a} \subseteq Nat /\ \A b \in {a} : b + 32 <= n
  BY DEF One
<1>2. Loaded
  BY <1>1, LoadInBounds DEF Loaded
<1>3. ASSUME Hit(a, 32) PROVE FoundFirst
  BY <1>3, FirstInWindow DEF One, FirstVec, Return, FoundFirst
<1>4. ASSUME ~Hit(a, 32) PROVE Clean(a + 32)
  <2>1. ASSUME NEW x \in differ PROVE x >= a + 32
    <3>1. x \in Nat /\ x >= a
      BY DEF Clean, Arguments
    <3>2. x \notin a..(a + 32 - 1)
      BY <1>4 DEF Hit, Window
    <3> QED BY <3>1, <3>2
  <2> QED BY <2>1 DEF Clean
<1> QED BY <1>2, <1>3, <1>4

LEMMA EntryInv == ASSUME MemInv, Entry PROVE MemInv'
<1>1. pc = "memcmp_avx2_asm" /\ UNCHANGED args /\ di' = di /\ dx' = dx
  BY DEF Entry
<1>2. /\ di = 0 /\ dx = n /\ n \in Nat /\ Arguments /\ Reached
      /\ ret = FALSE /\ diffPos = Unset
  BY <1>1 DEF MemInv, Position, Bounds, Arguments
<1>3. di' \in 0..n /\ dx' \in 0..n /\ di' + dx' = n
  BY <1>1, <1>2
<1>4. CASE n < 32
  <2>1. Goto("less_vec") /\ reach' = reach
    BY <1>1, <1>4 DEF Entry, VEC_SIZE
  <2>2. Loaded
    BY <1>2, <2>1 DEF Loaded, Reached
  <2>3. pc' = "less_vec" /\ ret' = ret /\ diffPos' = diffPos
    BY <2>1 DEF Goto
  <2>4. Continue
    BY <1>1, <1>3, <2>2, <2>3 DEF Continue, Labels
  <2>5. Settled'
    BY <1>1, <1>4, <2>3 DEF Settled, args
  <2> QED BY <1>1, <1>2, <2>3, <2>4, <2>5, Continues
<1>5. CASE ~(n < 32)
  <2> DEFINE label == CASE n <= 2 * 32 -> "last_vec"
                        [] n > 8 * 32  -> "more_8x_vec"
                        [] n > 2 * 32 /\ n < 4 * 32 -> "last_4x_vec"
                        [] OTHER       -> "from_4x_to_8x"
  <2>1. One(0) /\ (~Hit(0, 32) => Goto(label))
    <3>1. InTurn(<<0>>, 32, Goto(label))
      BY <1>1, <1>5 DEF Entry, VEC_SIZE
    <3>2. TurnHits(<<0>>, 32) = IF Hit(0, 32) THEN {1} ELSE {}
      BY SingleWindow
    <3>3. {<<0>>[i] : i \in 1..1} = {0} /\ Len(<<0>>) = 1 /\ Min({1}) = 1 /\ <<0>>[1] = 0
      BY SingleWindow
    <3> QED BY <3>1, <3>2, <3>3 DEF InTurn, TurnHits, One
  <2>2. Clean(0) /\ 0 + 32 <= n
    BY <1>2, <1>5 DEF Clean, Arguments
  <2>3. Loaded /\ (Hit(0, 32) => FoundFirst) /\ (~Hit(0, 32) => Clean(32))
    BY <1>2, <2>1, <2>2, OneVector
  <2>4. CASE Hit(0, 32)
    <3>1. Returns
      BY <1>1, <1>3, <2>3, <2>4 DEF Returns, FoundFirst
    <3> QED BY <2>3, <2>4, <3>1, ReturnsFirst
  <2>5. CASE ~Hit(0, 32)
    <3>1. pc' = label /\ ret' = ret /\ diffPos' = diffPos
      BY <2>1, <2>5 DEF Goto
    <3>2. label \in {"last_vec", "more_8x_vec", "last_4x_vec", "from_4x_to_8x"}
      BY <1>2
    <3>3. Continue
      BY <1>1, <1>3, <2>3, <3>1, <3>2 DEF Continue, Labels
    <3>4. Settled'
      <4>1. CASE pc' = "last_vec"
        <5>1. n <= 64
          BY <1>2, <3>1, <4>1
        <5>2. \A x \in differ : x >= n - 32
          BY <1>2, <2>3, <2>5, <5>1 DEF Clean, Arguments
        <5>3. n >= 32 /\ n' = n /\ differ' = differ
          BY <1>1, <1>2, <1>5 DEF args
        <5> QED BY <4>1, <5>2, <5>3 DEF Settled, Clean
      <4>2. CASE pc' = "more_8x_vec"
        <5>1. n > 256
          BY <1>2, <3>1, <4>2
        <5> QED BY <1>1, <2>3, <2>5, <4>2, <5>1 DEF Settled, Clean, args
      <4>3. CASE pc' = "last_4x_vec"
        <5>1. dx \in 65..128
          <6>1. n > 64 /\ n < 128
            BY <1>2, <3>1, <4>3
          <6> QED BY <1>2, <6>1
        <5> QED BY <1>1, <1>2, <2>2, <4>3, <5>1 DEF Settled, Clean, args
      <4>4. CASE pc' = "from_4x_to_8x"
        <5>1. n \in 128..256
          BY <1>2, <3>1, <4>4
        <5> QED BY <1>1, <4>4, <5>1 DEF Settled, args
      <4> QED BY <3>1, <3>2, <4>1, <4>2, <4>3, <4>4
    <3> QED BY <1>1, <1>2, <3>3, <3>4, Continues
  <2> QED BY <2>4, <2>5
<1> QED BY <1>4, <1>5

LEMMA Last2xVecInv == ASSUME MemInv, Last2xVec PROVE MemInv'
<1>1. pc = "last_2x_vec" /\ UNCHANGED args /\ di' = di /\ dx' = dx
  BY DEF Last2xVec
<1>2. /\ n \in Nat /\ di \in 0..n /\ dx \in 33..64 /\ di + dx = n /\ Clean(di)
      /\ Arguments /\ Reached
  BY <1>1 DEF MemInv, Position, Settled, Bounds, Arguments
<1>3. PICK a \in Nat : a = di
  BY <1>2
<1>4. One(a) /\ (~Hit(a, 32) => Goto("last_vec"))
  <2>1. InTurn(<<a>>, 32, Goto("last_vec"))
    BY <1>1, <1>3 DEF Last2xVec, VEC_SIZE
  <2>2. TurnHits(<<a>>, 32) = IF Hit(a, 32) THEN {1} ELSE {}
    BY SingleWindow
  <2>3. {<<a>>[i] : i \in 1..1} = {a} /\ Len(<<a>>) = 1 /\ Min({1}) = 1 /\ <<a>>[1] = a
    BY SingleWindow
  <2> QED BY <2>1, <2>2, <2>3 DEF InTurn, TurnHits, One
<1>5. Loaded /\ (Hit(a, 32) => FoundFirst) /\ (~Hit(a, 32) => Clean(a + 32))
  <2>1. a + 32 <= n
    BY <1>2, <1>3
  <2> QED BY <1>2, <1>3, <1>4, <2>1, OneVector
<1>6. CASE Hit(a, 32)
  <2>1. Returns
    BY <1>1, <1>2, <1>5, <1>6 DEF Returns, FoundFirst
  <2> QED BY <1>5, <1>6, <2>1, ReturnsFirst
<1>7. CASE ~Hit(a, 32)
  <2>1. pc' = "last_vec" /\ ret' = ret /\ diffPos' = diffPos
    BY <1>4, <1>7 DEF Goto
  <2>2. Continue
    BY <1>1, <1>2, <1>5, <2>1 DEF Continue, Labels
  <2>3. \A x \in differ : x >= n - 32
    BY <1>2, <1>3, <1>5, <1>7 DEF Clean, Arguments
  <2>4. n >= 32
    BY <1>2
  <2>5. Settled'
    BY <1>1, <2>1, <2>3, <2>4 DEF Settled, Clean, args
  <2> QED BY <2>1, <2>2, <2>5, Continues
<1> QED BY <1>6, <1>7

LEMMA LastVecInv == ASSUME MemInv, LastVec PROVE MemInv'
<1>1. pc = "last_vec" /\ UNCHANGED args /\ di' = di + dx - 32 /\ dx' = dx
  BY DEF LastVec, VEC_SIZE
<1>2. /\ n \in Nat /\ di \in 0..n /\ dx \in 0..n /\ di + dx = n
      /\ n >= 32 /\ Clean(n - 32) /\ Arguments /\ Reached
  BY <1>1 DEF MemInv, Position, Settled, Bounds, Arguments
<1>3. PICK a \in Nat : a = n - 32
  BY <1>2
<1>4. di' = a /\ di' \in 0..n /\ dx' \in 0..n
  BY <1>1, <1>2, <1>3
<1>5. One(a) /\ (~Hit(a, 32) => ReturnZero)
  <2>1. InTurn(<<a>>, 32, ReturnZero)
    BY <1>1, <1>4 DEF LastVec, VEC_SIZE
  <2>2. TurnHits(<<a>>, 32) = IF Hit(a, 32) THEN {1} ELSE {}
    BY SingleWindow
  <2>3. {<<a>>[i] : i \in 1..1} = {a} /\ Len(<<a>>) = 1 /\ Min({1}) = 1 /\ <<a>>[1] = a
    BY SingleWindow
  <2> QED BY <2>1, <2>2, <2>3 DEF InTurn, TurnHits, One
<1>6. Loaded /\ (Hit(a, 32) => FoundFirst) /\ (~Hit(a, 32) => Clean(a + 32))
  <2>1. a + 32 <= n
    BY <1>2, <1>3
  <2> QED BY <1>2, <1>3, <1>5, <2>1, OneVector
<1>7. CASE Hit(a, 32)
  <2>1. Returns
    BY <1>1, <1>4, <1>6, <1>7 DEF Returns, FoundFirst
  <2> QED BY <1>6, <1>7, <2>1, ReturnsFirst
<1>8. CASE ~Hit(a, 32)
  <2>1. differ = {}
    <3>1. ASSUME NEW x \in differ PROVE FALSE
      <4>1. x >= n /\ x \in 0..(n - 1)
        BY <1>2, <1>3, <1>6, <1>8 DEF Clean, Arguments
      <4> QED BY <1>2, <4>1
    <3> QED BY <3>1
  <2>2. pc' = "done" /\ ret' = FALSE
    BY <1>5, <1>8 DEF ReturnZero, Return
  <2>3. Returns
    BY <1>1, <1>4, <2>2 DEF Returns
  <2> QED BY <1>1, <1>5, <1>6, <1>8, <2>1, <2>3, ReturnsEqual
<1> QED BY <1>7, <1>8

LEMMA More8xVecInv == ASSUME MemInv, More8xVec PROVE MemInv'
<1>1. /\ pc = "more_8x_vec" /\ UNCHANGED args
      /\ di' = di + (32 - misalign) /\ dx' = dx - (32 - misalign)
  BY DEF More8xVec, Align, VEC_SIZE
<1>2. /\ di = 0 /\ dx = n /\ n \in Nat /\ n > 256 /\ Clean(32)
      /\ Arguments /\ Reached /\ misalign \in 0..31
  BY <1>1 DEF MemInv, Position, Settled, Bounds, Arguments
<1>3. di' \in 0..n /\ dx' \in 0..n /\ di' + dx' = n /\ dx' >= 128 /\ di' <= 32
  BY <1>1, <1>2
<1>4. One(0) /\ (~Hit(0, 32) => Goto("loop_4x_vec"))
  <2>1. InTurn(<<0>>, 32, Goto("loop_4x_vec"))
    BY <1>1, <1>2 DEF More8xVec, VEC_SIZE
  <2>2. TurnHits(<<0>>, 32) = IF Hit(0, 32) THEN {1} ELSE {}
    BY SingleWindow
  <2>3. {<<0>>[i] : i \in 1..1} = {0} /\ Len(<<0>>) = 1 /\ Min({1}) = 1 /\ <<0>>[1] = 0
    BY SingleWindow
  <2> QED BY <2>1, <2>2, <2>3 DEF InTurn, TurnHits, One
<1>5. Loaded /\ (Hit(0, 32) => FoundFirst)
  <2>1. Clean(0) /\ 0 + 32 <= n
    BY <1>2 DEF Clean, Arguments
  <2> QED BY <1>2, <1>4, <2>1, OneVector
<1>6. CASE Hit(0, 32)
  <2>1. Returns
    BY <1>1, <1>3, <1>5, <1>6 DEF Returns, FoundFirst
  <2> QED BY <1>5, <1>6, <2>1, ReturnsFirst
<1>7. CASE ~Hit(0, 32)
  <2>1. pc' = "loop_4x_vec" /\ ret' = ret /\ diffPos' = diffPos
    BY <1>4, <1>7 DEF Goto
  <2>2. Continue
    BY <1>1, <1>3, <1>5, <2>1 DEF Continue, Labels
  <2>3. \A x \in differ : x >= di'
    BY <1>2, <1>3 DEF Clean, Arguments
  <2>4. Settled'
    BY <1>1, <1>3, <2>1, <2>3 DEF Settled, Clean, args
  <2> QED BY <2>1, <2>2, <2>4, Continues
<1> QED BY <1>6, <1>7

-----------------------------------------------------------------------------
(* Four vectors loaded together.                                             *)

Vectors(a) == [i \in 1..4 |-> a + (i - 1) * 32]

\* FourAt from a on.
Four(a) ==
    /\ Load({Vectors(a)[i] : i \in 1..4}, 32)
    /\ TurnHits(Vectors(a), 32) # {} =>
          FirstVec(Vectors(a)[Min(TurnHits(Vectors(a), 32))], 32)

LEMMA FourVectors ==
    ASSUME Arguments, Reached, NEW a \in Nat, a + 128 <= n, Clean(a), Four(a)
    PROVE  /\ Loaded
           /\ TurnHits(Vectors(a), 32) # {} => FoundFirst
           /\ TurnHits(Vectors(a), 32) = {} => Clean(a + 128)
<1>1. PICK as \in [1..4 -> Nat] :
         /\ as = Vectors(a)
         /\ as[1] = a /\ as[2] = a + 32 /\ as[3] = a + 64 /\ as[4] = a + 96
  <2>1. Vectors(a) \in [1..4 -> Nat]
    BY DEF Vectors
  <2>2. /\ Vectors(a)[1] = a /\ Vectors(a)[2] = a + 32
        /\ Vectors(a)[3] = a + 64 /\ Vectors(a)[4] = a + 96
    BY DEF Vectors
  <2> QED BY <2>1, <2>2
<1>2. n \in Nat /\ differ \subseteq Nat /\ 4 \in Nat /\ 32 \in Nat
  BY DEF Arguments
<1>3. \A i \in 1..4 : as[i] = a \/ as[i] = a + 32 \/ as[i] = a + 64 \/ as[i] = a + 96
  <2> SUFFICES ASSUME NEW i \in 1..4
               PROVE  as[i] = a \/ as[i] = a + 32 \/ as[i] = a + 64 \/ as[i] = a + 96
    OBVIOUS
  <2>1. i = 1 \/ i = 2 \/ i = 3 \/ i = 4
    OBVIOUS
  <2> QED BY <1>1, <2>1, Zenon
<1>4. \A i \in 1..4 : as[i] + 32 <= n
  <2> SUFFICES ASSUME NEW i \in 1..4 PROVE as[i] + 32 <= n
    OBVIOUS
  <2>1. a + 32 <= n /\ (a + 32) + 32 <= n /\ (a + 64) + 32 <= n /\ (a + 96) + 32 <= n
    BY <1>2
  <2> QED BY <1>3, <2>1, Zenon
<1>5. CASE TurnHits(as, 32) = {}
  <2>1. Load({as[i] : i \in 1..4}, 32)
    BY <1>1 DEF Four
  <2>2. Loaded /\ \A i \in 1..4 : \A x \in differ : x < as[i] \/ x >= as[i] + 32
    BY <1>1, <1>2, <1>4, <1>5, <2>1, TurnMiss, Zenon
  <2>3. ASSUME NEW x \in differ PROVE x >= a + 128
    <3>1. x \in Nat /\ x >= a
      BY <1>2 DEF Clean
    <3>2. 1 \in 1..4 /\ 2 \in 1..4 /\ 3 \in 1..4 /\ 4 \in 1..4
      OBVIOUS
    <3>3. /\ x < a \/ x >= a + 32
          /\ x < a + 32 \/ x >= (a + 32) + 32
          /\ x < a + 64 \/ x >= (a + 64) + 32
          /\ x < a + 96 \/ x >= (a + 96) + 32
      <4>1. /\ x < as[1] \/ x >= as[1] + 32
            /\ x < as[2] \/ x >= as[2] + 32
            /\ x < as[3] \/ x >= as[3] + 32
            /\ x < as[4] \/ x >= as[4] + 32
        BY <2>2, <3>2, Zenon
      <4> QED BY <1>1, <4>1, Zenon
    <3> QED BY <3>1, <3>3
  <2> QED BY <1>1, <1>5, <2>2, <2>3 DEF Clean
<1>6. CASE TurnHits(as, 32) # {}
  <2>1. FirstVec(as[Min(TurnHits(as, 32))], 32) /\ Load({as[i] : i \in 1..4}, 32)
    BY <1>1, <1>6 DEF Four
  <2>2. \A i \in 1..4 : \A x \in differ :
           x < as[i] => \E j \in 1..(i - 1) : Hit(as[j], 32)
    <3> SUFFICES ASSUME NEW i \in 1..4, NEW x \in differ, x < as[i]
                 PROVE  \E j \in 1..(i - 1) : Hit(as[j], 32)
      OBVIOUS
    <3>1. x \in Nat /\ x >= a
      BY <1>2 DEF Clean
    <3>2. i = 1 \/ i = 2 \/ i = 3 \/ i = 4
      OBVIOUS
    <3>3. ASSUME NEW b \in Nat, x >= b, x < b + 32 PROVE Hit(b, 32)
      BY <3>1, <3>3 DEF Hit, Window
    <3>4. a + 32 \in Nat /\ a + 64 \in Nat
      OBVIOUS
    <3>5. x < a + 32 => Hit(a, 32)
      BY <3>1, <3>3
    <3>6. x >= a + 32 /\ x < a + 64 => Hit(a + 32, 32)
      <4>1. x < a + 64 => x < (a + 32) + 32
        BY <3>1
      <4> QED BY <4>1, <3>3, <3>4
    <3>7. x >= a + 64 /\ x < a + 96 => Hit(a + 64, 32)
      <4>1. x < a + 96 => x < (a + 64) + 32
        BY <3>1
      <4> QED BY <4>1, <3>3, <3>4
    <3>8. i = 1 => ~(x < as[i])
      <4>1. ~(x < a)
        BY <3>1
      <4> QED BY <1>1, <4>1
    <3>9. /\ i = 2 => 1 \in 1..(i - 1)
          /\ i = 3 => 1 \in 1..(i - 1) /\ 2 \in 1..(i - 1)
          /\ i = 4 => 1 \in 1..(i - 1) /\ 2 \in 1..(i - 1) /\ 3 \in 1..(i - 1)
      OBVIOUS
    <3>10. /\ i = 2 => x < a + 32
           /\ i = 3 => x < a + 64
           /\ i = 4 => x < a + 96
      BY <1>1, Zenon
    <3>11. /\ Hit(a, 32) => Hit(as[1], 32)
           /\ Hit(a + 32, 32) => Hit(as[2], 32)
           /\ Hit(a + 64, 32) => Hit(as[3], 32)
      BY <1>1, Zenon
    <3>12. /\ i = 2 => Hit(a, 32)
           /\ i = 3 => Hit(a, 32) \/ Hit(a + 32, 32)
           /\ i = 4 => Hit(a, 32) \/ Hit(a + 32, 32) \/ Hit(a + 64, 32)
      <4>1. /\ x < a + 32 \/ x >= a + 32
            /\ x < a + 64 \/ x >= a + 64
        BY <3>1
      <4> QED BY <3>5, <3>6, <3>7, <3>10, <4>1, Zenon
    <3> QED BY <3>2, <3>8, <3>9, <3>11, <3>12, Zenon
  <2>3. Loaded /\ FoundFirst
    <3>1. as \in [1..4 -> Nat] /\ 4 \in Nat /\ 32 \in Nat
      OBVIOUS
    <3>2. TurnHits(as, 32) # {}
      BY <1>6
    <3>3. FirstVec(as[Min(TurnHits(as, 32))], 32)
      BY <2>1
    <3>4. Load({as[i] : i \in 1..4}, 32)
      BY <2>1
    <3> QED BY <1>4, <2>2, <3>1, <3>2, <3>3, <3>4, TurnHitAll, ZenonT(60)
  <2> QED BY <1>1, <1>6, <2>3
<1> QED BY <1>5, <1>6

LEMMA From4xTo8xInv == ASSUME MemInv, From4xTo8x PROVE MemInv'
<1>1. pc = "from_4x_to_8x" /\ UNCHANGED args /\ di' = di /\ dx' = dx
  BY DEF From4xTo8x
<1>2. di = 0 /\ dx = n /\ n \in 128..256 /\ Arguments /\ Reached
  BY <1>1 DEF MemInv, Position, Settled, Bounds, Arguments
<1>3. Four(0) /\ (TurnHits(Vectors(0), 32) = {} => Goto("last_four"))
  <2>1. FourAt(0, Goto("last_four"))
    BY <1>2 DEF From4xTo8x
  <2>2. DOMAIN Vectors(0) = 1..4
    BY DEF Vectors
  <2> QED BY <2>1, <2>2 DEF FourAt, Four, Vectors, TurnHits, VEC_SIZE
<1>4. /\ Loaded
      /\ TurnHits(Vectors(0), 32) # {} => FoundFirst
      /\ TurnHits(Vectors(0), 32) = {} => Clean(0 + 128)
  <2>1. Clean(0) /\ 0 + 128 <= n /\ 0 \in Nat
    BY <1>2 DEF Clean, Arguments
  <2> QED BY <1>2, <1>3, <2>1, FourVectors, Zenon
<1>5. di' \in 0..n /\ dx' \in 0..n /\ di' + dx' = n
  BY <1>1, <1>2
<1>6. CASE TurnHits(Vectors(0), 32) # {}
  <2>1. Returns
    BY <1>1, <1>4, <1>5, <1>6 DEF Returns, FoundFirst
  <2> QED BY <1>4, <1>6, <2>1, ReturnsFirst
<1>7. CASE TurnHits(Vectors(0), 32) = {}
  <2>1. pc' = "last_four" /\ ret' = ret /\ diffPos' = diffPos
    BY <1>3, <1>7 DEF Goto
  <2>2. Continue
    BY <1>1, <1>4, <1>5, <2>1 DEF Continue, Labels
  <2>3. Settled'
    BY <1>1, <1>2, <1>4, <1>7, <2>1 DEF Settled, Clean, args
  <2> QED BY <1>1, <1>2, <2>1, <2>2, <2>3, Continues
<1> QED BY <1>6, <1>7

LEMMA LastFourInv == ASSUME MemInv, LastFour PROVE MemInv'
<1>1. pc = "last_four" /\ UNCHANGED args /\ di' = di + dx - 128 /\ dx' = dx
  BY DEF LastFour, VEC_SIZE
<1>2. di = 0 /\ dx = n /\ n \in 128..256 /\ Clean(128) /\ Arguments /\ Reached
  BY <1>1 DEF MemInv, Position, Settled, Bounds, Arguments
<1>3. PICK a \in Nat : a = n - 128
  BY <1>2
<1>4. di' = a /\ di' \in 0..n /\ dx' \in 0..n
  BY <1>1, <1>2, <1>3
<1>5. Four(a) /\ (TurnHits(Vectors(a), 32) = {} => ReturnZero)
  <2>1. FourAt(a, ReturnZero)
    BY <1>4 DEF LastFour
  <2>2. DOMAIN Vectors(a) = 1..4
    BY DEF Vectors
  <2> QED BY <2>1, <2>2 DEF FourAt, Four, Vectors, TurnHits, VEC_SIZE
<1>6. /\ Loaded
      /\ TurnHits(Vectors(a), 32) # {} => FoundFirst
      /\ TurnHits(Vectors(a), 32) = {} => Clean(a + 128)
  <2>1. Clean(a) /\ a + 128 <= n
    BY <1>2, <1>3 DEF Clean, Arguments
  <2> QED BY <1>2, <1>5, <2>1, FourVectors, Zenon
<1>7. CASE TurnHits(Vectors(a), 32) # {}
  <2>1. Returns
    BY <1>1, <1>4, <1>6, <1>7 DEF Returns, FoundFirst
  <2> QED BY <1>6, <1>7, <2>1, ReturnsFirst
<1>8. CASE TurnHits(Vectors(a), 32) = {}
  <2>1. differ = {}
    <3>1. ASSUME NEW x \in differ PROVE FALSE
      <4>1. x >= n /\ x \in 0..(n - 1)
        BY <1>2, <1>3, <1>6, <1>8 DEF Clean, Arguments
      <4> QED BY <1>2, <4>1
    <3> QED BY <3>1
  <2>2. pc' = "done" /\ ret' = FALSE
    BY <1>5, <1>8 DEF ReturnZero, Return
  <2>3. Returns
    BY <1>1, <1>4, <2>2 DEF Returns
  <2> QED BY <1>1, <1>5, <1>6, <1>8, <2>1, <2>3, ReturnsEqual
<1> QED BY <1>7, <1>8

LEMMA Loop4xVecInv == ASSUME MemInv, Loop4xVec PROVE MemInv'
<1>1. pc = "loop_4x_vec" /\ UNCHANGED args /\ di' = di + 128 /\ dx' = dx - 128
  BY DEF Loop4xVec, VEC_SIZE
<1>2. /\ n \in Nat /\ di \in 0..n /\ dx \in 0..n /\ di + dx = n
      /\ dx >= 128 /\ Clean(di) /\ Arguments /\ Reached
  BY <1>1 DEF MemInv, Position, Settled, Bounds, Arguments
<1>3. PICK a \in Nat : a = di
  BY <1>2
<1>4. di' = a + 128 /\ di' \in 0..n /\ dx' \in 0..n /\ di' + dx' = n
  BY <1>1, <1>2, <1>3
<1>5. PICK left \in Nat : left = dx'
  BY <1>4
<1>6. Four(a) /\ (TurnHits(Vectors(a), 32) = {} => Goto(AfterLoop(left)))
  <2>1. FourAt(a, Goto(AfterLoop(left)))
    BY <1>3, <1>5 DEF Loop4xVec
  <2>2. DOMAIN Vectors(a) = 1..4
    BY DEF Vectors
  <2> QED BY <2>1, <2>2 DEF FourAt, Four, Vectors, TurnHits, VEC_SIZE
<1>7. /\ Loaded
      /\ TurnHits(Vectors(a), 32) # {} => FoundFirst
      /\ TurnHits(Vectors(a), 32) = {} => Clean(a + 128)
  <2>1. Clean(a) /\ a + 128 <= n
    BY <1>2, <1>3
  <2> QED BY <1>2, <1>6, <2>1, FourVectors, Zenon
<1>8. CASE TurnHits(Vectors(a), 32) # {}
  <2>1. Returns
    BY <1>1, <1>4, <1>7, <1>8 DEF Returns, FoundFirst
  <2> QED BY <1>7, <1>8, <2>1, ReturnsFirst
<1>9. CASE TurnHits(Vectors(a), 32) = {}
  <2>1. pc' = AfterLoop(left) /\ ret' = ret /\ diffPos' = diffPos
    BY <1>6, <1>9 DEF Goto
  <2>2. \/ pc' = "loop_4x_vec" /\ left >= 128
        \/ pc' = "last_vec" /\ left <= 32
        \/ pc' = "last_2x_vec" /\ left \in 33..64
        \/ pc' = "last_4x_vec" /\ left \in 65..128
    BY <2>1 DEF AfterLoop, VEC_SIZE
  <2>3. Continue
    BY <1>1, <1>4, <1>7, <2>1, <2>2 DEF Continue, Labels
  <2>4. n' = n /\ differ' = differ /\ \A x \in differ : x >= di'
    BY <1>1, <1>4, <1>7, <1>9 DEF Clean, args
  <2>5. CASE pc' = "last_vec" /\ left <= 32
    <3>1. ASSUME NEW x \in differ PROVE x >= n - 32
      <4>1. x \in Nat
        BY <1>2 DEF Arguments
      <4>2. x >= a + 128
        BY <1>7, <1>9 DEF Clean
      <4>3. (a + 128) + left = n
        BY <1>4, <1>5
      <4> QED BY <1>2, <2>5, <4>1, <4>2, <4>3
    <3>2. n >= 32
      BY <1>2
    <3> QED BY <2>3, <2>4, <2>5, <3>1, <3>2, Continues DEF Settled, Clean
  <2>6. CASE pc' = "loop_4x_vec" /\ left >= 128
    BY <1>5, <2>3, <2>4, <2>6, Continues DEF Settled, Clean
  <2>7. CASE pc' = "last_2x_vec" /\ left \in 33..64
    BY <1>5, <2>3, <2>4, <2>7, Continues DEF Settled, Clean
  <2>8. CASE pc' = "last_4x_vec" /\ left \in 65..128
    BY <1>5, <2>3, <2>4, <2>8, Continues DEF Settled, Clean
  <2> QED BY <2>2, <2>5, <2>6, <2>7, <2>8
<1> QED BY <1>8, <1>9

-----------------------------------------------------------------------------
(* Between two and four vectors: two from the start, the last two.            *)

LEMMA Last4xVecInv == ASSUME MemInv, Last4xVec PROVE MemInv'
<1>1. pc = "last_4x_vec" /\ UNCHANGED args /\ di' = di + dx - 32 /\ dx' = dx
  BY DEF Last4xVec, VEC_SIZE
<1>2. /\ n \in Nat /\ di \in 0..n /\ dx \in 65..128 /\ di + dx = n
      /\ Clean(di) /\ Arguments /\ Reached /\ differ \subseteq 0..(n - 1)
  BY <1>1 DEF MemInv, Position, Settled, Bounds, Arguments
<1>3. di' \in 0..n /\ dx' \in 0..n
  BY <1>1, <1>2
<1>4. PICK a \in Nat : a = di
  BY <1>2
<1>5. PICK b \in Nat : b = n - 64
  BY <1>2
<1>6. /\ b > a /\ b <= a + 64 /\ b + 64 = n
      /\ di + dx - 64 = b /\ di + dx - 32 = b + 32
  BY <1>2, <1>4, <1>5
<1>7. PICK as \in [1..4 -> Nat] :
         /\ as = <<di, di + 32, di + dx - 64, di + dx - 32>>
         /\ as[1] = a /\ as[2] = a + 32 /\ as[3] = b /\ as[4] = b + 32
         /\ Len(as) = 4 /\ DOMAIN as = 1..4
  <2>1. /\ a \in Nat /\ a + 32 \in Nat /\ b \in Nat /\ b + 32 \in Nat
        /\ <<di, di + 32, di + dx - 64, di + dx - 32>> = <<a, a + 32, b, b + 32>>
    BY <1>4, <1>6
  <2>2. /\ <<a, a + 32, b, b + 32>> \in [1..4 -> Nat]
        /\ Len(<<a, a + 32, b, b + 32>>) = 4 /\ DOMAIN <<a, a + 32, b, b + 32>> = 1..4
    BY <2>1
  <2>3. /\ <<a, a + 32, b, b + 32>>[1] = a /\ <<a, a + 32, b, b + 32>>[2] = a + 32
        /\ <<a, a + 32, b, b + 32>>[3] = b /\ <<a, a + 32, b, b + 32>>[4] = b + 32
    OBVIOUS
  <2> QED BY <2>1, <2>2, <2>3
<1>8. \/ /\ TurnHits(as, 32) = {}
         /\ Load({as[i] : i \in 1..4}, 32) /\ ReturnZero
      \/ /\ TurnHits(as, 32) # {}
         /\ Load({as[i] : i \in 1..Min(TurnHits(as, 32))}, 32)
         /\ FirstVec(as[Min(TurnHits(as, 32))], 32)
  <2>1. InTurn(as, 32, ReturnZero)
    BY <1>7 DEF Last4xVec, VEC_SIZE
  <2> QED BY <1>7, <2>1 DEF InTurn, TurnHits
<1>9. \A i \in 1..4 : as[i] + 32 <= n
  <2> SUFFICES ASSUME NEW i \in 1..4 PROVE as[i] + 32 <= n
    OBVIOUS
  <2>1. i = 1 \/ i = 2 \/ i = 3 \/ i = 4
    OBVIOUS
  <2>2. a + 32 <= n /\ (a + 32) + 32 <= n /\ b + 32 <= n /\ (b + 32) + 32 <= n
    BY <1>2, <1>6
  <2>3. as[i] = a \/ as[i] = a + 32 \/ as[i] = b \/ as[i] = b + 32
    BY <1>7, <2>1, Zenon
  <2> QED BY <2>2, <2>3, Zenon
<1>10. CASE /\ TurnHits(as, 32) = {}
            /\ Load({as[i] : i \in 1..4}, 32) /\ ReturnZero
  <2>1. Loaded /\ \A i \in 1..4 : \A x \in differ : x < as[i] \/ x >= as[i] + 32
    <3>1. as \in [1..4 -> Nat] /\ 4 \in Nat /\ 32 \in Nat
      OBVIOUS
    <3>2. TurnHits(as, 32) = {}
      BY <1>10
    <3>3. Load({as[i] : i \in 1..4}, 32)
      BY <1>10
    <3> QED BY <1>2, <1>9, <3>1, <3>2, <3>3, TurnMiss, ZenonT(60)
  <2>2. ASSUME NEW x \in differ PROVE FALSE
    <3>1. x \in 0..(n - 1) /\ x >= a
      BY <1>2, <1>4 DEF Clean
    <3>2. 1 \in 1..4 /\ 2 \in 1..4 /\ 3 \in 1..4 /\ 4 \in 1..4
      OBVIOUS
    <3>3. /\ x < as[1] \/ x >= as[1] + 32
          /\ x < as[2] \/ x >= as[2] + 32
          /\ x < as[3] \/ x >= as[3] + 32
          /\ x < as[4] \/ x >= as[4] + 32
      BY <2>1, <3>2, Zenon
    <3>4. /\ x < a \/ x >= a + 32
          /\ x < a + 32 \/ x >= (a + 32) + 32
          /\ x < b \/ x >= b + 32
          /\ x < b + 32 \/ x >= (b + 32) + 32
      BY <1>7, <3>3, Zenon
    <3> QED BY <1>2, <1>6, <3>1, <3>4
  <2>3. differ = {}
    BY <2>2
  <2>4. pc' = "done" /\ ret' = FALSE
    BY <1>10 DEF ReturnZero, Return
  <2>5. Returns
    BY <1>1, <1>3, <2>4 DEF Returns
  <2> QED BY <1>1, <1>10, <2>1, <2>3, <2>5, ReturnsEqual
<1>11. CASE /\ TurnHits(as, 32) # {}
            /\ Load({as[i] : i \in 1..Min(TurnHits(as, 32))}, 32)
            /\ FirstVec(as[Min(TurnHits(as, 32))], 32)
  <2>1. \A i \in 1..4 : \A x \in differ :
           x < as[i] => \E j \in 1..(i - 1) : Hit(as[j], 32)
    <3> SUFFICES ASSUME NEW i \in 1..4, NEW x \in differ, x < as[i]
                 PROVE  \E j \in 1..(i - 1) : Hit(as[j], 32)
      OBVIOUS
    <3>1. x \in Nat /\ x >= a
      BY <1>2, <1>4 DEF Clean
    <3>2. i = 1 \/ i = 2 \/ i = 3 \/ i = 4
      OBVIOUS
    <3>3. ASSUME NEW c \in Nat, x >= c, x < c + 32 PROVE Hit(c, 32)
      BY <3>1, <3>3 DEF Hit, Window
    <3>4. x < a + 32 => Hit(a, 32)
      BY <3>1, <3>3
    <3>5. x >= a + 32 /\ x < b => Hit(a + 32, 32)
      <4>1. x < b => x < (a + 32) + 32
        BY <1>6, <3>1
      <4>2. a + 32 \in Nat
        OBVIOUS
      <4> QED BY <4>1, <4>2, <3>3
    <3>6. x >= b /\ x < b + 32 => Hit(b, 32)
      BY <3>3
    <3>7. i = 1 => ~(x < as[i])
      <4>1. ~(x < a)
        BY <3>1
      <4> QED BY <1>7, <4>1
    <3>8. /\ i = 2 => 1 \in 1..(i - 1)
          /\ i = 3 => 1 \in 1..(i - 1) /\ 2 \in 1..(i - 1)
          /\ i = 4 => 1 \in 1..(i - 1) /\ 2 \in 1..(i - 1) /\ 3 \in 1..(i - 1)
      OBVIOUS
    <3>9. /\ i = 2 => x < a + 32
          /\ i = 3 => x < b
          /\ i = 4 => x < b + 32
      BY <1>7, Zenon
    <3>10. /\ Hit(a, 32) => Hit(as[1], 32)
           /\ Hit(a + 32, 32) => Hit(as[2], 32)
           /\ Hit(b, 32) => Hit(as[3], 32)
      BY <1>7, Zenon
    <3>11. /\ i = 2 => Hit(a, 32)
           /\ i = 3 => Hit(a, 32) \/ Hit(a + 32, 32)
           /\ i = 4 => Hit(a, 32) \/ Hit(a + 32, 32) \/ Hit(b, 32)
      <4>1. (x < a + 32 \/ x >= a + 32) /\ (x < b \/ x >= b)
        BY <3>1
      <4> QED BY <3>4, <3>5, <3>6, <3>9, <4>1, Zenon
    <3> QED BY <3>2, <3>7, <3>8, <3>10, <3>11, Zenon
  <2>2. Loaded /\ FoundFirst
    <3>1. as \in [1..4 -> Nat] /\ 4 \in Nat /\ 32 \in Nat
      OBVIOUS
    <3>2. TurnHits(as, 32) # {}
      BY <1>11
    <3>3. FirstVec(as[Min(TurnHits(as, 32))], 32)
      BY <1>11
    <3>4. Load({as[i] : i \in 1..Min(TurnHits(as, 32))}, 32)
      BY <1>11
    <3> QED BY <1>2, <1>9, <2>1, <3>1, <3>2, <3>3, <3>4, TurnHitUpto, ZenonT(60)
  <2>3. Returns
    BY <1>1, <1>3, <2>2 DEF Returns, FoundFirst
  <2> QED BY <2>2, <2>3, ReturnsFirst
<1> QED BY <1>8, <1>10, <1>11

-----------------------------------------------------------------------------
LEMMA NextInv == ASSUME MemInv, [Next]_vars PROVE MemInv'
<1>1. CASE UNCHANGED vars
  BY <1>1 DEF vars, MemInv, Arguments, Position, Settled, Clean, Bounds, Reached, Right
<1> QED BY <1>1, EntryInv, UpToOneInv, TwoOrThreeInv, FourToSevenInv,
           TwoOverlappingInv, From4xTo8xInv, LastFourInv, Last2xVecInv,
           LastVecInv, More8xVecInv, Loop4xVecInv, Last4xVecInv DEF Next

THEOREM MemInvariance == Spec => []MemInv
<1>1. Init => MemInv
  BY InitInv
<1>2. MemInv /\ [Next]_vars => MemInv'
  BY NextInv
<1> QED BY <1>1, <1>2, PTL DEF Spec

(* %rdx never goes below zero nor the pointers out of the buffers.           *)
THEOREM MemcmpTypeOK == Spec => []TypeOK
<1>1. ASSUME MemInv PROVE TypeOK
  <2>1. /\ pc \in Labels /\ n \in Lengths /\ differ \subseteq 0..(n - 1)
        /\ secondByteZero \in BOOLEAN /\ misalign \in Misalignments
        /\ di \in 0..n /\ dx \in 0..n /\ ret \in BOOLEAN
    BY <1>1 DEF MemInv, Arguments, Position
  <2>2. diffPos \in {Unset} \cup 0..(n - 1)
    BY <1>1 DEF MemInv, Position, Right
  <2>3. reach \in [lo : Int, hi : Int]
    BY <1>1 DEF MemInv, Bounds
  <2> QED BY <2>1, <2>2, <2>3 DEF TypeOK
<1> QED BY <1>1, MemInvariance, PTL

(* On every path, for every length and alignment, what is reported is the
   first difference (memcmp-avx2-addr.S:407).                                *)
THEOREM MemcmpReportsFirst == Spec => []ReportsFirstDifference
<1>1. MemInv => ReportsFirstDifference
  BY DEF MemInv, Right, ReportsFirstDifference
<1> QED BY <1>1, MemInvariance, PTL

(* Equal buffers give zero, but for two and three bytes
   (memcmp-avx2-addr.S:289).                                                 *)
THEOREM MemcmpEqualIsZero == Spec => []EqualReturnsZeroButShort
<1>1. MemInv => EqualReturnsZeroButShort
  BY DEF MemInv, Right, EqualReturnsZeroButShort, EqualReturnsZero
<1> QED BY <1>1, MemInvariance, PTL

(* No load leaves the buffers, but the word at 4 of five bytes
   (memcmp-avx2-addr.S:220).                                                 *)
THEOREM MemcmpLoadsInBounds == Spec => []LoadsInBounds
<1>1. ASSUME MemInv PROVE LoadsInBounds
  <2>1. reach.lo \in Nat /\ (reach.hi <= n \/ (n = 5 /\ reach.hi = 6))
    BY <1>1 DEF MemInv, Bounds
  <2> QED BY <2>1 DEF LoadsInBounds
<1> QED BY <1>1, MemInvariance, PTL

=============================================================================
