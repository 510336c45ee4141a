--------------------------- MODULE FileMapProofs ---------------------------
(* Proofs about FileMap, for any descriptors, names and areas, any sizes of
   the tables, and search trees of any size and shape.                       *)
EXTENDS FileMap, PoolOpsProofs, SequenceTheorems

-----------------------------------------------------------------------------
(* Where a search ends.  Ends follows every path down a tree; Below is one
   step of it, from the nodes lo..hi of a subtree with root m, and F what the
   subtrees of that one give.                                                *)

Ranges(n) == (1..(n + 1)) \X (0..n)
Below(cmp, F, lo, hi, m) ==
    IF cmp[m] = 0 THEN {[at |-> m, hit |-> TRUE]}
    ELSE IF cmp[m] < 0 THEN F[<<lo, m - 1>>]
    ELSE F[<<m + 1, hi>>]
Roots(lo, hi) == {i \in lo..hi : Balanced(i - lo, hi - i)}
Body(cmp, F, lo, hi) ==
    IF lo > hi THEN {[at |-> lo, hit |-> FALSE]}
    ELSE UNION {Below(cmp, F, lo, hi, m) : m \in Roots(lo, hi)}
Solves(cmp, n, F) == F = [r \in Ranges(n) |-> Body(cmp, F, r[1], r[2])]

(* A step depends on the two subtrees only.                                  *)
LEMMA BodyAgrees ==
    ASSUME NEW cmp, NEW F, NEW G, NEW lo \in Nat, NEW hi \in Nat,
           \A m \in lo..hi : /\ F[<<lo, m - 1>>] = G[<<lo, m - 1>>]
                             /\ F[<<m + 1, hi>>] = G[<<m + 1, hi>>]
    PROVE  Body(cmp, F, lo, hi) = Body(cmp, G, lo, hi)
<1>1. \A m \in Roots(lo, hi) : Below(cmp, F, lo, hi, m) = Below(cmp, G, lo, hi, m)
  BY DEF Roots, Below
<1>2. {Below(cmp, F, lo, hi, m) : m \in Roots(lo, hi)}
        = {Below(cmp, G, lo, hi, m) : m \in Roots(lo, hi)}
  BY <1>1
<1> QED
  BY <1>2 DEF Body

(* The recursive definition has a solution: one that is right for subtrees of
   less than k nodes can be made right for those of k.                       *)
LEMMA SearchDefined ==
    ASSUME NEW n \in Nat, NEW cmp
    PROVE  \E F : Solves(cmp, n, F)
<1> DEFINE Right(F, k) ==
             \A r \in Ranges(n) : r[2] - r[1] + 1 < k => F[r] = Body(cmp, F, r[1], r[2])
           S == {k \in Nat : \E F : Right(F, k)}
<1>1. 0 \in S
  <2> DEFINE F == [r \in Ranges(n) |-> {[at |-> r[1], hit |-> FALSE]}]
  <2>1. Right(F, 0)
    BY DEF Ranges, Body
  <2> QED
    BY <2>1
<1>2. ASSUME NEW k \in Nat, k \in S PROVE k + 1 \in S
  <2>1. PICK F : Right(F, k)
    BY <1>2
  <2> DEFINE G == [r \in Ranges(n) |-> Body(cmp, F, r[1], r[2])]
  <2>2. ASSUME NEW r \in Ranges(n), r[2] - r[1] + 1 < k + 1
        PROVE  G[r] = Body(cmp, G, r[1], r[2])
    <3>1. r[1] \in 1..(n + 1) /\ r[2] \in 0..n
      BY DEF Ranges
    <3>2. ASSUME NEW m \in r[1]..r[2]
          PROVE  /\ F[<<r[1], m - 1>>] = G[<<r[1], m - 1>>]
                 /\ F[<<m + 1, r[2]>>] = G[<<m + 1, r[2]>>]
      <4> DEFINE q1 == <<r[1], m - 1>>
                 q2 == <<m + 1, r[2]>>
      <4>1. q1 \in Ranges(n) /\ q2 \in Ranges(n)
        BY <3>1 DEF Ranges
      <4>2. q1[2] - q1[1] + 1 < k /\ q2[2] - q2[1] + 1 < k
        BY <2>2, <3>1
      <4>3. F[q1] = Body(cmp, F, q1[1], q1[2]) /\ F[q2] = Body(cmp, F, q2[1], q2[2])
        BY <2>1, <4>1, <4>2
      <4>4. G[q1] = Body(cmp, F, q1[1], q1[2]) /\ G[q2] = Body(cmp, F, q2[1], q2[2])
        BY <4>1
      <4> QED
        BY <4>3, <4>4
    <3>3. Body(cmp, F, r[1], r[2]) = Body(cmp, G, r[1], r[2])
      <4> HIDE DEF G
      <4> QED
        BY <3>1, <3>2, BodyAgrees
    <3> QED
      BY <3>3
  <2>3. Right(G, k + 1)
    BY <2>2
  <2>4. \E H : Right(H, k + 1)
    <3> HIDE DEF G, Right
    <3> QED
      BY <2>3
  <2> QED
    BY <2>4
<1>3. n + 2 \in S
  <2> HIDE DEF S
  <2> QED
    BY <1>1, <1>2, SetInduction
<1>4. PICK F : Right(F, n + 2)
  BY <1>3
<1> DEFINE G == [r \in Ranges(n) |-> Body(cmp, F, r[1], r[2])]
<1>5. \A r \in Ranges(n) : r[2] - r[1] + 1 < n + 2 /\ G[r] = F[r]
  BY <1>4 DEF Ranges
<1>6. ASSUME NEW r \in Ranges(n)
      PROVE  Body(cmp, F, r[1], r[2]) = Body(cmp, G, r[1], r[2])
  <2>1. r[1] \in 1..(n + 1) /\ r[2] \in 0..n
    BY DEF Ranges
  <2>2. ASSUME NEW m \in r[1]..r[2]
        PROVE  <<r[1], m - 1>> \in Ranges(n) /\ <<m + 1, r[2]>> \in Ranges(n)
    BY <2>1 DEF Ranges
  <2> HIDE DEF G
  <2> QED
    BY <1>5, <2>1, <2>2, BodyAgrees
<1>7. G = [r \in Ranges(n) |-> Body(cmp, G, r[1], r[2])]
  <2>1. \A r \in Ranges(n) : G[r] = Body(cmp, G, r[1], r[2])
    BY <1>6
  <2> QED
    BY <2>1
<1> QED
  BY <1>7 DEF Solves

(* Ends is what a solution gives for the whole tree.                         *)
LEMMA EndsSolved ==
    ASSUME NEW cmp, NEW n \in Nat, Len(cmp) = n
    PROVE  \E F : Solves(cmp, n, F) /\ Ends(cmp) = F[<<1, n>>]
<1> DEFINE From == CHOOSE F : Solves(cmp, n, F)
<1>1. Solves(cmp, n, From)
  BY SearchDefined
<1>2. Ends(cmp) = From[<<1, n>>]
  BY DEF Ends, Solves, Body, Below, Roots, Ranges
<1> QED
  BY <1>1, <1>2

(* A search ends at a node that compares equal, or at a place for one.       *)
LEMMA EndsAt ==
    ASSUME NEW cmp, NEW n \in Nat, Len(cmp) = n
    PROVE  \A e \in Ends(cmp) : /\ e.hit => e.at \in 1..n /\ cmp[e.at] = 0
                                /\ ~e.hit => e.at \in 1..(n + 1)
<1> DEFINE Good(e) == /\ e.hit => e.at \in 1..n /\ cmp[e.at] = 0
                      /\ ~e.hit => e.at \in 1..(n + 1)
<1>1. PICK F : Solves(cmp, n, F) /\ Ends(cmp) = F[<<1, n>>]
  BY EndsSolved
<1> DEFINE S == {k \in Nat : \A r \in Ranges(n) :
                   r[2] - r[1] + 1 < k => \A e \in F[r] : Good(e)}
<1>a. ASSUME NEW r \in Ranges(n), r[1] > r[2] PROVE \A e \in F[r] : Good(e)
  <2>1. F[r] = {[at |-> r[1], hit |-> FALSE]}
    BY <1>1, <1>a DEF Solves, Body
  <2>2. r[1] \in 1..(n + 1)
    BY DEF Ranges
  <2> QED
    BY <2>1, <2>2
<1>2. 0 \in S
  BY <1>a DEF Ranges
<1>3. ASSUME NEW k \in Nat, k \in S PROVE k + 1 \in S
  <2>1. ASSUME NEW r \in Ranges(n), r[2] - r[1] + 1 < k + 1, r[1] <= r[2]
        PROVE  \A e \in F[r] : Good(e)
    <3>1. r[1] \in 1..(n + 1) /\ r[2] \in 0..n
      BY DEF Ranges
    <3>2. F[r] = UNION {Below(cmp, F, r[1], r[2], m) : m \in Roots(r[1], r[2])}
      <4>1. ~(r[1] > r[2])
        BY <2>1, <3>1
      <4>2. F[r] = Body(cmp, F, r[1], r[2])
        BY <1>1 DEF Solves
      <4> QED
        BY <4>1, <4>2 DEF Body
    <3>3. ASSUME NEW m \in r[1]..r[2] PROVE \A e \in Below(cmp, F, r[1], r[2], m) : Good(e)
      <4> DEFINE q1 == <<r[1], m - 1>>
                 q2 == <<m + 1, r[2]>>
      <4>1. q1 \in Ranges(n) /\ q2 \in Ranges(n)
        BY <3>1 DEF Ranges
      <4>2. q1[2] - q1[1] + 1 < k /\ q2[2] - q2[1] + 1 < k
        <5>1. /\ r[1] \in Int /\ r[2] \in Int /\ m \in Int /\ k \in Int
              /\ r[1] <= m /\ m <= r[2] /\ r[2] - r[1] < k
          BY <2>1, <3>1, <1>3
        <5>2. (m - 1) - r[1] + 1 < k /\ r[2] - (m + 1) + 1 < k
          BY <5>1
        <5> QED
          BY <5>2
      <4>3. (\A e \in F[q1] : Good(e)) /\ (\A e \in F[q2] : Good(e))
        BY <1>3, <4>1, <4>2
      <4>4. m \in 1..n
        BY <3>1
      <4>5. CASE cmp[m] = 0
        <5>1. Good([at |-> m, hit |-> TRUE])
          BY <4>4, <4>5
        <5> HIDE DEF Good
        <5> QED
          BY <4>5, <5>1 DEF Below
      <4>6. CASE cmp[m] # 0
        <5>1. \/ Below(cmp, F, r[1], r[2], m) = F[q1]
              \/ Below(cmp, F, r[1], r[2], m) = F[q2]
          BY <4>6 DEF Below
        <5> HIDE DEF Good
        <5> QED
          BY <4>3, <5>1
      <4> QED
        BY <4>5, <4>6
    <3> QED
      BY <3>2, <3>3 DEF Roots
  <2> QED
    BY <1>a, <2>1 DEF Ranges
<1>4. n + 2 \in S
  <2> HIDE DEF S
  <2> QED
    BY <1>2, <1>3, SetInduction
<1>5. <<1, n>> \in Ranges(n)
  BY DEF Ranges
<1> QED
  BY <1>1, <1>4, <1>5

Descending(cmp) ==
    /\ \A i \in 1..Len(cmp) : cmp[i] \in Int
    /\ \A i, j \in 1..Len(cmp) : i < j => cmp[i] >= cmp[j]

(* In a tree in order, everything before the place a search ends at compares
   greater, and everything behind it less: a node that compares equal is not
   missed.                                                                   *)
LEMMA EndsBetween ==
    ASSUME NEW cmp, NEW n \in Nat, Len(cmp) = n, Descending(cmp)
    PROVE  \A e \in Ends(cmp) :
               ~e.hit => /\ \A i \in 1..n : i < e.at => cmp[i] > 0
                         /\ \A i \in 1..n : i >= e.at => cmp[i] < 0
<1> DEFINE Good(e) == /\ \A i \in 1..n : i < e.at => cmp[i] > 0
                      /\ \A i \in 1..n : i >= e.at => cmp[i] < 0
           Apart(r) == /\ r[1] <= r[2] + 1
                       /\ \A i \in 1..n : i < r[1] => cmp[i] > 0
                       /\ \A i \in 1..n : i > r[2] => cmp[i] < 0
<1>1. PICK F : Solves(cmp, n, F) /\ Ends(cmp) = F[<<1, n>>]
  BY EndsSolved
<1> DEFINE S == {k \in Nat : \A r \in Ranges(n) :
                   r[2] - r[1] + 1 < k /\ Apart(r) => \A e \in F[r] : ~e.hit => Good(e)}
<1>a. ASSUME NEW r \in Ranges(n), r[1] > r[2], Apart(r)
      PROVE  \A e \in F[r] : ~e.hit => Good(e)
  <2>1. r[1] \in 1..(n + 1) /\ r[2] \in 0..n
    BY DEF Ranges
  <2>2. F[r] = {[at |-> r[1], hit |-> FALSE]}
    BY <1>1, <1>a DEF Solves, Body
  <2>3. r[1] = r[2] + 1
    BY <1>a, <2>1
  <2> QED
    BY <1>a, <2>1, <2>2, <2>3
<1>2. 0 \in S
  <2>1. \A r \in Ranges(n) : r[2] - r[1] + 1 < 0 => ~Apart(r)
    BY DEF Ranges
  <2> QED
    BY <2>1
<1>3. ASSUME NEW k \in Nat, k \in S PROVE k + 1 \in S
  <2>1. ASSUME NEW r \in Ranges(n), r[2] - r[1] + 1 < k + 1, r[1] <= r[2], Apart(r)
        PROVE  \A e \in F[r] : ~e.hit => Good(e)
    <3> HIDE DEF Good, Apart
    <3>1. r[1] \in 1..(n + 1) /\ r[2] \in 0..n
      BY DEF Ranges
    <3>2. F[r] = UNION {Below(cmp, F, r[1], r[2], m) : m \in Roots(r[1], r[2])}
      <4>1. ~(r[1] > r[2])
        BY <2>1, <3>1
      <4>2. F[r] = Body(cmp, F, r[1], r[2])
        BY <1>1 DEF Solves
      <4> QED
        BY <4>1, <4>2 DEF Body
    <3>3. ASSUME NEW m \in r[1]..r[2]
          PROVE  \A e \in Below(cmp, F, r[1], r[2], m) : ~e.hit => Good(e)
      <4> DEFINE q1 == <<r[1], m - 1>>
                 q2 == <<m + 1, r[2]>>
      <4>1. q1 \in Ranges(n) /\ q2 \in Ranges(n)
        BY <3>1 DEF Ranges
      <4>2. q1[2] - q1[1] + 1 < k /\ q2[2] - q2[1] + 1 < k
        <5>1. /\ r[1] \in Int /\ r[2] \in Int /\ m \in Int /\ k \in Int
              /\ r[1] <= m /\ m <= r[2] /\ r[2] - r[1] < k
          BY <2>1, <3>1, <1>3
        <5>2. (m - 1) - r[1] + 1 < k /\ r[2] - (m + 1) + 1 < k
          BY <5>1
        <5> QED
          BY <5>2
      <4>3. m \in 1..n
        BY <3>1
      <4>4. CASE cmp[m] = 0
        BY <4>4 DEF Below
      <4>5. CASE cmp[m] < 0
        <5>a. ASSUME NEW i \in 1..n, i > m - 1 PROVE cmp[i] < 0
          <6>1. i = m \/ m < i
            BY <4>3, <5>a
          <6>2. m < i => cmp[m] >= cmp[i]
            BY <4>3 DEF Descending
          <6>3. cmp[i] \in Int /\ cmp[m] \in Int
            BY <4>3 DEF Descending
          <6> QED
            BY <4>5, <6>1, <6>2, <6>3
        <5>b. r[1] <= (m - 1) + 1
          BY <3>1
        <5>1. Apart(q1)
          BY <2>1, <5>a, <5>b DEF Apart
        <5>2. \A e \in F[q1] : ~e.hit => Good(e)
          BY <1>3, <4>1, <4>2, <5>1
        <5> QED
          BY <4>5, <5>2, <4>3 DEF Below
      <4>6. CASE cmp[m] > 0
        <5>a. \A i \in 1..n : i < m + 1 => cmp[i] > 0
          <6> SUFFICES ASSUME NEW i \in 1..n, i < m + 1 PROVE cmp[i] > 0
            OBVIOUS
          <6>1. i = m \/ i < m
            BY <4>3
          <6>2. i < m => cmp[i] >= cmp[m]
            BY <4>3 DEF Descending
          <6>3. cmp[i] \in Int /\ cmp[m] \in Int
            BY <4>3 DEF Descending
          <6> QED
            BY <4>6, <6>1, <6>2, <6>3
        <5>b. m + 1 <= r[2] + 1
          BY <3>1
        <5>1. Apart(q2)
          BY <2>1, <5>a, <5>b DEF Apart
        <5>2. \A e \in F[q2] : ~e.hit => Good(e)
          BY <1>3, <4>1, <4>2, <5>1
        <5>3. cmp[m] # 0 /\ ~(cmp[m] < 0)
          BY <4>3, <4>6 DEF Descending
        <5> QED
          BY <5>2, <5>3 DEF Below
      <4>7. cmp[m] = 0 \/ cmp[m] < 0 \/ cmp[m] > 0
        BY <4>3 DEF Descending
      <4> QED
        BY <4>4, <4>5, <4>6, <4>7
    <3> QED
      BY <3>2, <3>3 DEF Roots
  <2>2. ASSUME NEW r \in Ranges(n), r[2] - r[1] + 1 < k + 1, Apart(r)
        PROVE  \A e \in F[r] : ~e.hit => Good(e)
    <3>1. r[1] <= r[2] \/ r[1] > r[2]
      BY DEF Ranges
    <3> QED
      BY <1>a, <2>1, <2>2, <3>1
  <2> QED
    BY <2>2
<1>4. n + 2 \in S
  <2> HIDE DEF S, Good, Apart
  <2>1. n + 2 \in Nat
    OBVIOUS
  <2>2. \A k \in Nat : k \in S => k + 1 \in S
    BY <1>3
  <2> QED
    BY <1>2, <2>1, <2>2, SetInduction
<1>5. <<1, n>> \in Ranges(n) /\ Apart(<<1, n>>)
  BY DEF Ranges
<1>6. \A e \in F[<<1, n>>] : ~e.hit => Good(e)
  <2> HIDE DEF Good, Apart
  <2> QED
    BY <1>4, <1>5
<1> QED
  BY <1>1, <1>6

-----------------------------------------------------------------------------
(* tsearch and tdelete in a tree in order.                                   *)

\* The cells of a tree ascend by key.
Ordered(tree, key) ==
    \A i, j \in 1..Len(tree) : i < j => key[tree[i]] < key[tree[j]]
Comparing(v, tree, key) == [i \in 1..Len(tree) |-> Sign(v, key[tree[i]])]

LEMMA Splice ==
    ASSUME NEW S, NEW tree \in Seq(S), NEW c \in S, NEW e, ~e.hit,
           e.at \in 1..(Len(tree) + 1)
    PROVE  LET t == Enter(tree, e, c)
           IN  /\ t \in Seq(S) /\ Len(t) = Len(tree) + 1
               /\ \A i \in 1..(e.at - 1) : t[i] = tree[i]
               /\ t[e.at] = c
               /\ \A i \in e.at..Len(tree) : t[i + 1] = tree[i]
<1> DEFINE at == e.at
           l == SubSeq(tree, 1, at - 1)
           r == SubSeq(tree, at, Len(tree))
           m == l \o <<c>>
<1>1. Len(tree) \in Nat /\ at \in Nat /\ 1 <= at /\ at <= Len(tree) + 1
  OBVIOUS
<1>t. Enter(tree, e, c) = m \o r
  BY DEF Enter
<1> HIDE DEF at
<1>2. l \in Seq(S) /\ Len(l) = at - 1 /\ \A i \in 1..(at - 1) : l[i] = tree[i]
  BY <1>1
<1>3. r \in Seq(S) /\ Len(r) = Len(tree) + 1 - at
      /\ \A i \in 1..(Len(tree) + 1 - at) : r[i] = tree[i + at - 1]
  BY <1>1
<1> HIDE DEF l, r
<1>4. /\ m \in Seq(S) /\ Len(m) = at
      /\ \A i \in 1..(at - 1) : m[i] = tree[i]
      /\ m[at] = c
  BY <1>1, <1>2
<1> HIDE DEF m
<1>5. m \o r \in Seq(S) /\ Len(m \o r) = Len(tree) + 1
  <2>1. m \o r \in Seq(S) /\ Len(m \o r) = Len(m) + Len(r)
    BY <1>3, <1>4, ConcatProperties
  <2> QED
    BY <1>1, <1>3, <1>4, <2>1
<1>6. \A i \in 1..at : (m \o r)[i] = m[i]
  BY <1>1, <1>3, <1>4
<1>7. ASSUME NEW i \in at..Len(tree) PROVE (m \o r)[i + 1] = tree[i]
  <2>1. (i + 1) - at \in 1..(Len(tree) + 1 - at)
    BY <1>1
  <2>2. (m \o r)[i + 1] = r[(i + 1) - at]
    BY <1>1, <1>3, <1>4, <2>1
  <2>3. r[(i + 1) - at] = tree[((i + 1) - at) + at - 1] /\ ((i + 1) - at) + at - 1 = i
    BY <1>1, <1>3, <2>1
  <2> QED
    BY <2>2, <2>3
<1>8. /\ \A i \in 1..(at - 1) : (m \o r)[i] = tree[i]
      /\ (m \o r)[at] = c
  BY <1>1, <1>4, <1>6
<1> DEFINE t == Enter(tree, e, c)
<1> HIDE DEF t
<1>9. t = m \o r
  BY <1>t DEF t
<1>10. /\ t \in Seq(S) /\ Len(t) = Len(tree) + 1
       /\ \A i \in 1..(at - 1) : t[i] = tree[i]
       /\ t[at] = c
       /\ \A i \in at..Len(tree) : t[i + 1] = tree[i]
  BY <1>5, <1>7, <1>8, <1>9
<1> QED
  BY <1>10 DEF t, at

LEMMA Cut ==
    ASSUME NEW S, NEW tree \in Seq(S), NEW at \in 1..Len(tree)
    PROVE  LET t == SubSeq(tree, 1, at - 1) \o SubSeq(tree, at + 1, Len(tree))
           IN  /\ t \in Seq(S) /\ Len(t) = Len(tree) - 1
               /\ \A i \in 1..(Len(tree) - 1) :
                    t[i] = IF i < at THEN tree[i] ELSE tree[i + 1]
<1>1. Len(tree) \in Nat /\ at \in Nat /\ 1 <= at /\ at <= Len(tree)
  OBVIOUS
<1> DEFINE l == SubSeq(tree, 1, at - 1)
           r == SubSeq(tree, at + 1, Len(tree))
<1>2. l \in Seq(S) /\ Len(l) = at - 1 /\ \A i \in 1..(at - 1) : l[i] = tree[i]
  BY <1>1
<1>3. r \in Seq(S) /\ Len(r) = Len(tree) - at
      /\ \A i \in 1..(Len(tree) - at) : r[i] = tree[i + at]
  BY <1>1
<1> HIDE DEF l, r
<1>4. l \o r \in Seq(S) /\ Len(l \o r) = Len(tree) - 1
  <2>1. l \o r \in Seq(S) /\ Len(l \o r) = Len(l) + Len(r)
    BY <1>2, <1>3, ConcatProperties
  <2> QED
    BY <1>1, <1>2, <1>3, <2>1
<1>5. ASSUME NEW i \in 1..(Len(tree) - 1)
      PROVE  (l \o r)[i] = IF i < at THEN tree[i] ELSE tree[i + 1]
  <2>1. CASE i < at
    BY <1>1, <1>2, <1>3, <2>1
  <2>2. CASE i >= at
    <3>1. i - (at - 1) \in 1..(Len(tree) - at)
      BY <1>1, <2>2
    <3>2. (l \o r)[i] = r[i - (at - 1)]
      BY <1>1, <1>2, <1>3, <2>2, <3>1
    <3>3. r[i - (at - 1)] = tree[(i - (at - 1)) + at] /\ (i - (at - 1)) + at = i + 1
      BY <1>1, <1>3, <3>1
    <3>4. ~(i < at)
      BY <1>1, <2>2
    <3> QED
      BY <3>2, <3>3, <3>4
  <2>3. i < at \/ i >= at
    BY <1>1
  <2> QED
    BY <2>1, <2>2, <2>3
<1> QED
  BY <1>4, <1>5 DEF l, r

(* A search by the key of a tree in order ends at the node with that key, or
   between the nodes with less and those with more.                          *)
LEMMA SearchOrdered ==
    ASSUME NEW S, NEW key \in [S -> Int], NEW tree \in Seq(S), NEW v \in Int,
           Ordered(tree, key), NEW e \in Ends(Comparing(v, tree, key))
    PROVE  /\ e.hit => e.at \in 1..Len(tree) /\ key[tree[e.at]] = v
           /\ ~e.hit => /\ e.at \in 1..(Len(tree) + 1)
                        /\ \A i \in 1..Len(tree) : i < e.at => key[tree[i]] < v
                        /\ \A i \in 1..Len(tree) : i >= e.at => key[tree[i]] > v
<1> DEFINE cmp == Comparing(v, tree, key)
           n   == Len(tree)
<1>1. n \in Nat /\ Len(cmp) = n
  BY DEF Comparing
<1>2. \A i \in 1..n : key[tree[i]] \in Int /\ cmp[i] = Sign(v, key[tree[i]])
  BY DEF Comparing
<1>3. Descending(cmp)
  BY <1>1, <1>2 DEF Descending, Sign, Ordered
<1>4. /\ e.hit => e.at \in 1..n /\ cmp[e.at] = 0
      /\ ~e.hit => e.at \in 1..(n + 1)
  BY <1>1, EndsAt
<1>5. ~e.hit => /\ \A i \in 1..n : i < e.at => cmp[i] > 0
                /\ \A i \in 1..n : i >= e.at => cmp[i] < 0
  BY <1>1, <1>3, EndsBetween
<1>6. \A i \in 1..n : /\ cmp[i] = 0 => key[tree[i]] = v
                      /\ cmp[i] > 0 => key[tree[i]] < v
                      /\ cmp[i] < 0 => key[tree[i]] > v
  BY <1>2 DEF Sign
<1> QED
  <2> HIDE DEF cmp
  <2> QED
    BY <1>4, <1>5, <1>6

(* tsearch keeps a tree in order, and the new cell is in it unless one with
   its key was.                                                              *)
LEMMA EnterOrdered ==
    ASSUME NEW S, NEW key \in [S -> Int], NEW tree \in Seq(S), NEW c \in S,
           Ordered(tree, key), NEW e \in Ends(Comparing(key[c], tree, key))
    PROVE  LET t == Enter(tree, e, c)
           IN  /\ t \in Seq(S) /\ Ordered(t, key)
               /\ e.hit => t = tree /\ \E d \in CellsIn(tree) : key[d] = key[c]
               /\ ~e.hit => CellsIn(t) = CellsIn(tree) \cup {c}
<1> DEFINE n  == Len(tree)
           at == e.at
           t  == Enter(tree, e, c)
<1>1. n \in Nat /\ key[c] \in Int /\ \A i \in 1..n : tree[i] \in S /\ key[tree[i]] \in Int
  OBVIOUS
<1>2. /\ e.hit => at \in 1..n /\ key[tree[at]] = key[c]
      /\ ~e.hit => /\ at \in 1..(n + 1)
                   /\ \A i \in 1..n : i < at => key[tree[i]] < key[c]
                   /\ \A i \in 1..n : i >= at => key[tree[i]] > key[c]
  BY <1>1, SearchOrdered
<1>3. CASE e.hit
  BY <1>2, <1>3 DEF Enter, CellsIn
<1>4. CASE ~e.hit
  <2>1. at \in 1..(n + 1)
    BY <1>2, <1>4
  <2>2. /\ \A i \in 1..n : i < at => key[tree[i]] < key[c]
        /\ \A i \in 1..n : i >= at => key[tree[i]] > key[c]
    BY <1>2, <1>4
  <2>3. /\ t \in Seq(S) /\ Len(t) = n + 1
        /\ \A i \in 1..(at - 1) : t[i] = tree[i]
        /\ t[at] = c
        /\ \A i \in at..n : t[i + 1] = tree[i]
    BY <1>4, <2>1, Splice
  <2> HIDE DEF t, at
  <2>4. \A i \in 1..(n + 1) : i > at => i - 1 \in at..n /\ t[i] = tree[i - 1]
    <3> SUFFICES ASSUME NEW i \in 1..(n + 1), i > at
                 PROVE  i - 1 \in at..n /\ t[i] = tree[i - 1]
      OBVIOUS
    <3>1. i - 1 \in at..n /\ (i - 1) + 1 = i
      BY <1>1, <2>1
    <3> QED
      BY <2>3, <3>1
  <2>5. ASSUME NEW i \in 1..(n + 1), NEW j \in 1..(n + 1), i < j
        PROVE  key[t[i]] < key[t[j]]
    <3>1. CASE j < at
      <4>1. i \in 1..n /\ j \in 1..n /\ i \in 1..(at - 1) /\ j \in 1..(at - 1)
        BY <1>1, <2>1, <2>5, <3>1
      <4>2. t[i] = tree[i] /\ t[j] = tree[j]
        BY <2>3, <4>1
      <4> QED
        BY <2>5, <4>1, <4>2 DEF Ordered
    <3>2. CASE j = at
      <4>1. i \in 1..n /\ i \in 1..(at - 1) /\ i < at
        BY <1>1, <2>1, <2>5, <3>2
      <4>2. t[i] = tree[i] /\ t[j] = c
        BY <2>3, <3>2, <4>1
      <4> QED
        BY <2>2, <4>1, <4>2
    <3>3. CASE j > at /\ i < at
      <4>1. i \in 1..n /\ i \in 1..(at - 1) /\ j - 1 \in 1..n /\ i < j - 1
        BY <1>1, <2>1, <3>3
      <4>2. t[i] = tree[i] /\ t[j] = tree[j - 1]
        BY <2>3, <2>4, <3>3, <4>1
      <4> QED
        BY <4>1, <4>2 DEF Ordered
    <3>4. CASE j > at /\ i = at
      <4>1. j - 1 \in 1..n /\ j - 1 >= at
        BY <1>1, <2>1, <3>4
      <4>2. t[i] = c /\ t[j] = tree[j - 1]
        BY <2>3, <2>4, <3>4
      <4>3. key[tree[j - 1]] > key[c]
        BY <2>2, <4>1
      <4> QED
        BY <1>1, <4>1, <4>2, <4>3
    <3>5. CASE i > at
      <4>1. i - 1 \in 1..n /\ j - 1 \in 1..n /\ i - 1 < j - 1 /\ j > at
        BY <1>1, <2>1, <2>5, <3>5
      <4>2. t[i] = tree[i - 1] /\ t[j] = tree[j - 1]
        BY <2>4, <3>5, <4>1
      <4> QED
        BY <4>1, <4>2 DEF Ordered
    <3> QED
      BY <2>1, <2>5, <3>1, <3>2, <3>3, <3>4, <3>5
  <2>6. CellsIn(t) = CellsIn(tree) \cup {c}
    <3>0. Len(t) = n + 1
      BY <2>3
    <3>1. ASSUME NEW i \in 1..(n + 1) PROVE t[i] \in CellsIn(tree) \cup {c}
      <4>1. CASE i < at
        <5>1. i \in 1..(at - 1) /\ i \in 1..n
          BY <1>1, <2>1, <4>1
        <5>2. t[i] = tree[i]
          BY <2>3, <5>1
        <5> QED
          BY <5>1, <5>2 DEF CellsIn
      <4>2. CASE i > at
        <5>1. i - 1 \in 1..n /\ t[i] = tree[i - 1]
          BY <1>1, <2>1, <2>4, <4>2
        <5> QED
          BY <5>1 DEF CellsIn
      <4>3. CASE i = at
        BY <2>3, <4>3
      <4> QED
        BY <2>1, <4>1, <4>2, <4>3
    <3>2. ASSUME NEW i \in 1..n PROVE tree[i] \in CellsIn(t)
      <4>1. CASE i < at
        <5>1. i \in 1..(n + 1) /\ i \in 1..(at - 1)
          BY <1>1, <2>1, <4>1
        <5>2. t[i] = tree[i]
          BY <2>3, <5>1
        <5> QED
          BY <3>0, <5>1, <5>2 DEF CellsIn
      <4>2. CASE i >= at
        <5>1. i + 1 \in 1..(n + 1) /\ i \in at..n
          BY <1>1, <2>1, <4>2
        <5>2. t[i + 1] = tree[i]
          BY <2>3, <5>1
        <5> QED
          BY <3>0, <5>1, <5>2 DEF CellsIn
      <4> QED
        BY <2>1, <4>1, <4>2
    <3>3. c \in CellsIn(t)
      <4>1. t[at] = c
        BY <2>3
      <4> QED
        BY <2>1, <3>0, <4>1 DEF CellsIn
    <3>4. CellsIn(t) \subseteq CellsIn(tree) \cup {c}
      BY <3>0, <3>1 DEF CellsIn
    <3>5. CellsIn(tree) \subseteq CellsIn(t)
      BY <3>2 DEF CellsIn
    <3> QED
      BY <3>3, <3>4, <3>5
  <2>7. t \in Seq(S) /\ Ordered(t, key)
    <3>1. Len(t) = n + 1 /\ t \in Seq(S)
      BY <2>3
    <3> QED
      BY <2>5, <3>1 DEF Ordered
  <2> QED
    BY <1>4, <2>6, <2>7 DEF t
<1> QED
  BY <1>3, <1>4

(* tdelete takes one cell out of a tree in order, whatever the search went by. *)
LEMMA DeleteOrdered ==
    ASSUME NEW S, NEW key \in [S -> Int], NEW tree \in Seq(S), Ordered(tree, key),
           NEW e, e.hit, e.at \in 1..Len(tree)
    PROVE  LET t == Delete(tree, e)
           IN  /\ t \in Seq(S) /\ Ordered(t, key)
               /\ CellsIn(t) = CellsIn(tree) \ {tree[e.at]}
<1> DEFINE n == Len(tree)
           t == Delete(tree, e)
<1>1. n \in Nat /\ \A i \in 1..n : tree[i] \in S /\ key[tree[i]] \in Int
  OBVIOUS
<1>2. /\ t \in Seq(S) /\ Len(t) = n - 1
      /\ \A i \in 1..(n - 1) : t[i] = IF i < e.at THEN tree[i] ELSE tree[i + 1]
  BY Cut DEF Delete
<1> HIDE DEF t
<1>3. ASSUME NEW i \in 1..(n - 1), NEW j \in 1..(n - 1), i < j
      PROVE  key[t[i]] < key[t[j]]
  <2>1. /\ i \in 1..n /\ j \in 1..n /\ i + 1 \in 1..n /\ j + 1 \in 1..n
        /\ i < j + 1 /\ i + 1 < j + 1
    BY <1>1, <1>3
  <2>2. /\ key[tree[i]] < key[tree[j]]
        /\ key[tree[i]] < key[tree[j + 1]]
        /\ key[tree[i + 1]] < key[tree[j + 1]]
    BY <1>3, <2>1 DEF Ordered
  <2>3. j < e.at => i < e.at
    BY <1>3, <2>1
  <2> QED
    BY <1>2, <2>2, <2>3
<1>4. ASSUME NEW i \in 1..(n - 1) PROVE t[i] \in CellsIn(tree) \ {tree[e.at]}
  <2> DEFINE k == IF i < e.at THEN i ELSE i + 1
  <2>1. k \in 1..n /\ k # e.at /\ t[i] = tree[k]
    <3>1. i < e.at \/ ~(i < e.at)
      OBVIOUS
    <3>2. t[i] = IF i < e.at THEN tree[i] ELSE tree[i + 1]
      BY <1>2
    <3> QED
      BY <1>1, <3>1, <3>2
  <2>2. k < e.at \/ e.at < k
    BY <1>1, <2>1
  <2>3. key[tree[k]] # key[tree[e.at]]
    <3> HIDE DEF k
    <3>1. key[tree[k]] < key[tree[e.at]] \/ key[tree[e.at]] < key[tree[k]]
      BY <2>1, <2>2 DEF Ordered
    <3> QED
      BY <1>1, <2>1, <3>1
  <2> QED
    BY <2>1, <2>3 DEF CellsIn
<1>5. ASSUME NEW i \in 1..n, i # e.at PROVE tree[i] \in CellsIn(t)
  <2>1. CASE i < e.at
    <3>1. i \in 1..(n - 1)
      BY <1>1, <2>1
    <3>2. t[i] = tree[i]
      BY <1>2, <2>1, <3>1
    <3> QED
      BY <1>2, <3>1, <3>2 DEF CellsIn
  <2>2. CASE i > e.at
    <3>1. i - 1 \in 1..(n - 1) /\ ~(i - 1 < e.at) /\ (i - 1) + 1 = i
      BY <1>1, <2>2
    <3>2. t[i - 1] = tree[i]
      BY <1>2, <3>1
    <3>3. Len(t) = n - 1
      BY <1>2
    <3> QED
      BY <3>1, <3>2, <3>3 DEF CellsIn
  <2> QED
    BY <1>5, <2>1, <2>2
<1>6. CellsIn(t) = CellsIn(tree) \ {tree[e.at]}
  <2>1. Len(t) = n - 1
    BY <1>2
  <2>2. CellsIn(t) \subseteq CellsIn(tree) \ {tree[e.at]}
    BY <1>4, <2>1 DEF CellsIn
  <2>3. CellsIn(tree) \ {tree[e.at]} \subseteq CellsIn(t)
    BY <1>5 DEF CellsIn
  <2> QED
    BY <2>2, <2>3
<1> QED
  BY <1>2, <1>3, <1>6 DEF Ordered, t

LEMMA OrderedInjective ==
    ASSUME NEW S, NEW key \in [S -> Int], NEW tree \in Seq(S), Ordered(tree, key),
           NEW c \in CellsIn(tree), NEW d \in CellsIn(tree), key[c] = key[d]
    PROVE  c = d
<1>1. Len(tree) \in Nat
  OBVIOUS
<1>2. PICK i \in 1..Len(tree), j \in 1..Len(tree) : c = tree[i] /\ d = tree[j]
  BY DEF CellsIn
<1>3. key[tree[i]] \in Int /\ key[tree[j]] \in Int
  OBVIOUS
<1>4. ~(key[tree[i]] < key[tree[j]]) /\ ~(key[tree[j]] < key[tree[i]])
  BY <1>2, <1>3
<1>5. ~(i < j) /\ ~(j < i)
  BY <1>4 DEF Ordered
<1> QED
  BY <1>1, <1>2, <1>5

\* tdelete by one key of a tree that is in order of a second one too.
LEMMA DeleteFound ==
    ASSUME NEW S, NEW key \in [S -> Int], NEW tree \in Seq(S), Ordered(tree, key),
           NEW key2 \in [S -> Int], Ordered(tree, key2),
           NEW v \in Int, NEW e \in Ends(Comparing(v, tree, key))
    PROVE  LET t == Delete(tree, e)
           IN  /\ Ordered(t, key) /\ Ordered(t, key2)
               /\ \A d \in CellsIn(t) : d \in CellsIn(tree) /\ key[d] # v
<1>1. /\ e.hit => e.at \in 1..Len(tree) /\ key[tree[e.at]] = v
      /\ ~e.hit => /\ e.at \in 1..(Len(tree) + 1)
                   /\ \A i \in 1..Len(tree) : i < e.at => key[tree[i]] < v
                   /\ \A i \in 1..Len(tree) : i >= e.at => key[tree[i]] > v
  BY SearchOrdered
<1>2. CASE e.hit
  <2> DEFINE t == Delete(tree, e)
             c == tree[e.at]
  <2>1. c \in CellsIn(tree) /\ key[c] = v
    BY <1>1, <1>2 DEF CellsIn
  <2>0. e.at \in 1..Len(tree)
    BY <1>1, <1>2
  <2>2. Ordered(t, key) /\ CellsIn(t) = CellsIn(tree) \ {c}
    BY <1>2, <2>0, DeleteOrdered
  <2>4. Ordered(t, key2)
    BY <1>2, <2>0, DeleteOrdered
  <2> HIDE DEF t, c
  <2>3. \A d \in CellsIn(t) : d \in CellsIn(tree) /\ key[d] # v
    BY <2>1, <2>2, OrderedInjective
  <2> QED
    BY <2>2, <2>3, <2>4 DEF t
<1>3. CASE ~e.hit
  <2>1. \A i \in 1..Len(tree) : key[tree[i]] # v
    <3> SUFFICES ASSUME NEW i \in 1..Len(tree) PROVE key[tree[i]] # v
      OBVIOUS
    <3>1. i \in Int /\ e.at \in Int /\ key[tree[i]] \in Int
      BY <1>1, <1>3
    <3>2. CASE i < e.at
      BY <1>1, <1>3, <3>1, <3>2
    <3>3. CASE i >= e.at
      BY <1>1, <1>3, <3>1, <3>3
    <3> QED
      BY <3>1, <3>2, <3>3
  <2> QED
    BY <1>3, <2>1 DEF Delete, CellsIn
<1> QED
  BY <1>2, <1>3

\* In a tree in any order.
LEMMA TreeKept ==
    ASSUME NEW S, NEW tree \in Seq(S), NEW c \in S, NEW cmp, Len(cmp) = Len(tree),
           NEW e \in Ends(cmp)
    PROVE  /\ Enter(tree, e, c) \in Seq(S) /\ Delete(tree, e) \in Seq(S)
           /\ e.hit => e.at \in 1..Len(tree) /\ cmp[e.at] = 0
<1>1. Len(tree) \in Nat
  OBVIOUS
<1>2. /\ e.hit => e.at \in 1..Len(tree) /\ cmp[e.at] = 0
      /\ ~e.hit => e.at \in 1..(Len(tree) + 1)
  BY <1>1, EndsAt
<1>3. CASE e.hit
  BY <1>2, <1>3, Cut DEF Enter, Delete
<1>4. CASE ~e.hit
  <2>1. Enter(tree, e, c) \in Seq(S)
    BY <1>2, <1>4, Splice
  <2> QED
    BY <1>4, <2>1 DEF Delete
<1> QED
  BY <1>2, <1>3, <1>4

LEMMA SameComparing ==
    ASSUME NEW tree, NEW key, NEW key2, NEW v,
           \A c \in CellsIn(tree) : key[c] = key2[c]
    PROVE  /\ Comparing(v, tree, key) = Comparing(v, tree, key2)
           /\ Ordered(tree, key) => Ordered(tree, key2)
<1>1. \A i \in 1..Len(tree) : key[tree[i]] = key2[tree[i]]
  BY DEF CellsIn
<1> QED
  BY <1>1 DEF Comparing, Ordered

-----------------------------------------------------------------------------
(* The pool.                                                                 *)

Sound(p) == /\ IsPool(p) /\ p.size = FILEMAPTREENODEPOOLSIZE
            /\ Partitioned(p, Cells \ FreeCells(p))

LEMMA PopSound ==
    ASSUME NEW p, Sound(p), p.idx # 0
    PROVE  /\ Sound(Pop(p))
           /\ Top(p) \in FreeCells(p) /\ Top(p) \in Cells
           /\ FreeCells(Pop(p)) = FreeCells(p) \ {Top(p)}
<1> DEFINE U == Cells \ FreeCells(p)
<1>1. IsPool(p) /\ p.size = FILEMAPTREENODEPOOLSIZE /\ Partitioned(p, U) /\ p.idx > 0
  BY DEF Sound, IsPool
<1>2. Cells = 0..(p.size - 1)
  BY <1>1 DEF Cells
<1> HIDE DEF U
<1>3. /\ Top(p) \in 0..(p.size - 1) /\ Top(p) \notin U
      /\ Partitioned(Pop(p), U \cup {Top(p)})
  BY <1>1, PopPartitioned
<1>4. IsPool(Pop(p)) /\ Pop(p).size = p.size
  BY <1>1, PopFields
<1>5. Top(p) \in FreeCells(p) /\ Top(p) \in Cells
  BY <1>2, <1>3 DEF U
<1>6. FreeCells(Pop(p)) = Cells \ (U \cup {Top(p)})
  BY <1>2, <1>3, <1>4 DEF Partitioned
<1>7. FreeCells(p) = Cells \ U
  BY <1>1, <1>2 DEF Partitioned, U
<1>8. U \subseteq Cells
  BY DEF U
<1>9. Cells \ FreeCells(Pop(p)) = U \cup {Top(p)}
  BY <1>5, <1>6, <1>8
<1>10. FreeCells(Pop(p)) = FreeCells(p) \ {Top(p)}
  BY <1>6, <1>7
<1> QED
  BY <1>1, <1>3, <1>4, <1>5, <1>9, <1>10 DEF Sound

LEMMA PushSound ==
    ASSUME NEW p, Sound(p), NEW c \in Cells \ FreeCells(p)
    PROVE  /\ Sound(Push(p, c))
           /\ FreeCells(Push(p, c)) = FreeCells(p) \cup {c}
<1> DEFINE U == Cells \ FreeCells(p)
<1>1. IsPool(p) /\ p.size = FILEMAPTREENODEPOOLSIZE /\ Partitioned(p, U)
  BY DEF Sound
<1>2. Cells = 0..(p.size - 1)
  BY <1>1 DEF Cells
<1>3. c \in U /\ U \subseteq 0..(p.size - 1) /\ c \in Int
  <2>1. c \in Cells /\ U \subseteq Cells
    OBVIOUS
  <2> QED
    BY <1>2, <2>1
<1>4. FreeCells(p) = Cells \ U
  BY <1>1, <1>2 DEF Partitioned
<1> HIDE DEF U
<1>5. p.idx < p.size
  <2>1. IsFiniteSet(U) /\ Cardinality(U) = p.size - p.idx
    BY <1>1, InUseCount
  <2>2. Cardinality(U) # 0
    BY <1>3, <2>1, FS_EmptySet
  <2> QED
    BY <1>1, <2>1, <2>2 DEF IsPool
<1>6. IsPool(Push(p, c)) /\ Push(p, c).size = p.size
  BY <1>1, <1>3, <1>5, PushFields
<1>7. Partitioned(Push(p, c), U \ {c})
  BY <1>1, <1>3, <1>5, PushPartitioned
<1>8. FreeCells(Push(p, c)) = Cells \ (U \ {c})
  BY <1>2, <1>6, <1>7 DEF Partitioned
<1>9. /\ FreeCells(Push(p, c)) = FreeCells(p) \cup {c}
      /\ Cells \ FreeCells(Push(p, c)) = U \ {c}
  BY <1>2, <1>3, <1>4, <1>8
<1> QED
  BY <1>1, <1>6, <1>7, <1>9 DEF Sound

LEMMA SoundNoDup ==
    ASSUME NEW p, Sound(p)
    PROVE  /\ \A i, j \in 0..(p.idx - 1) : p.ptr[i] = p.ptr[j] => i = j
           /\ FreeCells(p) \subseteq Cells
  BY DEF Sound, Partitioned, Cells

-----------------------------------------------------------------------------
(* The inductive invariant.                                                  *)

Starting == [c \in Cells |-> nodes[c].start]
Named    == [c \in Cells |-> addressOf(nodes[c].fileName)]

Typed ==
    /\ TypeOK
    /\ kernelMap \in [DOMAIN kernelMap -> Files]
    /\ nodes \in [Cells -> [start : Nat, fd : Nat,
                            fileName : Names \cup {CallerPath, None}]]
    /\ fileMapTree \in Seq(Cells) /\ fileMapNameTree \in Seq(Cells)
    /\ openFileArray \in [0..(MAX_FILE_NUM - 1) -> Cells \cup {None}]
    /\ history \in [orderly : BOOLEAN, crowded : BOOLEAN, shared : BOOLEAN]

\* The slots of the mappings differ.
UncrowdedSound ==
    ~history.crowded =>
        /\ \A i \in 0..(MAX_FILE_NUM - 1) :
             openFileArray[i] # None
               <=> \E c \in CellsIn(fileMapTree) : slotOf(nodes[c].fd) = i
        /\ \A c, d \in CellsIn(fileMapTree) :
             slotOf(nodes[c].fd) = slotOf(nodes[d].fd) => c = d

\* The name tree is in order of names and of starts at once.
OrderlySound ==
    history.orderly =>
        /\ CellsIn(fileMapNameTree) \subseteq CellsIn(fileMapTree)
        /\ Ordered(fileMapNameTree, Starting)
        /\ Ordered(fileMapNameTree, Named)
        /\ \A c \in CellsIn(fileMapNameTree) : nodes[c].start # MAP_FAILED

\* The names of the mappings differ.
UnsharedSound ==
    ~history.shared =>
        /\ \A c \in CellsIn(fileMapTree) : nodes[c].fileName \in heap \cup {CallerPath}
        /\ \A c, d \in CellsIn(fileMapTree) :
             nodes[c].fileName = nodes[d].fileName => c = d

\* What the trees, the pool and the table owe to each other at all times.
TablesSound ==
    /\ Sound(nodePool)
    /\ Ordered(fileMapTree, Starting)
    /\ CellsIn(fileMapTree) \cap FreeCells(nodePool) = {}
    /\ \A c \in CellsIn(fileMapTree) :
          nodes[c].start \in DOMAIN kernelMap \cup {MAP_FAILED}
    /\ EntriesLive

IInv == /\ Typed /\ TablesSound
        /\ UncrowdedSound /\ OrderlySound /\ UnsharedSound

LEMMA AddressInt == \A x \in Names \cup {CallerPath, None} : addressOf(x) \in Int
  BY NamesAssumption DEF addressOf

\* What the parts say of a cell of the address tree.
LEMMA TreeFacts ==
    ASSUME IInv
    PROVE  /\ Starting \in [Cells -> Int] /\ Named \in [Cells -> Int]
           /\ CellsIn(fileMapTree) \subseteq Cells \ FreeCells(nodePool)
           /\ CellsIn(fileMapNameTree) \subseteq Cells
           /\ None \notin Cells /\ \A s \in Starts : s # MAP_FAILED
           /\ \A c \in Cells : /\ nodes[c].start \in Nat
                               /\ Starting[c] = nodes[c].start
                               /\ Named[c] = addressOf(nodes[c].fileName)
<1>1. \A c \in Cells : nodes[c].start \in Nat /\ nodes[c].fileName \in Names \cup {CallerPath, None}
  BY DEF IInv, Typed
<1>3. Starting \in [Cells -> Int] /\ Named \in [Cells -> Int]
  BY <1>1, AddressInt DEF Starting, Named
<1>4. CellsIn(fileMapTree) \subseteq Cells \ FreeCells(nodePool)
  BY DEF IInv, Typed, TypeOK, TablesSound
<1>5. CellsIn(fileMapNameTree) \subseteq Cells
  BY DEF IInv, Typed, TypeOK
<1>6. \A s \in Starts : s # MAP_FAILED
  BY StartsAssumption
<1> QED
  BY <1>1, <1>3, <1>4, <1>5, <1>6, NoneAssumption DEF Starting, Named

\* The searches compare as the proofs above do.
LEMMA Searches ==
    ASSUME NEW tree \in Seq(Cells)
    PROVE  /\ \A key : ByStart(tree, key) = Ends(Comparing(key.start, tree, Starting))
           /\ \A key : ByName(tree, nodes, key) = Ends(Comparing(addressOf(key.fileName), tree, Named))
<1>1. \A i \in 1..Len(tree) : tree[i] \in Cells
  OBVIOUS
<1> SUFFICES ASSUME NEW key
             PROVE  /\ ByStart(tree, key) = Ends(Comparing(key.start, tree, Starting))
                    /\ ByName(tree, nodes, key)
                         = Ends(Comparing(addressOf(key.fileName), tree, Named))
  OBVIOUS
<1>2. [i \in 1..Len(tree) |-> fileMapTreeInsDelCompare(key, nodes[tree[i]])]
        = Comparing(key.start, tree, Starting)
  BY <1>1 DEF Comparing, Starting, fileMapTreeInsDelCompare
<1>3. [i \in 1..Len(tree) |-> fileMapNameTreeInsDelCompare(key, nodes[tree[i]])]
        = Comparing(addressOf(key.fileName), tree, Named)
  BY <1>1 DEF Comparing, Named, fileMapNameTreeInsDelCompare
<1> QED
  BY <1>2, <1>3 DEF ByStart, ByName

(* At the start all trees, tables and names are empty, and agree.            *)
THEOREM InitIInv == Init => IInv
<1> SUFFICES ASSUME Init PROVE IInv
  OBVIOUS
<1>0. FILEMAPTREENODEPOOLSIZE \in Nat \ {0} /\ MAX_FILE_NUM \in Nat \ {0}
  BY SizesAssumption
<1>1. IsPool(nodePool) /\ nodePool.size = FILEMAPTREENODEPOOLSIZE /\ Partitioned(nodePool, {})
  BY <1>0, NewPoolPartitioned DEF Init
<1>2. FreeCells(nodePool) = Cells
  BY <1>1 DEF Partitioned, Cells
<1>3. Sound(nodePool)
  <2>1. Cells \ FreeCells(nodePool) = {}
    BY <1>2
  <2> QED
    BY <1>1, <2>1 DEF Sound
<1>4. CellsIn(fileMapTree) = {} /\ CellsIn(fileMapNameTree) = {}
      /\ fileMapTree \in Seq(Cells) /\ fileMapNameTree \in Seq(Cells)
      /\ Len(fileMapTree) = 0 /\ Len(fileMapNameTree) = 0
  <2>1. fileMapTree = <<>> /\ fileMapNameTree = <<>>
    BY DEF Init
  <2>2. CellsIn(<<>>) = {} /\ <<>> \in Seq(Cells) /\ Len(<<>>) = 0
    BY DEF CellsIn
  <2> QED
    BY <2>1, <2>2
<1>5. Typed
  <2>1. TypeOK
    BY <1>1, <1>2, <1>4 DEF TypeOK, Init
  <2>2. kernelMap \in [DOMAIN kernelMap -> Files]
    BY DEF Init
  <2>3. nodes \in [Cells -> [start : Nat, fd : Nat, fileName : Names \cup {CallerPath, None}]]
    BY DEF Init
  <2>4. openFileArray \in [0..(MAX_FILE_NUM - 1) -> Cells \cup {None}]
    BY DEF Init
  <2>5. history \in [orderly : BOOLEAN, crowded : BOOLEAN, shared : BOOLEAN]
    BY DEF Init
  <2> QED
    BY <1>4, <2>1, <2>2, <2>3, <2>4, <2>5 DEF Typed
<1>6. EntriesLive
  BY DEF EntriesLive, Init
<1>7. TablesSound
  BY <1>3, <1>4, <1>6 DEF TablesSound, Ordered
<1>8. UncrowdedSound
  BY <1>4 DEF UncrowdedSound, Init
<1>9. OrderlySound /\ UnsharedSound
  BY <1>4 DEF OrderlySound, UnsharedSound, Ordered
<1> QED
  BY <1>5, <1>7, <1>8, <1>9 DEF IInv

-----------------------------------------------------------------------------
(* The actions.                                                              *)

LEMMA OpenStep ==
    ASSUME IInv, NEW fd \in Fds, NEW file \in Files,
           ts_open(fd, file) \/ ts_fopenEmpty(fd, file) \/ ts_openat(fd, file)
    PROVE  IInv'
<1>1. Opens(fd, file)
  BY DEF ts_open, ts_fopenEmpty, ts_openat
<1>2. UNCHANGED <<kernelMap, nodes, nodePool, fileMapTree, fileMapNameTree,
                  openFileArray, stopped, history>>
  BY DEF ts_open, ts_fopenEmpty, ts_openat, Opens
<1>3. /\ FD2PATH' \in [Cells -> Names \cup {CallerPath, None}]
      /\ heap \subseteq heap' /\ heap' \subseteq Names
  <2>1. FD2PATH \in [Cells -> Names \cup {CallerPath, None}] /\ heap \subseteq Names
    BY DEF IInv, Typed, TypeOK
  <2>2. CASE ts_open(fd, file)
    BY <2>1, <2>2 DEF ts_open, STOREPATH, Mallocable
  <2>3. CASE ts_fopenEmpty(fd, file)
    BY <2>1, <2>3 DEF ts_fopenEmpty
  <2>4. CASE ts_openat(fd, file)
    BY <2>1, <2>4 DEF ts_openat, STOREPATH
  <2> QED
    BY <2>2, <2>3, <2>4
<1>4. fdFile' \in [Fds -> Files \cup {None}]
  BY <1>1 DEF IInv, Typed, TypeOK, Opens
<1>5. Typed'
  BY <1>2, <1>3, <1>4 DEF IInv, Typed, TypeOK, CellsIn
<1>6. TablesSound'
  BY <1>2 DEF IInv, TablesSound, Ordered, Starting, EntriesLive, CellsIn
<1>7. UncrowdedSound' /\ OrderlySound'
  <2>1. UncrowdedSound'
    BY <1>2 DEF IInv, UncrowdedSound, CellsIn
  <2>2. OrderlySound'
    BY <1>2 DEF IInv, OrderlySound, Ordered, Starting, Named, CellsIn
  <2> QED
    BY <2>1, <2>2
<1>8. UnsharedSound'
  BY <1>2, <1>3 DEF IInv, UnsharedSound, CellsIn
<1> QED
  BY <1>5, <1>6, <1>7, <1>8 DEF IInv

LEMMA MemcpyStep ==
    ASSUME IInv, NEW src, ts_memcpy(src) PROVE IInv'
<1>1. UNCHANGED <<fdFile, kernelMap, FD2PATH, heap, nodes, nodePool, fileMapTree,
                  fileMapNameTree, openFileArray, stopped, history>>
  BY DEF ts_memcpy, library
<1>2. Typed'
  BY <1>1 DEF IInv, Typed, TypeOK, CellsIn
<1>3. TablesSound'
  BY <1>1 DEF IInv, TablesSound, Ordered, Starting, EntriesLive, CellsIn
<1>4. UncrowdedSound'
  BY <1>1 DEF IInv, UncrowdedSound, CellsIn
<1>5. OrderlySound'
  BY <1>1 DEF IInv, OrderlySound, Ordered, Starting, Named, CellsIn
<1>6. UnsharedSound'
  BY <1>1 DEF IInv, UnsharedSound, CellsIn
<1> QED
  BY <1>2, <1>3, <1>4, <1>5, <1>6 DEF IInv

(* mmap returns a free area, or fails.                                       *)
LEMMA Kernel ==
    ASSUME IInv, NEW fd \in Fds, NEW ret, fdFile[fd] # None, KernelMaps(fd, ret)
    PROVE  /\ DOMAIN kernelMap' \subseteq Starts
           /\ DOMAIN kernelMap \subseteq DOMAIN kernelMap'
           /\ kernelMap' \in [DOMAIN kernelMap' -> Files]
           /\ ret \in DOMAIN kernelMap' \cup {MAP_FAILED} /\ ret \in Nat
           /\ ret \notin DOMAIN kernelMap
<1>1. /\ fdFile[fd] \in Files /\ DOMAIN kernelMap \subseteq Starts
      /\ kernelMap \in [DOMAIN kernelMap -> Files]
  BY DEF IInv, Typed, TypeOK
<1>2. MAP_FAILED \in Nat /\ MAP_FAILED \notin Starts /\ Starts \subseteq Nat
  BY StartsAssumption
<1>3. CASE ret \in Starts \ DOMAIN kernelMap
           /\ kernelMap' = [s \in DOMAIN kernelMap \cup {ret} |->
                              IF s = ret THEN fdFile[fd] ELSE kernelMap[s]]
  BY <1>1, <1>2, <1>3
<1>4. CASE ret = MAP_FAILED /\ UNCHANGED kernelMap
  BY <1>1, <1>2, <1>4
<1> QED
  BY <1>3, <1>4 DEF KernelMaps

LEMMA MapStopsStep ==
    ASSUME IInv, NEW fd \in Fds, NEW ret, fdFile[fd] # None, KernelMaps(fd, ret),
           MapStops(fd, ret), UNCHANGED <<fdFile, rec>>
    PROVE  IInv'
<1>1. /\ UNCHANGED <<fdFile, FD2PATH, heap, nodes, nodePool, fileMapTree,
                      fileMapNameTree, openFileArray, history>>
      /\ stopped' # "segv"
  BY DEF MapStops, library
<1>2. /\ DOMAIN kernelMap' \subseteq Starts
      /\ DOMAIN kernelMap \subseteq DOMAIN kernelMap'
      /\ kernelMap' \in [DOMAIN kernelMap' -> Files]
  BY Kernel
<1>3. Typed'
  BY <1>1, <1>2 DEF IInv, Typed, TypeOK, CellsIn
<1>4. TablesSound'
  BY <1>1, <1>2 DEF IInv, TablesSound, Ordered, Starting, EntriesLive, CellsIn
<1>5. UncrowdedSound'
  BY <1>1 DEF IInv, UncrowdedSound, CellsIn
<1>6. OrderlySound'
  BY <1>1 DEF IInv, OrderlySound, Ordered, Starting, Named, CellsIn
<1>7. UnsharedSound'
  BY <1>1 DEF IInv, UnsharedSound, CellsIn
<1> QED
  BY <1>3, <1>4, <1>5, <1>6, <1>7 DEF IInv

LEMMA SlotsInRange ==
    ASSUME NEW fd \in Nat
    PROVE  slotOf(fd) \in 0..(MAX_FILE_NUM - 1) /\ fd % FILEMAPTREENODEPOOLSIZE \in Cells
<1>1. MAX_FILE_NUM \in Nat \ {0} /\ FILEMAPTREENODEPOOLSIZE \in Nat \ {0}
  BY SizesAssumption
<1> QED
  BY <1>1 DEF slotOf, Cells

LEMMA RegisterStep ==
    ASSUME IInv, NEW fd \in Fds, NEW ret, fdFile[fd] # None, KernelMaps(fd, ret),
           GETPATH(fd) # None, nodePool.idx # 0, Register(fd, ret), Running,
           UNCHANGED <<fdFile, rec>>
    PROVE  IInv'
<1> DEFINE c    == Top(nodePool)
           name == GETPATH(fd)
           node == [start |-> ret, fileName |-> name, fd |-> fd]
<1>1. /\ Sound(nodePool) /\ c \in FreeCells(nodePool) /\ c \in Cells
      /\ Sound(nodePool') /\ FreeCells(nodePool') = FreeCells(nodePool) \ {c}
  BY PopSound DEF IInv, TablesSound, Register
<1>2. fd \in Nat /\ name \in Names \cup {CallerPath}
  <2>1. fd \in Nat
    BY SizesAssumption
  <2>2. fd % FILEMAPTREENODEPOOLSIZE \in Cells
    BY <2>1, SlotsInRange
  <2>3. FD2PATH \in [Cells -> Names \cup {CallerPath, None}]
    BY DEF IInv, Typed, TypeOK
  <2> QED
    BY <2>1, <2>2, <2>3 DEF GETPATH
<1>3. /\ DOMAIN kernelMap' \subseteq Starts
      /\ DOMAIN kernelMap \subseteq DOMAIN kernelMap'
      /\ kernelMap' \in [DOMAIN kernelMap' -> Files]
      /\ ret \in DOMAIN kernelMap' \cup {MAP_FAILED} /\ ret \in Nat
      /\ ret \notin DOMAIN kernelMap
  BY Kernel
<1>4. /\ nodes' = [nodes EXCEPT ![c] = node]
      /\ openFileArray' = [openFileArray EXCEPT ![slotOf(fd)] = c]
      /\ UNCHANGED <<fdFile, FD2PATH, heap, stopped>>
  BY DEF Register
<1>5. PICK e \in ByStart(fileMapTree, node) : fileMapTree' = Enter(fileMapTree, e, c)
  BY DEF Register
<1>6. PICK f \in ByName(fileMapNameTree, nodes', node) :
           fileMapNameTree' = Enter(fileMapNameTree, f, c)
  BY DEF Register
<1>7. history' = [history EXCEPT
         !.orderly = @ /\ ret # MAP_FAILED /\ InOrder(fileMapNameTree', nodes'),
         !.crowded = @ \/ ret = MAP_FAILED
                       \/ \E i \in 1..Len(fileMapTree) :
                            slotOf(nodes[fileMapTree[i]].fd) = slotOf(fd),
         !.shared = @ \/ node.fileName \notin heap \cup {CallerPath}
                      \/ \E i \in 1..Len(fileMapTree) :
                           nodes[fileMapTree[i]].fileName = node.fileName]
  BY DEF Register
<1>h. /\ history' \in [orderly : BOOLEAN, crowded : BOOLEAN, shared : BOOLEAN]
      /\ history'.orderly => /\ history.orderly /\ ret # MAP_FAILED
                             /\ InOrder(fileMapNameTree', nodes')
      /\ ~history'.crowded =>
           /\ ~history.crowded /\ ret # MAP_FAILED
           /\ \A d \in CellsIn(fileMapTree) : slotOf(nodes[d].fd) # slotOf(fd)
      /\ ~history'.shared =>
           /\ ~history.shared /\ node.fileName \in heap \cup {CallerPath}
           /\ \A d \in CellsIn(fileMapTree) : nodes[d].fileName # node.fileName
  <2> DEFINE o == InOrder(fileMapNameTree', nodes')
             w == \E i \in 1..Len(fileMapTree) :
                      slotOf(nodes[fileMapTree[i]].fd) = slotOf(fd)
             h == \E i \in 1..Len(fileMapTree) :
                      nodes[fileMapTree[i]].fileName = node.fileName
  <2>1. o \in BOOLEAN /\ w \in BOOLEAN /\ h \in BOOLEAN
    BY DEF InOrder
  <2>2. history' = [history EXCEPT !.orderly = @ /\ ret # MAP_FAILED /\ o,
                      !.crowded = @ \/ ret = MAP_FAILED \/ w,
                      !.shared = @ \/ node.fileName \notin heap \cup {CallerPath} \/ h]
    BY <1>7
  <2>3. /\ ~w => \A d \in CellsIn(fileMapTree) : slotOf(nodes[d].fd) # slotOf(fd)
        /\ ~h => \A d \in CellsIn(fileMapTree) : nodes[d].fileName # node.fileName
    BY DEF CellsIn
  <2> HIDE DEF o, w, h
  <2>4. history \in [orderly : BOOLEAN, crowded : BOOLEAN, shared : BOOLEAN]
    BY DEF IInv, Typed
  <2>5. /\ history' \in [orderly : BOOLEAN, crowded : BOOLEAN, shared : BOOLEAN]
        /\ history'.orderly => history.orderly /\ ret # MAP_FAILED /\ o
        /\ ~history'.crowded => ~history.crowded /\ ret # MAP_FAILED /\ ~w
        /\ ~history'.shared => ~history.shared
                               /\ node.fileName \in heap \cup {CallerPath} /\ ~h
    BY <2>1, <2>2, <2>4
  <2> QED
    BY <2>3, <2>5 DEF o
<1> HIDE DEF c, name
<1>8. /\ nodes' \in [Cells -> [start : Nat, fd : Nat, fileName : Names \cup {CallerPath, None}]]
      /\ nodes'[c] = node /\ \A d \in Cells \ {c} : nodes'[d] = nodes[d]
  BY <1>1, <1>2, <1>3, <1>4 DEF IInv, Typed
<1> HIDE DEF node
<1>9. node.start = ret /\ node.fileName = name /\ node.fd = fd
  BY DEF node
<1>10. /\ CellsIn(fileMapTree) \subseteq Cells /\ c \notin CellsIn(fileMapTree)
       /\ fileMapTree \in Seq(Cells) /\ fileMapNameTree \in Seq(Cells)
       /\ CellsIn(fileMapNameTree) \subseteq Cells
  BY <1>1, TreeFacts DEF IInv, Typed
<1>11. /\ \A d \in CellsIn(fileMapTree) : nodes'[d] = nodes[d]
       /\ \A d \in CellsIn(fileMapTree) : Starting'[d] = Starting[d] /\ Named'[d] = Named[d]
       /\ Starting' \in [Cells -> Int] /\ Named' \in [Cells -> Int]
       /\ Starting'[c] = ret /\ Named'[c] = addressOf(name)
  <2>2. \A d \in Cells : nodes'[d].start \in Nat /\ nodes'[d].fileName \in Names \cup {CallerPath, None}
    BY <1>8
  <2>3. \A d \in CellsIn(fileMapTree) : nodes'[d] = nodes[d]
    BY <1>8, <1>10
  <2>4. \A d \in Cells : /\ Starting[d] = nodes[d].start
                         /\ Named[d] = addressOf(nodes[d].fileName)
                         /\ Starting'[d] = nodes'[d].start
                         /\ Named'[d] = addressOf(nodes'[d].fileName)
    BY DEF Starting, Named
  <2>5. Starting' \in [Cells -> Int] /\ Named' \in [Cells -> Int]
    BY <2>2, AddressInt DEF Starting, Named
  <2>6. Starting'[c] = ret /\ Named'[c] = addressOf(name)
    BY <1>1, <1>8, <1>9, <2>4
  <2>7. \A d \in CellsIn(fileMapTree) : Starting'[d] = Starting[d] /\ Named'[d] = Named[d]
    <3> SUFFICES ASSUME NEW d \in CellsIn(fileMapTree)
                 PROVE  Starting'[d] = Starting[d] /\ Named'[d] = Named[d]
      OBVIOUS
    <3>1. d \in Cells /\ nodes'[d] = nodes[d]
      BY <1>10, <2>3
    <3> QED
      BY <2>4, <3>1
  <2> QED
    BY <2>3, <2>5, <2>6, <2>7
<1>12. e \in Ends(Comparing(Starting'[c], fileMapTree, Starting'))
  <2>1. e \in Ends(Comparing(ret, fileMapTree, Starting))
    BY <1>5, <1>9, <1>10, Searches
  <2>2. Comparing(ret, fileMapTree, Starting) = Comparing(ret, fileMapTree, Starting')
    BY <1>11, SameComparing
  <2> QED
    BY <2>1, <2>2, <1>11
<1>13. /\ fileMapTree' \in Seq(Cells) /\ Ordered(fileMapTree', Starting')
       /\ e.hit => fileMapTree' = fileMapTree
                   /\ \E d \in CellsIn(fileMapTree) : Starting'[d] = Starting'[c]
       /\ ~e.hit => CellsIn(fileMapTree') = CellsIn(fileMapTree) \cup {c}
  <2>1. Ordered(fileMapTree, Starting')
    BY <1>11, SameComparing DEF IInv, TablesSound
  <2> DEFINE key == Starting'
  <2>2. key \in [Cells -> Int] /\ Ordered(fileMapTree, key)
        /\ e \in Ends(Comparing(key[c], fileMapTree, key))
    BY <1>11, <1>12, <2>1
  <2> HIDE DEF key
  <2> DEFINE t == Enter(fileMapTree, e, c)
  <2>3. /\ t \in Seq(Cells) /\ Ordered(t, key)
        /\ e.hit => t = fileMapTree /\ \E d \in CellsIn(fileMapTree) : key[d] = key[c]
        /\ ~e.hit => CellsIn(t) = CellsIn(fileMapTree) \cup {c}
    BY <1>1, <1>10, <2>2, EnterOrdered
  <2> HIDE DEF t
  <2>4. fileMapTree' = t
    BY <1>5 DEF t
  <2> QED
    BY <2>3, <2>4 DEF key
<1>14. \/ CellsIn(fileMapTree') = CellsIn(fileMapTree) \cup {c}
       \/ ret = MAP_FAILED /\ CellsIn(fileMapTree') = CellsIn(fileMapTree)
  <2>1. CASE ~e.hit
    BY <1>13, <2>1
  <2>2. CASE e.hit
    <3>1. PICK d \in CellsIn(fileMapTree) : Starting'[d] = ret
      BY <1>11, <1>13, <2>2
    <3>2. nodes[d].start = ret
      BY <1>10, <1>11, <3>1 DEF Starting
    <3>3. ret = MAP_FAILED
      BY <1>3, <3>2 DEF IInv, TablesSound
    <3> QED
      BY <1>13, <2>2, <3>3
  <2> QED
    BY <2>1, <2>2
<1>15. fileMapNameTree' \in Seq(Cells)
  <2> DEFINE cmp == [i \in 1..Len(fileMapNameTree) |->
                      fileMapNameTreeInsDelCompare(node, nodes'[fileMapNameTree[i]])]
  <2>1. Len(cmp) = Len(fileMapNameTree)
    <3>1. fileMapNameTree \in Seq(Cells)
      BY <1>10
    <3>2. Len(fileMapNameTree) \in Nat
      BY <3>1
    <3> QED
      BY <3>2
  <2>2. f \in Ends(cmp)
    BY <1>6 DEF ByName
  <2> HIDE DEF cmp
  <2> QED
    BY <1>1, <1>6, <1>10, <2>1, <2>2, TreeKept
<1>16. Typed'
  <2>1. FD2PATH' = FD2PATH /\ heap' = heap /\ fdFile' = fdFile
    BY <1>4
  <2>2. CellsIn(fileMapTree') \cup CellsIn(fileMapNameTree') \subseteq Cells
    BY <1>13, <1>15 DEF CellsIn
  <2>3. IsPool(nodePool') /\ FreeCells(nodePool') \subseteq Cells
    BY <1>1, SoundNoDup DEF Sound
  <2>4. openFileArray' \in [0..(MAX_FILE_NUM - 1) -> Cells \cup {None}]
    BY <1>1, <1>4 DEF IInv, Typed
  <2>5. history' \in [orderly : BOOLEAN, crowded : BOOLEAN, shared : BOOLEAN]
    BY <1>h
  <2>6. TypeOK'
    BY <1>3, <2>1, <2>2, <2>3, <2>4 DEF TypeOK, IInv, Typed, CellsIn
  <2> QED
    BY <1>3, <1>8, <1>13, <1>15, <2>4, <2>5, <2>6 DEF Typed
<1>17. EntriesLive'
  <2> SUFFICES ASSUME NEW i \in 0..(MAX_FILE_NUM - 1), openFileArray'[i] # None
               PROVE  /\ openFileArray'[i] \notin FreeCells(nodePool')
                      /\ slotOf(nodes'[openFileArray'[i]].fd) = i
    BY <1>4 DEF EntriesLive, IInv, Typed
  <2>1. openFileArray \in [0..(MAX_FILE_NUM - 1) -> Cells \cup {None}]
    BY DEF IInv, Typed
  <2>2. CASE i = slotOf(fd)
    BY <1>1, <1>4, <1>8, <1>9, <2>1, <2>2
  <2>3. CASE i # slotOf(fd)
    <3>1. openFileArray'[i] = openFileArray[i]
      BY <1>4, <2>1, <2>3
    <3>2. openFileArray[i] \in Cells /\ openFileArray[i] \notin FreeCells(nodePool)
          /\ slotOf(nodes[openFileArray[i]].fd) = i
      BY <2>1, <3>1 DEF IInv, TablesSound, EntriesLive
    <3>3. nodes'[openFileArray[i]] = nodes[openFileArray[i]]
      BY <1>1, <1>8, <3>2
    <3> QED
      BY <1>1, <3>1, <3>2, <3>3
  <2> QED
    BY <2>2, <2>3
<1>18. TablesSound'
  <2>1. CellsIn(fileMapTree') \cap FreeCells(nodePool') = {}
    BY <1>1, <1>14 DEF IInv, TablesSound
  <2>2. ASSUME NEW d \in CellsIn(fileMapTree')
        PROVE  nodes'[d].start \in DOMAIN kernelMap' \cup {MAP_FAILED}
    <3>1. CASE d = c
      BY <1>3, <1>8, <1>9, <3>1
    <3>2. CASE d \in CellsIn(fileMapTree)
      BY <1>3, <1>11, <3>2 DEF IInv, TablesSound
    <3> QED
      BY <1>14, <2>2, <3>1, <3>2
  <2>3. Sound(nodePool')
    BY <1>1
  <2> QED
    BY <1>13, <1>17, <2>1, <2>2, <2>3 DEF TablesSound, CellsIn
<1>19. UncrowdedSound'
  <2> SUFFICES ASSUME ~history'.crowded
               PROVE  /\ \A i \in 0..(MAX_FILE_NUM - 1) :
                           openFileArray'[i] # None
                             <=> \E d \in CellsIn(fileMapTree') : slotOf(nodes'[d].fd) = i
                      /\ \A d, d2 \in CellsIn(fileMapTree') :
                           slotOf(nodes'[d].fd) = slotOf(nodes'[d2].fd) => d = d2
    BY DEF UncrowdedSound, CellsIn
  <2>1. /\ CellsIn(fileMapTree') = CellsIn(fileMapTree) \cup {c}
        /\ \A d \in CellsIn(fileMapTree) : slotOf(nodes[d].fd) # slotOf(fd)
        /\ ~history.crowded
    BY <1>h, <1>14
  <2>2. /\ \A i \in 0..(MAX_FILE_NUM - 1) :
             openFileArray[i] # None
               <=> \E d \in CellsIn(fileMapTree) : slotOf(nodes[d].fd) = i
        /\ \A d, d2 \in CellsIn(fileMapTree) :
             slotOf(nodes[d].fd) = slotOf(nodes[d2].fd) => d = d2
    BY <2>1 DEF IInv, UncrowdedSound
  <2>3. nodes'[c].fd = fd /\ \A d \in CellsIn(fileMapTree) : nodes'[d] = nodes[d]
    BY <1>8, <1>9, <1>11
  <2>4. \A d, d2 \in CellsIn(fileMapTree') :
             slotOf(nodes'[d].fd) = slotOf(nodes'[d2].fd) => d = d2
    BY <2>1, <2>2, <2>3
  <2>5. ASSUME NEW i \in 0..(MAX_FILE_NUM - 1)
        PROVE  openFileArray'[i] # None
                 <=> \E d \in CellsIn(fileMapTree') : slotOf(nodes'[d].fd) = i
    <3>1. openFileArray \in [0..(MAX_FILE_NUM - 1) -> Cells \cup {None}] /\ c # None
      BY <1>1, NoneAssumption DEF IInv, Typed
    <3>2. CASE i = slotOf(fd)
      <4>1. openFileArray'[i] = c
        BY <1>4, <3>1, <3>2
      <4> QED
        BY <2>1, <2>3, <3>1, <3>2, <4>1
    <3>3. CASE i # slotOf(fd)
      <4>1. openFileArray'[i] = openFileArray[i]
        BY <1>4, <3>1, <3>3
      <4>2. (\E d \in CellsIn(fileMapTree') : slotOf(nodes'[d].fd) = i)
              <=> \E d \in CellsIn(fileMapTree) : slotOf(nodes[d].fd) = i
        BY <2>1, <2>3, <3>3
      <4> QED
        BY <2>2, <4>1, <4>2
    <3> QED
      BY <3>2, <3>3
  <2> QED
    BY <2>4, <2>5
<1>20. OrderlySound'
  <2> SUFFICES ASSUME history'.orderly
               PROVE  /\ CellsIn(fileMapNameTree') \subseteq CellsIn(fileMapTree')
                      /\ Ordered(fileMapNameTree', Starting')
                      /\ Ordered(fileMapNameTree', Named')
                      /\ \A d \in CellsIn(fileMapNameTree') : nodes'[d].start # MAP_FAILED
    BY DEF OrderlySound, Ordered, CellsIn
  <2>1. /\ history.orderly /\ ret # MAP_FAILED /\ InOrder(fileMapNameTree', nodes')
        /\ CellsIn(fileMapTree') = CellsIn(fileMapTree) \cup {c}
    BY <1>h, <1>14
  <2>2. /\ CellsIn(fileMapNameTree) \subseteq CellsIn(fileMapTree)
        /\ Ordered(fileMapNameTree, Named)
        /\ \A d \in CellsIn(fileMapNameTree) : nodes[d].start # MAP_FAILED
    BY <2>1 DEF IInv, OrderlySound
  <2>3. Ordered(fileMapNameTree', Starting')
    <3>1. \A i \in 1..Len(fileMapNameTree') :
             Starting'[fileMapNameTree'[i]] = nodes'[fileMapNameTree'[i]].start
      BY <1>15 DEF Starting
    <3> QED
      BY <2>1, <3>1 DEF InOrder, Ordered
  <2> DEFINE key == Named'
             t   == Enter(fileMapNameTree, f, c)
  <2>4. /\ key \in [Cells -> Int] /\ Ordered(fileMapNameTree, key)
        /\ f \in Ends(Comparing(key[c], fileMapNameTree, key))
    <3>1. \A d \in CellsIn(fileMapNameTree) : key[d] = Named[d] /\ nodes'[d] = nodes[d]
      BY <1>11, <2>2
    <3>2. Ordered(fileMapNameTree, key)
      BY <2>2, <3>1, SameComparing
    <3>3. ByName(fileMapNameTree, nodes', node) = ByName(fileMapNameTree, nodes, node)
      <4>1. \A i \in 1..Len(fileMapNameTree) :
               nodes'[fileMapNameTree[i]] = nodes[fileMapNameTree[i]]
        BY <3>1 DEF CellsIn
      <4> QED
        BY <4>1 DEF ByName
    <3>4. f \in Ends(Comparing(addressOf(name), fileMapNameTree, Named))
      BY <1>6, <1>9, <1>10, <3>3, Searches
    <3>5. Comparing(addressOf(name), fileMapNameTree, Named)
            = Comparing(addressOf(name), fileMapNameTree, key)
      BY <3>1, SameComparing
    <3> QED
      BY <1>11, <3>2, <3>4, <3>5
  <2> HIDE DEF key, t
  <2>5. /\ Ordered(t, key)
        /\ f.hit => t = fileMapNameTree
        /\ ~f.hit => CellsIn(t) = CellsIn(fileMapNameTree) \cup {c}
    BY <1>1, <1>10, <2>4, EnterOrdered DEF t
  <2>6. fileMapNameTree' = t
    BY <1>6 DEF t
  <2>7. CellsIn(fileMapNameTree') \subseteq CellsIn(fileMapNameTree) \cup {c}
    BY <2>5, <2>6
  <2>8. \A d \in CellsIn(fileMapNameTree') : nodes'[d].start # MAP_FAILED
    <3>1. nodes'[c].start = ret
      BY <1>8, <1>9
    <3> QED
      BY <1>11, <2>1, <2>2, <2>7, <3>1
  <2> QED
    BY <2>1, <2>2, <2>3, <2>5, <2>6, <2>7, <2>8 DEF key
<1>21. UnsharedSound'
  <2> SUFFICES ASSUME ~history'.shared
               PROVE  /\ \A d \in CellsIn(fileMapTree') : nodes'[d].fileName \in heap' \cup {CallerPath}
                      /\ \A d, d2 \in CellsIn(fileMapTree') :
                           nodes'[d].fileName = nodes'[d2].fileName => d = d2
    BY DEF UnsharedSound, CellsIn
  <2>1. /\ ~history.shared /\ name \in heap \cup {CallerPath} /\ heap' = heap
        /\ \A d \in CellsIn(fileMapTree) : nodes[d].fileName # name
    BY <1>h, <1>4, <1>9
  <2>2. /\ \A d \in CellsIn(fileMapTree) : nodes[d].fileName \in heap \cup {CallerPath}
        /\ \A d, d2 \in CellsIn(fileMapTree) :
             nodes[d].fileName = nodes[d2].fileName => d = d2
    BY <2>1 DEF IInv, UnsharedSound
  <2>3. /\ CellsIn(fileMapTree') \subseteq CellsIn(fileMapTree) \cup {c}
        /\ nodes'[c].fileName = name
        /\ \A d \in CellsIn(fileMapTree) : nodes'[d] = nodes[d]
    BY <1>8, <1>9, <1>11, <1>14
  <2> QED
    BY <2>1, <2>2, <2>3
<1> QED
  BY <1>16, <1>18, <1>19, <1>20, <1>21 DEF IInv

(* A node withdrawn from the address tree goes back to the pool, and its entry
   is cleared: no other mapping had it, unless mappings shared entries.       *)
LEMMA DropSound ==
    ASSUME IInv, NEW c \in CellsIn(fileMapTree), Drop(c), UNCHANGED <<nodes, history>>,
           CellsIn(fileMapTree') = CellsIn(fileMapTree) \ {c}
    PROVE  /\ Sound(nodePool')
           /\ openFileArray' \in [0..(MAX_FILE_NUM - 1) -> Cells \cup {None}]
           /\ CellsIn(fileMapTree') \cap FreeCells(nodePool') = {}
           /\ EntriesLive' /\ UncrowdedSound'
<1>1. c \in Cells \ FreeCells(nodePool)
  BY TreeFacts
<1>2. Sound(nodePool') /\ FreeCells(nodePool') = FreeCells(nodePool) \cup {c}
  BY <1>1, PushSound DEF IInv, TablesSound, Drop
<1>3. /\ openFileArray \in [0..(MAX_FILE_NUM - 1) -> Cells \cup {None}]
      /\ openFileArray' = [openFileArray EXCEPT ![slotOf(nodes[c].fd)] = None]
      /\ nodes[c].fd \in Nat
  BY <1>1 DEF IInv, Typed, Drop
<1>4. slotOf(nodes[c].fd) \in 0..(MAX_FILE_NUM - 1)
  BY <1>3, SlotsInRange
<1>5. openFileArray' \in [0..(MAX_FILE_NUM - 1) -> Cells \cup {None}]
  BY <1>3
<1>6. CellsIn(fileMapTree') \cap FreeCells(nodePool') = {}
  BY <1>2 DEF IInv, TablesSound
<1>7. \A i \in 0..(MAX_FILE_NUM - 1) :
         openFileArray'[i] = IF i = slotOf(nodes[c].fd) THEN None ELSE openFileArray[i]
  BY <1>3
<1>8. EntriesLive'
  <2> SUFFICES ASSUME NEW i \in 0..(MAX_FILE_NUM - 1), openFileArray'[i] # None
               PROVE  /\ openFileArray'[i] \notin FreeCells(nodePool')
                      /\ slotOf(nodes'[openFileArray'[i]].fd) = i
    BY <1>5 DEF EntriesLive
  <2>1. openFileArray'[i] = openFileArray[i] /\ i # slotOf(nodes[c].fd)
    BY <1>7
  <2>2. /\ openFileArray[i] \notin FreeCells(nodePool)
        /\ slotOf(nodes[openFileArray[i]].fd) = i
    BY <1>3, <2>1 DEF IInv, TablesSound, EntriesLive
  <2> QED
    BY <1>2, <2>1, <2>2
<1>9. UncrowdedSound'
  <2> SUFFICES ASSUME ~history.crowded
               PROVE  /\ \A i \in 0..(MAX_FILE_NUM - 1) :
                           openFileArray'[i] # None
                             <=> \E d \in CellsIn(fileMapTree') : slotOf(nodes[d].fd) = i
                      /\ \A d, d2 \in CellsIn(fileMapTree') :
                           slotOf(nodes[d].fd) = slotOf(nodes[d2].fd) => d = d2
    BY DEF UncrowdedSound, CellsIn
  <2>1. /\ \A i \in 0..(MAX_FILE_NUM - 1) :
             openFileArray[i] # None
               <=> \E d \in CellsIn(fileMapTree) : slotOf(nodes[d].fd) = i
        /\ \A d, d2 \in CellsIn(fileMapTree) :
             slotOf(nodes[d].fd) = slotOf(nodes[d2].fd) => d = d2
    BY DEF IInv, UncrowdedSound
  <2>2. ASSUME NEW i \in 0..(MAX_FILE_NUM - 1)
        PROVE  openFileArray'[i] # None
                 <=> \E d \in CellsIn(fileMapTree') : slotOf(nodes[d].fd) = i
    <3>1. CASE i = slotOf(nodes[c].fd)
      <4>1. \A d \in CellsIn(fileMapTree') : slotOf(nodes[d].fd) # i
        BY <2>1, <3>1
      <4> QED
        BY <1>7, <3>1, <4>1
    <3>2. CASE i # slotOf(nodes[c].fd)
      BY <1>7, <2>1, <3>2
    <3> QED
      BY <3>1, <3>2
  <2> QED
    BY <2>1, <2>2
<1> QED
  BY <1>2, <1>5, <1>6, <1>8, <1>9

LEMMA MunmapStep ==
    ASSUME IInv, NEW start \in Starts, ts_munmap(start) PROVE IInv'
<1> DEFINE key == [start |-> start]
<1>1. /\ start \in DOMAIN kernelMap /\ start \in Int /\ start # MAP_FAILED
      /\ kernelMap' = [s \in DOMAIN kernelMap \ {start} |-> kernelMap[s]]
      /\ UNCHANGED <<fdFile, FD2PATH, nodes, history>>
  BY StartsAssumption DEF ts_munmap
<1>2. /\ DOMAIN kernelMap' = DOMAIN kernelMap \ {start}
      /\ DOMAIN kernelMap' \subseteq Starts
      /\ kernelMap' \in [DOMAIN kernelMap' -> Files]
  BY <1>1 DEF IInv, Typed, TypeOK
<1>3. PICK found \in ByStart(fileMapTree, key) :
         IF found.hit
         THEN LET c == fileMapTree[found.at]
              IN  /\ Drop(c)
                  /\ fileMapTree' = Delete(fileMapTree, found)
                  /\ \E e \in ByStart(fileMapNameTree, key) :
                        fileMapNameTree' = Delete(fileMapNameTree, e)
                  /\ Free(nodes[c].fileName)
         ELSE UNCHANGED <<openFileArray, nodePool, fileMapTree,
                          fileMapNameTree, heap, stopped>>
  BY DEF ts_munmap
<1>k. key.start = start
  OBVIOUS
<1> HIDE DEF key
<1>4. /\ fileMapTree \in Seq(Cells) /\ fileMapNameTree \in Seq(Cells)
      /\ Starting \in [Cells -> Int] /\ Named \in [Cells -> Int]
      /\ CellsIn(fileMapTree) \subseteq Cells
      /\ \A c \in Cells : Starting[c] = nodes[c].start
      /\ Ordered(fileMapTree, Starting)
  BY TreeFacts DEF IInv, Typed, TablesSound
<1>5. Starting' = Starting /\ Named' = Named
  BY <1>1 DEF Starting, Named
<1>6. /\ found.hit => /\ found.at \in 1..Len(fileMapTree)
                      /\ Starting[fileMapTree[found.at]] = start
      /\ ~found.hit => \A c \in CellsIn(fileMapTree) : Starting[c] # start
  <2>1. found \in Ends(Comparing(start, fileMapTree, Starting))
    BY <1>k, <1>3, <1>4, Searches
  <2>2. /\ found.hit => /\ found.at \in 1..Len(fileMapTree)
                        /\ Starting[fileMapTree[found.at]] = start
        /\ ~found.hit =>
             /\ found.at \in 1..(Len(fileMapTree) + 1)
             /\ \A i \in 1..Len(fileMapTree) : i < found.at => Starting[fileMapTree[i]] < start
             /\ \A i \in 1..Len(fileMapTree) : i >= found.at => Starting[fileMapTree[i]] > start
    BY <1>1, <1>4, <2>1, SearchOrdered
  <2>3. ASSUME ~found.hit, NEW i \in 1..Len(fileMapTree)
        PROVE  Starting[fileMapTree[i]] # start
    <3>1. fileMapTree[i] \in Cells /\ i \in Int /\ found.at \in Int
      BY <1>4, <2>2, <2>3
    <3>2. Starting[fileMapTree[i]] \in Int
      BY <1>4, <3>1
    <3> QED
      BY <1>1, <2>2, <2>3, <3>1, <3>2
  <2> QED
    BY <2>2, <2>3 DEF CellsIn
<1>7. CASE ~found.hit
  <2>1. UNCHANGED <<openFileArray, nodePool, fileMapTree, fileMapNameTree, heap, stopped>>
    BY <1>3, <1>7
  <2>2. Typed'
    BY <1>1, <1>2, <2>1 DEF IInv, Typed, TypeOK, CellsIn
  <2>3. \A c \in CellsIn(fileMapTree) : nodes[c].start \in DOMAIN kernelMap' \cup {MAP_FAILED}
    BY <1>2, <1>4, <1>6, <1>7 DEF IInv, TablesSound
  <2>4. TablesSound'
    BY <1>1, <1>5, <2>1, <2>3 DEF IInv, TablesSound, Ordered, EntriesLive, CellsIn
  <2>5. UncrowdedSound'
    BY <1>1, <2>1 DEF IInv, UncrowdedSound, CellsIn
  <2>6. OrderlySound'
    BY <1>1, <1>5, <2>1 DEF IInv, OrderlySound, Ordered, CellsIn
  <2>7. UnsharedSound'
    BY <1>1, <2>1 DEF IInv, UnsharedSound, CellsIn
  <2> QED
    BY <2>2, <2>4, <2>5, <2>6, <2>7 DEF IInv
<1>8. CASE found.hit
  <2> DEFINE c == fileMapTree[found.at]
  <2>1. /\ Drop(c) /\ fileMapTree' = Delete(fileMapTree, found)
        /\ Free(nodes[c].fileName)
    BY <1>3, <1>8
  <2>2. PICK e \in ByStart(fileMapNameTree, key) : fileMapNameTree' = Delete(fileMapNameTree, e)
    BY <1>3, <1>8
  <2>3. c \in CellsIn(fileMapTree) /\ Starting[c] = start /\ nodes[c].start = start
    BY <1>4, <1>6, <1>8 DEF CellsIn
  <2>4. /\ fileMapTree' \in Seq(Cells) /\ Ordered(fileMapTree', Starting)
        /\ CellsIn(fileMapTree') = CellsIn(fileMapTree) \ {c}
    <3>1. /\ fileMapTree \in Seq(Cells) /\ Ordered(fileMapTree, Starting)
          /\ Starting \in [Cells -> Int] /\ found.at \in 1..Len(fileMapTree)
      BY <1>4, <1>6, <1>8
    <3> QED
      BY <1>8, <2>1, <3>1, DeleteOrdered
  <2> HIDE DEF c
  <2>5. /\ Sound(nodePool') /\ EntriesLive' /\ UncrowdedSound'
        /\ openFileArray' \in [0..(MAX_FILE_NUM - 1) -> Cells \cup {None}]
        /\ CellsIn(fileMapTree') \cap FreeCells(nodePool') = {}
    BY <1>1, <2>1, <2>3, <2>4, DropSound
  <2>6. e \in Ends(Comparing(start, fileMapNameTree, Starting))
    BY <1>k, <1>4, <2>2, Searches
  <2>7. fileMapNameTree' \in Seq(Cells)
    <3>1. Len(fileMapNameTree) \in Nat
      BY <1>4
    <3>2. Len(Comparing(start, fileMapNameTree, Starting)) = Len(fileMapNameTree)
      BY <3>1 DEF Comparing
    <3>3. c \in Cells
      BY <1>4, <2>3
    <3> QED
      BY <1>4, <2>2, <2>6, <3>2, <3>3, TreeKept
  <2>8. Typed'
    <3>1. CellsIn(fileMapTree') \cup CellsIn(fileMapNameTree') \subseteq Cells
      BY <2>4, <2>7 DEF CellsIn
    <3>2. heap' \subseteq heap
      BY <2>1 DEF Free
    <3>3. IsPool(nodePool') /\ FreeCells(nodePool') \subseteq Cells
      BY <2>5, SoundNoDup DEF Sound
    <3>4. TypeOK'
      BY <1>1, <1>2, <2>5, <3>1, <3>2, <3>3 DEF IInv, Typed, TypeOK, CellsIn
    <3> QED
      BY <1>1, <1>2, <2>4, <2>5, <2>7, <3>4 DEF IInv, Typed
  <2>9. TablesSound'
    <3>1. ASSUME NEW d \in CellsIn(fileMapTree')
          PROVE  nodes[d].start \in DOMAIN kernelMap' \cup {MAP_FAILED}
      <4>1. d \in CellsIn(fileMapTree) /\ d # c
        BY <2>4
      <4>2. Starting[d] # Starting[c]
        BY <1>4, <2>3, <4>1, OrderedInjective
      <4> QED
        BY <1>2, <1>4, <2>3, <4>1, <4>2 DEF IInv, TablesSound
    <3> QED
      BY <1>1, <1>5, <2>4, <2>5, <3>1 DEF TablesSound, CellsIn
  <2>10. OrderlySound'
    <3> SUFFICES ASSUME history.orderly
                 PROVE  /\ CellsIn(fileMapNameTree') \subseteq CellsIn(fileMapTree')
                        /\ Ordered(fileMapNameTree', Starting)
                        /\ Ordered(fileMapNameTree', Named)
                        /\ \A d \in CellsIn(fileMapNameTree') : nodes[d].start # MAP_FAILED
      BY <1>1, <1>5 DEF OrderlySound, CellsIn, Ordered
    <3>1. /\ CellsIn(fileMapNameTree) \subseteq CellsIn(fileMapTree)
          /\ Ordered(fileMapNameTree, Starting)
          /\ Ordered(fileMapNameTree, Named)
          /\ \A d \in CellsIn(fileMapNameTree) : nodes[d].start # MAP_FAILED
      BY DEF IInv, OrderlySound
    <3>2. /\ Ordered(fileMapNameTree', Starting) /\ Ordered(fileMapNameTree', Named)
          /\ \A d \in CellsIn(fileMapNameTree') :
               d \in CellsIn(fileMapNameTree) /\ Starting[d] # start
      <4> DEFINE t == Delete(fileMapNameTree, e)
      <4>1. /\ Ordered(t, Starting) /\ Ordered(t, Named)
            /\ \A d \in CellsIn(t) : d \in CellsIn(fileMapNameTree) /\ Starting[d] # start
        <5>1. start \in Int
          BY <1>1
        <5>2. /\ fileMapNameTree \in Seq(Cells)
              /\ Starting \in [Cells -> Int] /\ Named \in [Cells -> Int]
          BY <1>4
        <5>3. Ordered(fileMapNameTree, Starting) /\ Ordered(fileMapNameTree, Named)
          BY <3>1
        <5> QED
          BY <2>6, <5>1, <5>2, <5>3, DeleteFound
      <4> HIDE DEF t
      <4>2. fileMapNameTree' = t
        BY <2>2 DEF t
      <4> QED
        BY <4>1, <4>2
    <3> QED
      BY <2>3, <2>4, <3>1, <3>2
  <2>11. UnsharedSound'
    <3> SUFFICES ASSUME ~history.shared
                 PROVE  /\ \A d \in CellsIn(fileMapTree') : nodes[d].fileName \in heap' \cup {CallerPath}
                        /\ \A d, d2 \in CellsIn(fileMapTree') :
                             nodes[d].fileName = nodes[d2].fileName => d = d2
      BY <1>1 DEF UnsharedSound, CellsIn
    <3>1. heap' = heap \/ heap' = heap \ {nodes[c].fileName}
      BY <2>1 DEF Free
    <3> QED
      BY <2>3, <2>4, <3>1 DEF IInv, UnsharedSound
  <2> QED
    BY <2>5, <2>8, <2>9, <2>10, <2>11 DEF IInv
<1> QED
  BY <1>7, <1>8

LEMMA CloseStep ==
    ASSUME IInv, NEW fd \in Fds, ts_close(fd) PROVE IInv'
<1> DEFINE key == [fileName |-> GETPATH(fd)]
           v   == addressOf(GETPATH(fd))
<1>1. /\ fdFile' = [fdFile EXCEPT ![fd] = None]
      /\ UNCHANGED <<kernelMap, FD2PATH, heap, nodes, stopped, history>>
  BY DEF ts_close
<1>2. PICK found \in IF key.fileName = None THEN {[at |-> 1, hit |-> FALSE]}
                     ELSE ByName(fileMapTree, nodes, key) :
         IF found.hit
         THEN /\ Drop(fileMapTree[found.at])
              /\ fileMapTree' = Delete(fileMapTree, found)
              /\ \E e \in ByName(fileMapNameTree, nodes, key) :
                    fileMapNameTree' = Delete(fileMapNameTree, e)
         ELSE UNCHANGED <<openFileArray, nodePool, fileMapTree, fileMapNameTree>>
  BY DEF ts_close
<1>3. /\ fileMapTree \in Seq(Cells) /\ fileMapNameTree \in Seq(Cells)
      /\ Starting \in [Cells -> Int] /\ Named \in [Cells -> Int]
      /\ CellsIn(fileMapTree) \subseteq Cells
      /\ Ordered(fileMapTree, Starting)
  BY TreeFacts DEF IInv, Typed, TablesSound
<1>4. Starting' = Starting /\ Named' = Named
  BY <1>1 DEF Starting, Named
<1>5. v \in Int
  <2>1. fd \in Nat
    BY SizesAssumption
  <2>2. fd % FILEMAPTREENODEPOOLSIZE \in Cells
    BY <2>1, SlotsInRange
  <2>3. GETPATH(fd) \in Names \cup {CallerPath, None}
    BY <2>2 DEF IInv, Typed, TypeOK, GETPATH
  <2> QED
    BY <2>3, AddressInt
<1>6. key.fileName = GETPATH(fd)
  OBVIOUS
<1>7. fdFile' \in [Fds -> Files \cup {None}]
  BY <1>1 DEF IInv, Typed, TypeOK
<1> HIDE DEF key
<1>8. CASE ~found.hit
  <2>1. UNCHANGED <<openFileArray, nodePool, fileMapTree, fileMapNameTree>>
    BY <1>2, <1>8
  <2>2. Typed'
    BY <1>1, <1>7, <2>1 DEF IInv, Typed, TypeOK, CellsIn
  <2>3. TablesSound'
    BY <1>1, <1>4, <2>1 DEF IInv, TablesSound, Ordered, EntriesLive, CellsIn
  <2>4. UncrowdedSound'
    BY <1>1, <2>1 DEF IInv, UncrowdedSound, CellsIn
  <2>5. OrderlySound'
    BY <1>1, <1>4, <2>1 DEF IInv, OrderlySound, Ordered, CellsIn
  <2>6. UnsharedSound'
    BY <1>1, <2>1 DEF IInv, UnsharedSound, CellsIn
  <2> QED
    BY <2>2, <2>3, <2>4, <2>5, <2>6 DEF IInv
<1>9. CASE found.hit
  <2> DEFINE c == fileMapTree[found.at]
  <2>1. found \in Ends(Comparing(v, fileMapTree, Named))
    <3>1. found \in ByName(fileMapTree, nodes, key)
      BY <1>9
    <3> QED
      BY <1>3, <1>6, <3>1, Searches
  <2>2. found.at \in 1..Len(fileMapTree) /\ Named[c] = v
    <3>1. Len(fileMapTree) \in Nat
      BY <1>3
    <3>2. Len(Comparing(v, fileMapTree, Named)) = Len(fileMapTree)
      BY <3>1 DEF Comparing
    <3>3. /\ found.at \in 1..Len(fileMapTree)
          /\ Comparing(v, fileMapTree, Named)[found.at] = 0
      BY <1>9, <2>1, <3>1, <3>2, EndsAt
    <3>4. Sign(v, Named[c]) = 0 /\ Named[c] \in Int
      BY <1>3, <3>3 DEF Comparing
    <3> QED
      BY <1>5, <3>3, <3>4 DEF Sign
  <2>3. Drop(c) /\ fileMapTree' = Delete(fileMapTree, found)
    BY <1>2, <1>9
  <2>4. PICK e \in ByName(fileMapNameTree, nodes, key) :
             fileMapNameTree' = Delete(fileMapNameTree, e)
    BY <1>2, <1>9
  <2>5. /\ fileMapTree' \in Seq(Cells) /\ Ordered(fileMapTree', Starting)
        /\ CellsIn(fileMapTree') = CellsIn(fileMapTree) \ {c}
    <3> DEFINE t == Delete(fileMapTree, found)
    <3>1. found.at \in 1..Len(fileMapTree)
      BY <2>2
    <3>2. t \in Seq(Cells) /\ Ordered(t, Starting) /\ CellsIn(t) = CellsIn(fileMapTree) \ {c}
      <4>1. /\ fileMapTree \in Seq(Cells) /\ Starting \in [Cells -> Int]
            /\ Ordered(fileMapTree, Starting)
        BY <1>3
      <4> QED
        BY <1>9, <3>1, <4>1, DeleteOrdered
    <3> HIDE DEF t
    <3>3. fileMapTree' = t
      BY <2>3 DEF t
    <3> QED
      BY <3>2, <3>3
  <2>6. c \in CellsIn(fileMapTree) /\ c \in Cells
    BY <1>3, <2>2 DEF CellsIn
  <2> HIDE DEF c
  <2>7. /\ Sound(nodePool') /\ EntriesLive' /\ UncrowdedSound'
        /\ openFileArray' \in [0..(MAX_FILE_NUM - 1) -> Cells \cup {None}]
        /\ CellsIn(fileMapTree') \cap FreeCells(nodePool') = {}
    BY <1>1, <2>3, <2>5, <2>6, DropSound
  <2>8. e \in Ends(Comparing(v, fileMapNameTree, Named))
    BY <1>3, <1>6, <2>4, Searches
  <2>9. fileMapNameTree' \in Seq(Cells)
    <3>1. Len(fileMapNameTree) \in Nat
      BY <1>3
    <3>2. Len(Comparing(v, fileMapNameTree, Named)) = Len(fileMapNameTree)
      BY <3>1 DEF Comparing
    <3> QED
      BY <1>3, <2>4, <2>6, <2>8, <3>2, TreeKept
  <2>10. Typed'
    <3>1. CellsIn(fileMapTree') \cup CellsIn(fileMapNameTree') \subseteq Cells
      BY <2>5, <2>9 DEF CellsIn
    <3>2. IsPool(nodePool') /\ FreeCells(nodePool') \subseteq Cells
      BY <2>7, SoundNoDup DEF Sound
    <3>3. TypeOK'
      BY <1>1, <1>7, <2>7, <3>1, <3>2 DEF IInv, Typed, TypeOK, CellsIn
    <3> QED
      BY <1>1, <2>5, <2>7, <2>9, <3>3 DEF IInv, Typed
  <2>11. TablesSound'
    <3>1. \A d \in CellsIn(fileMapTree') :
             nodes[d].start \in DOMAIN kernelMap \cup {MAP_FAILED}
      BY <2>5 DEF IInv, TablesSound
    <3> QED
      BY <1>1, <1>4, <2>5, <2>7, <3>1 DEF TablesSound, CellsIn
  <2>12. OrderlySound'
    <3> SUFFICES ASSUME history.orderly
                 PROVE  /\ CellsIn(fileMapNameTree') \subseteq CellsIn(fileMapTree')
                        /\ Ordered(fileMapNameTree', Starting)
                        /\ Ordered(fileMapNameTree', Named)
                        /\ \A d \in CellsIn(fileMapNameTree') : nodes[d].start # MAP_FAILED
      BY <1>1, <1>4 DEF OrderlySound, CellsIn, Ordered
    <3>1. /\ CellsIn(fileMapNameTree) \subseteq CellsIn(fileMapTree)
          /\ Ordered(fileMapNameTree, Starting)
          /\ Ordered(fileMapNameTree, Named)
          /\ \A d \in CellsIn(fileMapNameTree) : nodes[d].start # MAP_FAILED
      BY DEF IInv, OrderlySound
    <3> DEFINE t == Delete(fileMapNameTree, e)
    <3>2. /\ Ordered(t, Named) /\ Ordered(t, Starting)
          /\ \A d \in CellsIn(t) : d \in CellsIn(fileMapNameTree) /\ Named[d] # v
      BY <1>3, <1>5, <2>8, <3>1, DeleteFound
    <3> HIDE DEF t
    <3>3. fileMapNameTree' = t
      BY <2>4 DEF t
    <3> QED
      BY <2>2, <2>5, <3>1, <3>2, <3>3
  <2>13. UnsharedSound'
    BY <1>1, <2>5 DEF IInv, UnsharedSound, CellsIn
  <2> QED
    BY <2>7, <2>10, <2>11, <2>12, <2>13 DEF IInv
<1> QED
  BY <1>8, <1>9

LEMMA ReadStep ==
    ASSUME IInv, NEW fd \in Fds, NEW pos \in 0..(MapLen + 1), NEW n \in 1..MapLen,
           ts_read(fd, pos, n)
    PROVE  IInv'
<1> DEFINE c == Top(nodePool)
<1>1. UNCHANGED <<fdFile, kernelMap, FD2PATH, heap, nodePool, fileMapTree,
                  fileMapNameTree, openFileArray, history>>
  BY DEF ts_read
<1>2. /\ CellsIn(fileMapTree) \subseteq Cells \ FreeCells(nodePool)
      /\ Sound(nodePool)
      /\ nodes \in [Cells -> [start : Nat, fd : Nat, fileName : Names \cup {CallerPath, None}]]
  BY TreeFacts DEF IInv, Typed, TablesSound
<1>3. /\ nodes' \in [Cells -> [start : Nat, fd : Nat, fileName : Names \cup {CallerPath, None}]]
      /\ \A d \in Cells : nodes'[d].start = nodes[d].start /\ nodes'[d].fd = nodes[d].fd
      /\ \A d \in Cells \ FreeCells(nodePool) : nodes'[d] = nodes[d]
  <2>1. CASE nodePool.idx = 0
    BY <1>2, <2>1 DEF ts_read
  <2>2. CASE nodePool.idx # 0
    <3>1. nodes' = [nodes EXCEPT ![c].fileName = GETPATH(fd)]
      BY <2>2 DEF ts_read, KeyWritten
    <3>2. c \in FreeCells(nodePool) /\ c \in Cells
      BY <1>2, <2>2, PopSound
    <3>3. GETPATH(fd) \in Names \cup {CallerPath, None}
      <4>1. fd \in Nat
        BY SizesAssumption
      <4>2. fd % FILEMAPTREENODEPOOLSIZE \in Cells
        BY <4>1, SlotsInRange
      <4> QED
        BY <4>2 DEF IInv, Typed, TypeOK, GETPATH
    <3> HIDE DEF c
    <3> QED
      BY <1>2, <3>1, <3>2, <3>3
  <2> QED
    BY <2>1, <2>2
<1>4. Starting' = Starting
  BY <1>3 DEF Starting
<1>5. \A d \in CellsIn(fileMapTree) : nodes'[d] = nodes[d]
  BY <1>2, <1>3
<1>6. Typed'
  BY <1>1, <1>3 DEF IInv, Typed, TypeOK, CellsIn
<1>7. TablesSound'
  <2>1. \A d \in CellsIn(fileMapTree) : nodes'[d].start \in DOMAIN kernelMap \cup {MAP_FAILED}
    BY <1>5 DEF IInv, TablesSound
  <2>2. EntriesLive'
    <3> SUFFICES ASSUME NEW i \in DOMAIN openFileArray, openFileArray[i] # None
                 PROVE  /\ openFileArray[i] \notin FreeCells(nodePool)
                        /\ slotOf(nodes'[openFileArray[i]].fd) = i
      BY <1>1 DEF EntriesLive
    <3>1. openFileArray[i] \in Cells
      BY DEF IInv, Typed
    <3> QED
      BY <1>3, <3>1 DEF IInv, TablesSound, EntriesLive
  <2>3. Ordered(fileMapTree, Starting) /\ CellsIn(fileMapTree) \cap FreeCells(nodePool) = {}
    BY DEF IInv, TablesSound
  <2> QED
    BY <1>1, <1>2, <1>4, <2>1, <2>2, <2>3 DEF TablesSound, CellsIn
<1>8. UncrowdedSound' /\ UnsharedSound'
  <2>1. CellsIn(fileMapTree)' = CellsIn(fileMapTree)
    BY <1>1 DEF CellsIn
  <2>2. UncrowdedSound'
    BY <1>1, <1>5, <2>1 DEF IInv, UncrowdedSound
  <2>3. UnsharedSound'
    BY <1>1, <1>5, <2>1 DEF IInv, UnsharedSound
  <2> QED
    BY <2>2, <2>3
<1>9. OrderlySound'
  <2> SUFFICES ASSUME history.orderly
               PROVE  /\ CellsIn(fileMapNameTree) \subseteq CellsIn(fileMapTree)
                      /\ Ordered(fileMapNameTree, Starting)
                      /\ Ordered(fileMapNameTree, Named')
                      /\ \A d \in CellsIn(fileMapNameTree) : nodes'[d].start # MAP_FAILED
    BY <1>1, <1>4 DEF OrderlySound, CellsIn, Ordered
  <2>1. /\ CellsIn(fileMapNameTree) \subseteq CellsIn(fileMapTree)
        /\ Ordered(fileMapNameTree, Starting)
        /\ Ordered(fileMapNameTree, Named)
        /\ \A d \in CellsIn(fileMapNameTree) : nodes[d].start # MAP_FAILED
    BY DEF IInv, OrderlySound
  <2>2. \A d \in CellsIn(fileMapNameTree) : nodes'[d] = nodes[d] /\ d \in Cells
    BY <1>2, <1>5, <2>1
  <2>3. \A d \in CellsIn(fileMapNameTree) : Named[d] = Named'[d]
    BY <2>2 DEF Named
  <2>4. Ordered(fileMapNameTree, Named')
    BY <2>1, <2>3, SameComparing
  <2> QED
    BY <2>1, <2>2, <2>4
<1> QED
  BY <1>6, <1>7, <1>8, <1>9 DEF IInv

-----------------------------------------------------------------------------
(* The theorems.                                                             *)

(* Every call leaves the trees, the tables, the pool and the kernel's mappings
   in the agreement IInv states, also one whose search goes astray.          *)
THEOREM NextIInv == IInv /\ [Next]_vars => IInv'
<1> SUFFICES ASSUME IInv, [Next]_vars PROVE IInv'
  OBVIOUS
<1>1. CASE \E fd \in Fds, file \in Files :
              ts_open(fd, file) \/ ts_fopenEmpty(fd, file) \/ ts_openat(fd, file)
  BY <1>1, OpenStep
<1>2. CASE \E fd \in Fds, ret \in Starts \cup {MAP_FAILED} : ts_mmap(fd, ret)
  <2>1. PICK fd \in Fds, ret \in Starts \cup {MAP_FAILED} : ts_mmap(fd, ret)
    BY <1>2
  <2>2. fdFile[fd] # None /\ KernelMaps(fd, ret) /\ Running /\ UNCHANGED <<fdFile, rec>>
    BY <2>1 DEF ts_mmap
  <2>3. CASE GETPATH(fd) = None \/ nodePool.idx = 0
    <3>1. MapStops(fd, ret)
      BY <2>1, <2>3 DEF ts_mmap
    <3> QED
      BY <2>2, <3>1, MapStopsStep
  <2>4. CASE ~(GETPATH(fd) = None \/ nodePool.idx = 0)
    <3>1. Register(fd, ret)
      BY <2>1, <2>4 DEF ts_mmap
    <3> QED
      BY <2>2, <2>4, <3>1, RegisterStep
  <2> QED
    BY <2>3, <2>4
<1>3. CASE \E start \in Starts : ts_munmap(start)
  BY <1>3, MunmapStep
<1>4. CASE \E fd \in Fds : ts_close(fd)
  BY <1>4, CloseStep
<1>5. CASE \E src \in Addresses : ts_memcpy(src)
  BY <1>5, MemcpyStep
<1>6. CASE \E fd \in Fds, pos \in 0..(MapLen + 1), n \in 1..MapLen : ts_read(fd, pos, n)
  BY <1>6, ReadStep
<1>7. CASE UNCHANGED vars
  <2>1. UNCHANGED <<fdFile, kernelMap, FD2PATH, heap, nodes, nodePool, fileMapTree,
                    fileMapNameTree, openFileArray, stopped, history>>
    BY <1>7 DEF vars, library
  <2>2. Typed'
    BY <2>1 DEF IInv, Typed, TypeOK, CellsIn
  <2>3. TablesSound'
    BY <2>1 DEF IInv, TablesSound, Ordered, Starting, EntriesLive, CellsIn
  <2>4. UncrowdedSound'
    BY <2>1 DEF IInv, UncrowdedSound, CellsIn
  <2>5. OrderlySound'
    BY <2>1 DEF IInv, OrderlySound, Ordered, Starting, Named, CellsIn
  <2>6. UnsharedSound'
    BY <2>1 DEF IInv, UnsharedSound, CellsIn
  <2> QED
    BY <2>2, <2>3, <2>4, <2>5, <2>6 DEF IInv
<1> QED
  BY <1>1, <1>2, <1>3, <1>4, <1>5, <1>6, <1>7 DEF Next

(* So that agreement lasts through any sequence of calls.                    *)
THEOREM FileMapInvariant == Spec => []IInv
  BY InitIInv, NextIInv, PTL DEF Spec

(* Every descriptor, area, name and node is one there is, always.            *)
THEOREM FileMapTyped == Spec => []TypeOK
<1>1. IInv => TypeOK
  BY DEF IInv, Typed
<1> QED
  BY <1>1, FileMapInvariant, PTL

(* Though ts_close searches the address tree with the comparator of names, the
   tree stays in order, no withdrawn node is in it, no cell of the pool is
   free twice, and every node is an area that is mapped or a failed mmap.    *)
THEOREM AddressTreeStaysLive == Spec => []AddressTreeLive
<1>1. ASSUME IInv PROVE AddressTreeLive
  <2>1. InOrder(fileMapTree, nodes)
    <3>1. \A i \in 1..Len(fileMapTree) :
             Starting[fileMapTree[i]] = nodes[fileMapTree[i]].start
      BY <1>1 DEF IInv, Typed, Starting
    <3> QED
      BY <1>1, <3>1 DEF IInv, TablesSound, Ordered, InOrder
  <2>2. \A i, j \in 0..(nodePool.idx - 1) :
           nodePool.ptr[i] = nodePool.ptr[j] => i = j
    BY <1>1, SoundNoDup DEF IInv, TablesSound
  <2> QED
    BY <1>1, <2>1, <2>2 DEF IInv, TablesSound, AddressTreeLive
<1> QED
  BY <1>1, FileMapInvariant, PTL

(* An entry of openFileArray is never a withdrawn node, nor that of another
   slot.                                                                     *)
THEOREM EntriesStayLive == Spec => []EntriesLive
<1>1. IInv => EntriesLive
  BY DEF IInv, TablesSound
<1> QED
  BY <1>1, FileMapInvariant, PTL

(* An entry is there exactly while a mapping of its descriptor is registered,
   as long as no two mappings shared one.                                    *)
THEOREM EntryMeansMappedAlways == Spec => []EntryMeansMapped
<1>1. ASSUME IInv PROVE EntryMeansMapped
  <2>1. DOMAIN openFileArray = 0..(MAX_FILE_NUM - 1)
    BY <1>1 DEF IInv, Typed
  <2> QED
    BY <1>1, <2>1 DEF IInv, UncrowdedSound, EntryMeansMapped
<1> QED
  BY <1>1, FileMapInvariant, PTL

(* As long as names were entered in the order of addresses and no mmap failed,
   ts_munmap leaves no withdrawn node in the name tree.                      *)
THEOREM NameTreeStaysLive == Spec => []NameTreeLive
<1>1. IInv => NameTreeLive
  BY DEF IInv, OrderlySound, NameTreeLive
<1> QED
  BY <1>1, FileMapInvariant, PTL

(* As long as that is so, a read finds a mapping that is there, and at a
   position up to the end of the file the bytes its record is made for lie
   within it: the tree by names holds cells of the tree by addresses only, and
   the length is cut at the end of the mapping.                              *)
THEOREM ReadsAlwaysMapped == Spec => []ReadsStayMapped
<1>1. ASSUME IInv, history.orderly, NEW fd \in Fds, NEW c \in FoundByName(fd) \ {None}
      PROVE  nodes[c].start \in DOMAIN kernelMap
  <2> DEFINE content == KeyWritten(fd)
             cmp     == [i \in 1..Len(fileMapNameTree) |->
                           fileMapNameTreeInsDelCompare(content[Top(nodePool)],
                                                        content[fileMapNameTree[i]])]
  <2>1. Len(fileMapNameTree) \in Nat
    BY <1>1 DEF IInv, Typed
  <2>2. Len(cmp) = Len(fileMapNameTree)
    BY <2>1
  <2>3. ByName(fileMapNameTree, content, content[Top(nodePool)]) = Ends(cmp)
    BY DEF ByName
  <2> HIDE DEF cmp
  <2>4. PICK e \in Ends(cmp) : c = IF e.hit THEN fileMapNameTree[e.at] ELSE None
    BY <1>1, <2>3 DEF FoundByName
  <2>5. e.hit /\ c = fileMapNameTree[e.at]
    BY <1>1, <2>4
  <2>6. e.at \in 1..Len(fileMapNameTree)
    BY <2>1, <2>2, <2>5, EndsAt
  <2>7. c \in CellsIn(fileMapTree) /\ nodes[c].start # MAP_FAILED
    BY <1>1, <2>5, <2>6 DEF IInv, OrderlySound, CellsIn
  <2> QED
    BY <1>1, <2>7 DEF IInv, TablesSound
<1>2. ASSUME NEW c, nodes[c].start \in Starts, NEW pos \in 0..MapLen, NEW n \in 1..MapLen
      PROVE  BytesRead(c, pos, n) \subseteq nodes[c].start..(nodes[c].start + MapLen - 1)
  <2> DEFINE start == nodes[c].start
  <2>1. start \in Nat /\ MapLen \in Nat /\ pos \in Nat /\ pos <= MapLen
    <3>1. MapLen \in Nat /\ Starts \subseteq Nat
      BY StartsAssumption
    <3>2. nodes[c].start \in Nat
      BY <1>2, <3>1
    <3>3. pos \in Nat /\ pos <= MapLen
      BY <3>1
    <3> QED
      BY <3>1, <3>2, <3>3
  <2>2. copyLen(pos, n) \in Nat /\ copyLen(pos, n) <= MapLen - pos
    BY <2>1 DEF copyLen, leftBehind
  <2>3. BytesRead(c, pos, n) = (start + pos)..(start + pos + copyLen(pos, n) - 1)
    BY DEF BytesRead, copyBegin
  <2> HIDE DEF start
  <2>4. (start + pos)..(start + pos + copyLen(pos, n) - 1) \subseteq start..(start + MapLen - 1)
    BY <2>1, <2>2
  <2> QED
    BY <2>3, <2>4 DEF start
<1>3. ASSUME IInv PROVE ReadsStayMapped
  <2>1. DOMAIN kernelMap \subseteq Starts
    BY <1>3 DEF IInv, Typed, TypeOK
  <2> SUFFICES ASSUME history.orderly, NEW fd \in Fds, NEW c \in FoundByName(fd) \ {None}
               PROVE  /\ nodes[c].start \in DOMAIN kernelMap
                      /\ \A pos \in 0..MapLen, n \in 1..MapLen :
                            BytesRead(c, pos, n)
                              \subseteq nodes[c].start..(nodes[c].start + MapLen - 1)
    BY DEF ReadsStayMapped
  <2>2. nodes[c].start \in DOMAIN kernelMap
    BY <1>1, <1>3
  <2> QED
    BY <1>2, <2>1, <2>2
<1> QED
  BY <1>3, FileMapInvariant, PTL

(* The name of a registered mapping is allocated, as long as no name was given
   to two.                                                                   *)
THEOREM NamesStayAllocated == Spec => []NamesAllocated
<1>1. IInv => NamesAllocated
  BY DEF IInv, UnsharedSound, NamesAllocated
<1> QED
  BY <1>1, FileMapInvariant, PTL

(* The areas of the address tree lie one behind the other, so the comparator
   of lookups, for which areas that touch are equal, finds some area that
   holds or touches a byte of a registered mapping.                          *)
THEOREM LookupAlwaysTouches == Spec => []LookupTouches
<1>1. ASSUME IInv, NEW c \in CellsIn(fileMapTree), NEW src \in Addresses,
             src \in nodes[c].start..(tailOf(nodes[c]) - 1), NEW d \in FoundFor(src)
      PROVE  d # None /\ src \in (nodes[d].start - 1)..tailOf(nodes[d])
  <2> DEFINE n     == Len(fileMapTree)
             s(i)  == nodes[fileMapTree[i]].start
             cmp   == [i \in 1..n |->
                         fileMapTreeSearchCompare(src, src + 1, nodes[fileMapTree[i]])]
  <2>1. /\ n \in Nat /\ MapLen \in Nat \ {0} /\ MAP_FAILED \in Nat
        /\ \A x \in Starts : x \in Nat /\ x + MapLen < MAP_FAILED
    BY <1>1, StartsAssumption DEF IInv, Typed
  <2>2. \A i \in 1..n : fileMapTree[i] \in Cells /\ s(i) \in Starts \cup {MAP_FAILED}
    BY <1>1 DEF IInv, Typed, TypeOK, TablesSound, CellsIn
  <2>3. PICK x \in Starts : src \in x..(x + MapLen)
    BY DEF Addresses
  <2>4. src \in Nat
    BY <2>1, <2>3
  <2>5. nodes[c].start \in Starts
    <3>1. PICK i \in 1..n : c = fileMapTree[i]
      BY DEF CellsIn
    <3>2. CASE nodes[c].start = MAP_FAILED
      BY <1>1, <2>1, <2>3, <2>4, <3>2 DEF tailOf
    <3> QED
      BY <2>2, <3>1, <3>2
  <2>6. src \in nodes[c].start..(nodes[c].start + MapLen - 1) /\ src + 1 < MAP_FAILED
    <3>1. tailOf(nodes[c]) = nodes[c].start + MapLen
      BY <2>1, <2>5 DEF tailOf
    <3> QED
      BY <1>1, <2>1, <2>4, <2>5, <3>1
  <2>7. ASSUME NEW i \in 1..n
        PROVE  /\ s(i) = MAP_FAILED => cmp[i] = -1
               /\ s(i) \in Starts =>
                    cmp[i] = IF src > s(i) + MapLen THEN 1 ELSE IF src + 1 < s(i) THEN -1 ELSE 0
    <3>1. cmp[i] = fileMapTreeSearchCompare(src, src + 1, nodes[fileMapTree[i]])
      OBVIOUS
    <3> HIDE DEF cmp
    <3>2. ASSUME s(i) = MAP_FAILED PROVE cmp[i] = -1
      BY <2>1, <2>4, <2>6, <3>1, <3>2 DEF fileMapTreeSearchCompare
    <3>3. ASSUME s(i) \in Starts
          PROVE  cmp[i] = IF src > s(i) + MapLen THEN 1 ELSE IF src + 1 < s(i) THEN -1 ELSE 0
      <4>1. tailOf(nodes[fileMapTree[i]]) = s(i) + MapLen /\ s(i) \in Nat
        BY <2>1, <3>3 DEF tailOf
      <4> QED
        BY <2>1, <2>4, <3>1, <4>1 DEF fileMapTreeSearchCompare
    <3> QED
      BY <3>2, <3>3
  <2>8. Len(cmp) = n /\ \E e \in Ends(cmp) : d = IF e.hit THEN fileMapTree[e.at] ELSE None
    <3>1. Len(cmp) = n
      BY <2>1
    <3>2. ByRange(fileMapTree, src, src + 1) = Ends(cmp)
      BY DEF ByRange
    <3> HIDE DEF cmp
    <3>3. FoundFor(src) = {IF e.hit THEN fileMapTree[e.at] ELSE None : e \in Ends(cmp)}
      BY <3>2 DEF FoundFor
    <3> QED
      BY <3>1, <3>3
  <2> HIDE DEF cmp
  <2>9. \A i, j \in 1..n : i < j => s(i) < s(j)
    <3>1. \A i \in 1..n : Starting[fileMapTree[i]] = s(i)
      BY <2>2 DEF Starting
    <3>2. Ordered(fileMapTree, Starting)
      BY <1>1 DEF IInv, TablesSound
    <3> QED
      BY <3>1, <3>2 DEF Ordered
  <2>10. Descending(cmp)
    <3>1. ASSUME NEW i \in 1..n PROVE cmp[i] \in {-1, 0, 1}
      BY <2>2, <2>7
    <3>2. ASSUME NEW i \in 1..n, NEW j \in 1..n, i < j PROVE cmp[i] >= cmp[j]
      <4>1. s(i) < s(j)
        BY <2>9, <3>2
      <4>2. s(i) \in Starts
        <5>1. s(j) = MAP_FAILED \/ s(j) < MAP_FAILED
          BY <2>1, <2>2
        <5>2. s(i) # MAP_FAILED
          <6>1. s(j) \in Nat /\ MAP_FAILED \in Nat
            BY <2>1, <2>2
          <6> HIDE DEF s
          <6> QED
            BY <4>1, <5>1, <6>1
        <5> QED
          BY <2>2, <5>2
      <4>3. CASE s(j) = MAP_FAILED
        BY <2>7, <3>1, <4>3
      <4>4. CASE s(j) \in Starts
        <5>1. s(i) + MapLen <= s(j)
          BY <4>1, <4>2, <4>4, AreasAssumption
        <5>2. s(i) \in Nat /\ s(j) \in Nat
          BY <2>1, <4>2, <4>4
        <5>3. /\ cmp[i] = IF src > s(i) + MapLen THEN 1 ELSE IF src + 1 < s(i) THEN -1 ELSE 0
              /\ cmp[j] = IF src > s(j) + MapLen THEN 1 ELSE IF src + 1 < s(j) THEN -1 ELSE 0
          BY <2>7, <4>2, <4>4
        <5> HIDE DEF s
        <5> QED
          BY <2>1, <2>4, <5>1, <5>2, <5>3
      <4> QED
        BY <2>2, <4>3, <4>4
    <3>3. \A i \in 1..n : cmp[i] \in Int
      BY <3>1
    <3> QED
      BY <2>8, <3>2, <3>3 DEF Descending
  <2>11. PICK e \in Ends(cmp) : d = IF e.hit THEN fileMapTree[e.at] ELSE None
    BY <2>8
  <2>12. PICK k \in 1..n : c = fileMapTree[k]
    BY DEF CellsIn
  <2>13. cmp[k] = 0
    <3>1. cmp[k] = IF src > s(k) + MapLen THEN 1 ELSE IF src + 1 < s(k) THEN -1 ELSE 0
      BY <2>5, <2>7, <2>12
    <3>2. s(k) \in Nat /\ src \in s(k)..(s(k) + MapLen - 1)
      BY <2>1, <2>5, <2>6, <2>12
    <3> HIDE DEF s
    <3> QED
      BY <2>1, <2>4, <3>1, <3>2
  <2>14. e.hit
    <3> SUFFICES ASSUME ~e.hit PROVE FALSE
      OBVIOUS
    <3>1. /\ e.at \in 1..(n + 1)
          /\ \A i \in 1..n : i < e.at => cmp[i] > 0
          /\ \A i \in 1..n : i >= e.at => cmp[i] < 0
      BY <2>1, <2>8, <2>10, EndsAt, EndsBetween
    <3>2. k < e.at \/ k >= e.at
      BY <2>1, <3>1
    <3> QED
      BY <2>13, <3>1, <3>2
  <2>15. e.at \in 1..n /\ cmp[e.at] = 0 /\ d = fileMapTree[e.at]
    BY <2>1, <2>8, <2>11, <2>14, EndsAt
  <2>16. d \in Cells /\ nodes[d].start \in Starts
    <3>1. s(e.at) # MAP_FAILED
      BY <2>7, <2>15
    <3> QED
      BY <2>2, <2>15, <3>1
  <2>17. tailOf(nodes[d]) = nodes[d].start + MapLen /\ nodes[d].start \in Nat
    BY <2>1, <2>16 DEF tailOf
  <2>18. 0 = IF src > nodes[d].start + MapLen THEN 1
             ELSE IF src + 1 < nodes[d].start THEN -1 ELSE 0
    BY <2>7, <2>15, <2>16
  <2>19. src \in (nodes[d].start - 1)..tailOf(nodes[d])
    BY <2>1, <2>4, <2>17, <2>18
  <2> QED
    BY <2>16, <2>19, NoneAssumption
<1>2. IInv => LookupTouches
  BY <1>1 DEF LookupTouches
<1> QED
  BY <1>2, FileMapInvariant, PTL
=============================================================================
