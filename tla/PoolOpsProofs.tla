--------------------------- MODULE PoolOpsProofs ---------------------------
(* What the operations of PoolOps do to a pool whose cells are partitioned
   into the free ones and those in use.                                     *)
EXTENDS PoolOps, FiniteSetTheorems, TLAPS

(* A fresh pool is a pool whose cells are all free.                        *)
LEMMA NewPoolPartitioned ==
    ASSUME NEW n \in Nat \ {0}
    PROVE  /\ IsPool(NewPool(n))
           /\ NewPool(n).size = n /\ NewPool(n).idx = n
           /\ Partitioned(NewPool(n), {})
<1>1. \A i \in 0..(n - 1) : NewPool(n).ptr[i] = i
  BY DEF NewPool
<1>2. FreeCells(NewPool(n)) = 0..(n - 1)
  BY <1>1 DEF FreeCells, NewPool
<1> QED BY <1>1, <1>2 DEF NewPool, IsPool, Partitioned

(* What IDX-- leaves of the record.                                        *)
LEMMA PopFields ==
    ASSUME NEW p, IsPool(p), p.idx > 0
    PROVE  /\ IsPool(Pop(p))
           /\ Pop(p).ptr = p.ptr
           /\ Pop(p).idx = p.idx - 1
           /\ Pop(p).size = p.size
  BY DEF Pop, IsPool

(* The popped cell was free and comes into use; the partition holds.       *)
LEMMA PopPartitioned ==
    ASSUME NEW p, NEW U, IsPool(p), Partitioned(p, U), p.idx > 0
    PROVE  /\ Top(p) \in 0..(p.size - 1)
           /\ Top(p) \notin U
           /\ Partitioned(Pop(p), U \cup {Top(p)})
<1>0. /\ Pop(p).ptr = p.ptr /\ Pop(p).size = p.size
      /\ Pop(p).idx = p.idx - 1 /\ p.idx \in Nat
  BY PopFields DEF IsPool
<1>1. Top(p) \in FreeCells(p)
  BY DEF IsPool, Top, FreeCells
<1>2. Top(p) \in 0..(p.size - 1) /\ Top(p) \notin U
  BY <1>1 DEF Partitioned
<1>3. FreeCells(Pop(p)) = {p.ptr[i] : i \in 0..(p.idx - 2)}
  BY <1>0 DEF FreeCells
<1>4. ASSUME NEW c \in FreeCells(p), c # Top(p)
      PROVE  c \in FreeCells(Pop(p))
  <2>1. PICK i \in 0..(p.idx - 1) : c = p.ptr[i]
    BY <1>4 DEF FreeCells
  <2>2. i \in 0..(p.idx - 2)
    BY <2>1, <1>4 DEF Top, IsPool
  <2> QED BY <1>3, <2>1, <2>2
<1>5. ASSUME NEW c \in FreeCells(Pop(p))
      PROVE  c \in FreeCells(p) /\ c # Top(p)
  <2>1. PICK i \in 0..(p.idx - 2) : c = p.ptr[i]
    BY <1>3, <1>5
  <2>2. i # p.idx - 1 /\ i \in 0..(p.idx - 1) /\ p.idx - 1 \in 0..(p.idx - 1)
    BY <2>1 DEF IsPool
  <2>3. p.ptr[i] # p.ptr[p.idx - 1]
    BY <2>2 DEF Partitioned
  <2> QED BY <2>1, <2>2, <2>3 DEF FreeCells, Top
<1>6. FreeCells(Pop(p)) = FreeCells(p) \ {Top(p)}
  BY <1>4, <1>5
<1>7. \A i, j \in 0..(Pop(p).idx - 1) : Pop(p).ptr[i] = Pop(p).ptr[j] => i = j
  BY <1>0 DEF Partitioned
<1> QED BY <1>0, <1>1, <1>2, <1>6, <1>7 DEF Partitioned

(* What PTR[IDX] = c; IDX++ leaves of the record.                          *)
LEMMA PushFields ==
    ASSUME NEW p, NEW c \in Int, IsPool(p), p.idx < p.size
    PROVE  /\ IsPool(Push(p, c))
           /\ Push(p, c).ptr = [p.ptr EXCEPT ![p.idx] = c]
           /\ Push(p, c).idx = p.idx + 1
           /\ Push(p, c).size = p.size
<1>1. p.ptr \in [0..(p.size - 1) -> Int] /\ p.idx \in Int /\ p.size \in Int
  BY DEF IsPool
<1>2. [p.ptr EXCEPT ![p.idx] = c] \in [0..(p.size - 1) -> Int]
  BY <1>1
<1> DEFINE f == [p.ptr EXCEPT ![p.idx] = c]
<1> HIDE DEF f
<1>0. p \in [ptr : [0..(p.size - 1) -> Int], idx : Int, size : Int]
  BY DEF IsPool
<1>a. Push(p, c) = [p EXCEPT !.ptr = f, !.idx = p.idx + 1]
  BY DEF Push, f
<1>b. Push(p, c) = [ptr |-> f, idx |-> p.idx + 1, size |-> p.size]
  BY <1>a, <1>0
<1>3. /\ Push(p, c).ptr = [p.ptr EXCEPT ![p.idx] = c]
      /\ Push(p, c).idx = p.idx + 1
      /\ Push(p, c).size = p.size
      /\ Push(p, c) \in [ptr : [0..(p.size - 1) -> Int], idx : Int, size : Int]
  BY <1>b, <1>1, <1>2 DEF f
<1>4. p.size > 0 /\ p.idx + 1 \in 0..p.size
  BY DEF IsPool
<1> QED BY <1>3, <1>4 DEF IsPool

(* A cell in use that is withdrawn becomes free; the partition holds.      *)
LEMMA PushPartitioned ==
    ASSUME NEW p, NEW U, NEW c \in U, IsPool(p), Partitioned(p, U),
           U \subseteq 0..(p.size - 1), p.idx < p.size
    PROVE  Partitioned(Push(p, c), U \ {c})
<1>0. c \in Int BY DEF IsPool
<1>00. /\ Push(p, c).ptr = [p.ptr EXCEPT ![p.idx] = c]
      /\ Push(p, c).size = p.size /\ Push(p, c).idx = p.idx + 1
      /\ p.ptr \in [0..(p.size - 1) -> Int] /\ p.idx \in Nat /\ p.size \in Nat
  BY <1>0, PushFields DEF IsPool
<1>1. c \in Int /\ c \notin FreeCells(p)
  BY DEF Partitioned, IsPool
<1>2. \A i \in 0..(p.idx - 1) : Push(p, c).ptr[i] = p.ptr[i] /\ p.ptr[i] # c
  BY <1>00, <1>1 DEF IsPool, FreeCells
<1>3. Push(p, c).ptr[p.idx] = c
  BY <1>00 DEF IsPool
<1>4. FreeCells(Push(p, c)) = FreeCells(p) \cup {c}
  <2>1. ASSUME NEW d \in FreeCells(Push(p, c)) PROVE d \in FreeCells(p) \cup {c}
    <3>1. PICK i \in 0..p.idx : d = Push(p, c).ptr[i]
      BY <1>00 DEF FreeCells, IsPool
    <3>2. i \in 0..(p.idx - 1) \/ i = p.idx
      BY DEF IsPool
    <3> QED BY <1>2, <1>3, <3>1, <3>2 DEF FreeCells
  <2>2. ASSUME NEW d \in FreeCells(p) PROVE d \in FreeCells(Push(p, c))
    <3>1. PICK i \in 0..(p.idx - 1) : d = p.ptr[i]
      BY <2>2 DEF FreeCells
    <3>2. i \in 0..(Push(p, c).idx - 1)
      BY <1>00 DEF IsPool
    <3> QED BY <1>2, <3>1, <3>2 DEF FreeCells
  <2>3. p.idx \in 0..(Push(p, c).idx - 1)
    BY <1>00 DEF IsPool
  <2>4. c \in FreeCells(Push(p, c))
    BY <1>3, <2>3 DEF FreeCells
  <2> QED BY <2>1, <2>2, <2>4
<1>5. ASSUME NEW i \in 0..p.idx, NEW j \in 0..p.idx,
             Push(p, c).ptr[i] = Push(p, c).ptr[j]
      PROVE  i = j
  <2>1. (i \in 0..(p.idx - 1) \/ i = p.idx) /\ (j \in 0..(p.idx - 1) \/ j = p.idx)
    BY DEF IsPool
  <2> QED BY <1>2, <1>3, <1>5, <2>1 DEF Partitioned
<1>6. \A i, j \in 0..(Push(p, c).idx - 1) :
         Push(p, c).ptr[i] = Push(p, c).ptr[j] => i = j
  BY <1>5, <1>00 DEF IsPool
<1> QED BY <1>1, <1>4, <1>6, <1>00 DEF Partitioned

(* Growing an empty pool doubles it, and exactly the new cells are free.   *)
LEMMA GrowPartitioned ==
    ASSUME NEW p, NEW U, IsPool(p), Partitioned(p, U), p.idx = 0
    PROVE  /\ IsPool(Grow(p))
           /\ Grow(p).size = 2 * p.size
           /\ Grow(p).idx = p.size
           /\ Partitioned(Grow(p), U)
<1>1. Grow(p).size = 2 * p.size /\ Grow(p).idx = p.size
  BY DEF Grow, IsPool
<1>2. \A i \in 0..(p.size - 1) : Grow(p).ptr[i] = p.size + i
  BY DEF Grow, IsPool
<1>3. IsPool(Grow(p))
  <2>1. \A i \in 0..(2 * p.size - 1) :
           (IF i < p.idx THEN p.ptr[i]
            ELSE IF i < p.idx + p.size THEN p.size + (i - p.idx)
            ELSE Unset) \in Int
    BY DEF IsPool, Unset
  <2>2. Grow(p).ptr \in [0..(2 * p.size - 1) -> Int]
    BY <2>1 DEF Grow
  <2>3. Grow(p) = [ptr |-> Grow(p).ptr, idx |-> p.size, size |-> 2 * p.size]
    BY <1>1 DEF Grow
  <2>4. p.size \in Int /\ p.size > 0 /\ 2 * p.size > 0 /\ p.size \in 0..(2 * p.size)
    BY DEF IsPool
  <2> HIDE DEF Grow
  <2> QED BY <2>2, <2>3, <2>4, <1>1 DEF IsPool
<1>4. FreeCells(p) = {} /\ U = 0..(p.size - 1)
  <2>1. 0..(p.idx - 1) = {}
    OBVIOUS
  <2>2. FreeCells(p) = {}
    BY <2>1 DEF FreeCells
  <2> QED BY <2>2 DEF Partitioned
<1>5. FreeCells(Grow(p)) = {p.size + i : i \in 0..(p.size - 1)}
  BY <1>1, <1>2 DEF FreeCells
<1>6. ASSUME NEW c \in p.size..(2 * p.size - 1) PROVE c \in FreeCells(Grow(p))
  <2>1. c - p.size \in 0..(p.size - 1) /\ c = p.size + (c - p.size)
    BY DEF IsPool
  <2> QED BY <1>5, <2>1
<1>7. FreeCells(Grow(p)) \subseteq p.size..(2 * p.size - 1)
  BY <1>5 DEF IsPool
<1>8. FreeCells(Grow(p)) = p.size..(2 * p.size - 1)
  BY <1>6, <1>7
<1>9. \A i, j \in 0..(Grow(p).idx - 1) : Grow(p).ptr[i] = Grow(p).ptr[j] => i = j
  BY <1>1, <1>2 DEF IsPool
<1>10. U \cup (p.size..(2 * p.size - 1)) = 0..(2 * p.size - 1)
  BY <1>4 DEF IsPool
<1>11. (p.size..(2 * p.size - 1)) \cap U = {}
  BY <1>4 DEF IsPool
<1> QED BY <1>1, <1>3, <1>8, <1>9, <1>10, <1>11 DEF Partitioned

(* Growing when empty: a cell is free, and the same cells are in use.        *)
LEMMA ReplenishPartitioned ==
    ASSUME NEW p, NEW U, IsPool(p), Partitioned(p, U)
    PROVE  /\ IsPool(Replenish(p)) /\ Partitioned(Replenish(p), U)
           /\ Replenish(p).idx > 0
<1>1. CASE p.idx <= 0
  <2>1. p.idx = 0 /\ Replenish(p) = Grow(p) /\ p.size > 0
    BY <1>1 DEF IsPool, Replenish
  <2> QED BY <2>1, GrowPartitioned
<1>2. CASE ~(p.idx <= 0)
  <2>1. Replenish(p) = p /\ p.idx > 0
    BY <1>2 DEF IsPool, Replenish
  <2> QED BY <2>1
<1> QED BY <1>1, <1>2

(* Counting: how many numbers an interval has.                               *)
LEMMA CountTo ==
    ASSUME NEW n \in Nat
    PROVE  /\ IsFiniteSet(0..(n - 1)) /\ Cardinality(0..(n - 1)) = n
           /\ IsFiniteSet(1..n) /\ Cardinality(1..n) = n
<1>1. /\ 0 \in Int /\ 1 \in Int /\ n \in Int /\ n - 1 \in Int
      /\ (IF 0 > n - 1 THEN 0 ELSE (n - 1) - 0 + 1) = n
      /\ (IF 1 > n THEN 0 ELSE n - 1 + 1) = n
  OBVIOUS
<1>2. \A a, b \in Int : /\ IsFiniteSet(a..b)
                        /\ Cardinality(a..b) = IF a > b THEN 0 ELSE b - a + 1
  BY FS_Interval
<1>3. /\ IsFiniteSet(0..(n - 1))
      /\ Cardinality(0..(n - 1)) = IF 0 > n - 1 THEN 0 ELSE (n - 1) - 0 + 1
  BY <1>1, <1>2
<1>4. /\ IsFiniteSet(1..n)
      /\ Cardinality(1..n) = IF 1 > n THEN 0 ELSE n - 1 + 1
  BY <1>1, <1>2
<1> QED BY <1>1, <1>3, <1>4

(* Induction, for a set and not an operator, from the pigeonhole principle:
   were n not in S, i + 1 for the members i of S below n and i for the others
   would put 0..n into 1..n.                                                 *)
LEMMA SetInduction ==
    ASSUME NEW S, 0 \in S, \A k \in Nat : k \in S => k + 1 \in S, NEW n \in Nat
    PROVE  n \in S
<1> SUFFICES ASSUME n \notin S PROVE FALSE
  OBVIOUS
<1> DEFINE f == [i \in 0..n |-> IF i \in S THEN i + 1 ELSE i]
<1>1. \A i \in 0..n : (i \in S => i # n) /\ (i \notin S => i # 0)
  OBVIOUS
<1>2. f \in [0..n -> 1..n]
  BY <1>1
<1>3. /\ IsFiniteSet(0..n) /\ IsFiniteSet(1..n)
      /\ Cardinality(1..n) = n /\ Cardinality(0..n) = n + 1
  <2>1. n + 1 \in Nat /\ (n + 1) - 1 = n
    OBVIOUS
  <2>2. IsFiniteSet(0..((n + 1) - 1)) /\ Cardinality(0..((n + 1) - 1)) = n + 1
    BY <2>1, CountTo
  <2>3. IsFiniteSet(1..n) /\ Cardinality(1..n) = n
    BY CountTo
  <2> QED BY <2>1, <2>2, <2>3
<1> HIDE DEF f
<1>4. \E x, y \in 0..n : x # y /\ f[x] = f[y]
  <2>1. Cardinality(1..n) < Cardinality(0..n)
    BY <1>3
  <2> QED BY <1>2, <1>3, <2>1, FS_PigeonHole
<1>5. \A x, y \in 0..n : f[x] = f[y] => x = y
  BY DEF f
<1> QED BY <1>4, <1>5

(* The cells in use are as many as the index leaves.                         *)
LEMMA InUseCount ==
    ASSUME NEW p, NEW U, IsPool(p), Partitioned(p, U)
    PROVE  IsFiniteSet(U) /\ Cardinality(U) = p.size - p.idx
<1> DEFINE F == FreeCells(p)
           all == 0..(p.size - 1)
           f == [i \in 0..(p.idx - 1) |-> p.ptr[i]]
<1>1. p.size \in Int /\ p.idx \in Int /\ p.size > 0 /\ p.idx >= 0 /\ p.idx <= p.size
  BY DEF IsPool
<1>2. F \cap U = {} /\ F \cup U = all
  BY DEF Partitioned
<1>3. IsFiniteSet(all) /\ Cardinality(all) = p.size
  BY <1>1, CountTo
<1>4. f \in Bijection(0..(p.idx - 1), F)
  <2>1. f \in [0..(p.idx - 1) -> F]
    BY DEF FreeCells
  <2>2. \A i, j \in 0..(p.idx - 1) : f[i] = f[j] => i = j
    BY DEF Partitioned
  <2>3. \A c \in F : \E i \in 0..(p.idx - 1) : f[i] = c
    BY DEF FreeCells
  <2> HIDE DEF f, F
  <2> QED BY <2>1, <2>2, <2>3 DEF Bijection, Injection, Surjection, IsInjective
<1>5. IsFiniteSet(0..(p.idx - 1)) /\ Cardinality(0..(p.idx - 1)) = p.idx
  BY <1>1, CountTo
<1>6. IsFiniteSet(F) /\ Cardinality(F) = p.idx
  BY <1>4, <1>5, FS_Bijection DEF ExistsBijection
<1>7. IsFiniteSet(U)
  BY <1>2, <1>3, FS_Subset
<1>8. Cardinality(F \cup U) = Cardinality(F) + Cardinality(U) - Cardinality(F \cap U)
  BY <1>6, <1>7, FS_Union
<1>9. Cardinality(F \cap U) = 0 /\ Cardinality(U) \in Nat
  BY <1>2, <1>7, FS_EmptySet, FS_CardinalityType
<1>10. Cardinality(F \cup U) = p.size
  BY <1>2, <1>3
<1> DEFINE u == Cardinality(U)
<1>11. p.size = p.idx + u - 0 /\ u \in Int
  BY <1>6, <1>8, <1>9, <1>10
<1>12. u = p.size - p.idx
  <2> HIDE DEF u
  <2> QED BY <1>1, <1>11
<1> QED BY <1>7, <1>12

(* A run of withdrawals of different cells in use: none fails, and these
   cells become free.                                                        *)
LEMMA PushAllPartitioned ==
    ASSUME NEW p, NEW U, NEW cs, IsPool(p), Partitioned(p, U), Len(cs) \in Nat,
           \A i \in 1..Len(cs) : cs[i] \in U,
           \A i, j \in 1..Len(cs) : cs[i] = cs[j] => i = j
    PROVE  /\ p.idx + Len(cs) <= p.size
           /\ IsPool(PushAll(p, cs))
           /\ Partitioned(PushAll(p, cs), U \ {cs[i] : i \in 1..Len(cs)})
<1> DEFINE k == Len(cs)
           C == {cs[i] : i \in 1..k}
           f == [i \in 1..k |-> cs[i]]
           ptr == [i \in DOMAIN p.ptr |->
                     IF i \in p.idx..(p.idx + k - 1) THEN cs[i - p.idx + 1]
                     ELSE p.ptr[i]]
           q == PushAll(p, cs)
<1>1. /\ p \in [ptr : [0..(p.size - 1) -> Int], idx : Int, size : Int]
      /\ p.size \in Int /\ p.idx \in Int /\ p.size > 0 /\ p.idx >= 0
      /\ p.idx <= p.size /\ DOMAIN p.ptr = 0..(p.size - 1) /\ k \in Nat
      /\ \A i \in 0..(p.size - 1) : p.ptr[i] \in Int
  BY DEF IsPool
<1>2. p.idx + k <= p.size
  <2>1. IsFiniteSet(U) /\ Cardinality(U) = p.size - p.idx
    BY InUseCount
  <2>2. f \in Injection(1..k, U)
    BY DEF Injection, IsInjective
  <2>3. Cardinality(1..k) <= Cardinality(U)
    BY <2>1, <2>2, FS_Injection
  <2>4. Cardinality(1..k) = k
    BY <1>1, CountTo
  <2> HIDE DEF k
  <2> QED BY <1>1, <2>1, <2>3, <2>4
<1>3. U \subseteq 0..(p.size - 1) /\ C \subseteq U
  BY DEF Partitioned
<1>4. q = [p EXCEPT !.ptr = ptr, !.idx = p.idx + k]
  BY DEF PushAll
<1> HIDE DEF q
<1>5. /\ DOMAIN ptr = 0..(p.size - 1)
      /\ \A i \in 0..(p.size - 1) :
           ptr[i] = IF i \in p.idx..((p.idx + k) - 1) THEN cs[i - p.idx + 1] ELSE p.ptr[i]
      /\ ptr = [i \in 0..(p.size - 1) |-> ptr[i]]
  <2>1. p.idx..((p.idx + k) - 1) = p.idx..(p.idx + k - 1)
    <3> HIDE DEF k
    <3> QED BY <1>1
  <2> QED BY <1>1, <2>1
<1> HIDE DEF ptr
<1>6. q = [ptr |-> ptr, idx |-> p.idx + k, size |-> p.size]
  BY <1>1, <1>4
<1>7. \A i \in 0..(p.idx - 1) : ptr[i] = p.ptr[i]
  BY <1>1, <1>5
<1>8. \A i \in p.idx..((p.idx + k) - 1) : /\ ptr[i] = cs[i - p.idx + 1]
                                        /\ i - p.idx + 1 \in 1..k
  <2> HIDE DEF k
  <2> QED BY <1>1, <1>2, <1>5
<1>9. \A i \in 0..(p.size - 1) : ptr[i] \in Int
  <2> SUFFICES ASSUME NEW i \in 0..(p.size - 1) PROVE ptr[i] \in Int
    OBVIOUS
  <2>1. CASE i \in p.idx..((p.idx + k) - 1)
    <3>1. ptr[i] \in U
      BY <2>1, <1>8
    <3>2. ptr[i] \in 0..(p.size - 1)
      BY <3>1, <1>3
    <3> HIDE DEF k
    <3> QED BY <3>2
  <2>2. CASE i \notin p.idx..((p.idx + k) - 1)
    BY <2>2, <1>1, <1>5
  <2> QED BY <2>1, <2>2
<1>10. ptr \in [0..(p.size - 1) -> Int]
  BY <1>5, <1>9
<1>11. IsPool(q)
  <2> HIDE DEF k
  <2> QED BY <1>1, <1>2, <1>6, <1>10 DEF IsPool
<1>a. q.ptr = ptr /\ q.idx = p.idx + k /\ q.size = p.size
  BY <1>6
<1>b. /\ FreeCells(p) = {p.ptr[i] : i \in 0..(p.idx - 1)}
      /\ FreeCells(q) = {ptr[i] : i \in 0..((p.idx + k) - 1)}
  <2>1. FreeCells(q) = {q.ptr[i] : i \in 0..(q.idx - 1)}
    BY DEF FreeCells
  <2>2. FreeCells(q) = {ptr[i] : i \in 0..((p.idx + k) - 1)}
    <3> HIDE DEF k
    <3> QED BY <1>a, <2>1
  <2> QED BY <2>2 DEF FreeCells
<1>12. /\ \A c : c \in FreeCells(p) <=> \E i \in 0..(p.idx - 1) : c = p.ptr[i]
       /\ \A c : c \in FreeCells(q) <=> \E i \in 0..((p.idx + k) - 1) : c = ptr[i]
  <2> HIDE DEF k
  <2> QED BY <1>b
<1>13. \A i \in 0..((p.idx + k) - 1) : i \in 0..(p.idx - 1) \/ i \in p.idx..((p.idx + k) - 1)
  BY <1>1
<1>14. FreeCells(q) = FreeCells(p) \cup C
  <2>1. ASSUME NEW c \in FreeCells(q) PROVE c \in FreeCells(p) \cup C
    <3>1. PICK i \in 0..((p.idx + k) - 1) : c = ptr[i]
      BY <1>12
    <3>2. CASE i \in 0..(p.idx - 1)
      BY <3>1, <3>2, <1>7, <1>12
    <3>3. CASE i \in p.idx..((p.idx + k) - 1)
      BY <3>1, <3>3, <1>8
    <3> QED BY <1>13, <3>2, <3>3
  <2>2. ASSUME NEW c \in FreeCells(p) PROVE c \in FreeCells(q)
    <3>1. PICK i \in 0..(p.idx - 1) : c = p.ptr[i]
      BY <1>12
    <3>2. i \in 0..((p.idx + k) - 1)
      BY <1>1
    <3> QED BY <3>1, <3>2, <1>7, <1>12
  <2>3. ASSUME NEW c \in C PROVE c \in FreeCells(q)
    <3>1. PICK i \in 1..k : c = cs[i]
      OBVIOUS
    <3> DEFINE j == p.idx + i - 1
    <3>2. /\ j \in p.idx..((p.idx + k) - 1) /\ j - p.idx + 1 = i
          /\ j \in 0..((p.idx + k) - 1)
      BY <1>1
    <3> HIDE DEF j
    <3> QED BY <3>1, <3>2, <1>8, <1>12
  <2> QED BY <2>1, <2>2, <2>3
<1>15. \A i, j \in 0..((p.idx + k) - 1) : ptr[i] = ptr[j] => i = j
  <2> SUFFICES ASSUME NEW i \in 0..((p.idx + k) - 1), NEW j \in 0..((p.idx + k) - 1),
                      ptr[i] = ptr[j]
               PROVE  i = j
    OBVIOUS
  <2>1. CASE i \in 0..(p.idx - 1) /\ j \in 0..(p.idx - 1)
    BY <2>1, <1>7 DEF Partitioned
  <2>2. CASE i \in p.idx..((p.idx + k) - 1) /\ j \in p.idx..((p.idx + k) - 1)
    <3>1. i - p.idx + 1 = j - p.idx + 1
      BY <2>2, <1>8
    <3> QED BY <3>1, <1>1
  <2>3. \A a \in 0..(p.idx - 1), b \in p.idx..((p.idx + k) - 1) : ptr[a] # ptr[b]
    <3> SUFFICES ASSUME NEW a \in 0..(p.idx - 1), NEW b \in p.idx..((p.idx + k) - 1)
                 PROVE  ptr[a] # ptr[b]
      OBVIOUS
    <3>1. ptr[a] \in FreeCells(p)
      BY <1>7, <1>12
    <3>2. ptr[b] \in U
      BY <1>8
    <3> QED BY <3>1, <3>2 DEF Partitioned
  <2> QED BY <1>13, <2>1, <2>2, <2>3
<1>16. Partitioned(q, U \ C)
  <2>1. FreeCells(q) \cap (U \ C) = {}
    BY <1>14 DEF Partitioned
  <2>2. FreeCells(q) \cup (U \ C) = 0..(q.size - 1)
    BY <1>3, <1>6, <1>14 DEF Partitioned
  <2>3. \A i, j \in 0..(q.idx - 1) : q.ptr[i] = q.ptr[j] => i = j
    <3>1. \A i, j \in 0..((p.idx + k) - 1) : ptr[i] = ptr[j] => i = j
      BY <1>15
    <3> HIDE DEF k
    <3> QED BY <1>a, <3>1
  <2> QED BY <2>1, <2>2, <2>3 DEF Partitioned
<1> QED BY <1>2, <1>11, <1>16 DEF q
=============================================================================
