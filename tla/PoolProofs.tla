----------------------------- MODULE PoolProofs -----------------------------
(* Proofs about Pool, for every initial size and every bound on growth.      *)
EXTENDS Pool, PoolOpsProofs

-----------------------------------------------------------------------------
(* The component.  The partition alone does not show that withdraw's
   assertion holds: CountOK does, since a held cell leaves idx < size.     *)
CountOK ==
    /\ IsFiniteSet(held)
    /\ Cardinality(held) = pool.size - pool.idx

IInv == TypeOK /\ NoAliasing /\ CountOK /\ HaltOnlyWhenExhausted

(* The invariant holds of the pools initMemory sets up.                    *)
LEMMA InitInv == Init => IInv
<1> SUFFICES ASSUME Init PROVE IInv
  OBVIOUS
<1>0. held = {} /\ holders \in [Cell -> Nat] /\ \A c \in Cell : holders[c] <= 1
  BY DEF Init, held
<1>1. IsPool(pool) /\ pool.size = InitialSize /\ pool.idx = InitialSize
      /\ Partitioned(pool, {})
  BY NewPoolPartitioned, InitialSizeAssumption DEF Init
<1>a. NoAliasing
  BY <1>0, <1>1 DEF NoAliasing
<1>2. TypeOK
  BY <1>0, <1>1, MaxSizeAssumption, InitialSizeAssumption, GrowablesAssumption
  DEF Init, TypeOK, IsPool
<1>3. CountOK
  BY <1>0, <1>1, FS_EmptySet, InitialSizeAssumption DEF Init, CountOK
<1> QED BY <1>a, <1>1, <1>2, <1>3 DEF Init, IInv, HaltOnlyWhenExhausted

(* The pool an allocation pops from: it has a free cell, the cells in use
   are still those held, and it respects the bound.                        *)
LEMMA ReplenishInv ==
    ASSUME IInv, ~Exhausted \/ (growable /\ 2 * pool.size <= MaxSize)
    PROVE  LET p == Replenish(pool)
           IN  /\ IsPool(p) /\ Partitioned(p, held) /\ p.idx > 0
               /\ p.size <= MaxSize /\ pool.size <= p.size
               /\ p.size - p.idx = pool.size - pool.idx
<1>1. CASE Exhausted
  <2>1. pool.idx = 0 /\ IsPool(pool) /\ Partitioned(pool, held) /\ pool.size > 0
    BY <1>1 DEF Exhausted, IInv, TypeOK, IsPool, NoAliasing
  <2>2. Replenish(pool) = Grow(pool)
    BY <1>1 DEF Exhausted, Replenish
  <2>3. pool.size \in Int
    BY <2>1 DEF IsPool
  <2> QED BY <1>1, <2>1, <2>2, <2>3, GrowPartitioned
<1>2. CASE ~Exhausted
  <2>1. Replenish(pool) = pool /\ pool.idx > 0 /\ pool.size \in Int
    BY <1>2 DEF Exhausted, Replenish, IInv, TypeOK, IsPool
  <2> QED BY <2>1 DEF IInv, TypeOK, NoAliasing
<1> QED BY <1>1, <1>2

(* A cell nobody holds is handed out.                                      *)
LEMMA HandedOut ==
    ASSUME holders \in [Cell -> Nat], NEW c \in Cell,
           holders' = [holders EXCEPT ![c] = @ + 1]
    PROVE  held' = held \cup {c} /\ holders' \in [Cell -> Nat]
<1>1. holders' \in [Cell -> Nat]
  OBVIOUS
<1>2. ASSUME NEW d \in Cell
      PROVE  holders'[d] > 0 <=> holders[d] > 0 \/ d = c
  <2>1. CASE d = c
    BY <2>1
  <2>2. CASE d # c
    BY <2>2
  <2> QED BY <2>1, <2>2
<1> QED BY <1>1, <1>2 DEF held

(* A cell with one user is taken back.                                     *)
LEMMA TakenBack ==
    ASSUME holders \in [Cell -> Nat], NEW c \in Cell, holders[c] = 1,
           holders' = [holders EXCEPT ![c] = @ - 1]
    PROVE  held' = held \ {c} /\ holders' \in [Cell -> Nat]
<1>1. holders' \in [Cell -> Nat]
  OBVIOUS
<1>2. ASSUME NEW d \in Cell
      PROVE  holders'[d] > 0 <=> holders[d] > 0 /\ d # c
  <2>1. CASE d = c
    BY <2>1
  <2>2. CASE d # c
    BY <2>2
  <2> QED BY <2>1, <2>2
<1> QED BY <1>1, <1>2 DEF held

(* Every allocation preserves the invariant.                               *)
LEMMA AllocateInv == IInv /\ Allocate => IInv'
<1> SUFFICES ASSUME IInv, Allocate PROVE IInv'
  OBVIOUS
<1> DEFINE p == Replenish(pool)
<1>1. /\ IsPool(p) /\ Partitioned(p, held) /\ p.idx > 0
      /\ p.size <= MaxSize /\ pool.size <= p.size
      /\ p.size - p.idx = pool.size - pool.idx
  BY ReplenishInv DEF Allocate
<1>2. /\ holders' = [holders EXCEPT ![Top(p)] = @ + 1] /\ pool' = Pop(p)
      /\ halted' = halted /\ ~halted /\ growable' = growable
  BY DEF Allocate
<1> HIDE DEF p
<1>3. /\ Top(p) \in 0..(p.size - 1) /\ Top(p) \notin held
      /\ Partitioned(pool', held \cup {Top(p)})
  BY <1>1, <1>2, PopPartitioned
<1>a. Top(p) \in Cell
  BY <1>1, <1>3, MaxSizeAssumption DEF IsPool, Cell
<1>b. held' = held \cup {Top(p)} /\ holders' \in [Cell -> Nat]
  BY <1>2, <1>a, HandedOut DEF IInv, TypeOK
<1>c. \A c \in Cell : holders'[c] <= 1
  BY <1>2, <1>3, <1>a DEF IInv, TypeOK, NoAliasing, held
<1>d. NoAliasing'
  BY <1>3, <1>b, <1>c DEF NoAliasing
<1>4. IsPool(pool') /\ pool'.size = p.size /\ pool'.idx = p.idx - 1
  BY <1>1, <1>2, PopFields
<1>5. held' \subseteq 0..(pool'.size - 1)
  <2>1. pool.size \in Int /\ p.size \in Int
    BY <1>1 DEF IInv, TypeOK, IsPool
  <2>2. held \subseteq 0..(p.size - 1)
    BY <1>1, <2>1 DEF IInv, TypeOK
  <2>3. held \cup {Top(p)} \subseteq 0..(p.size - 1)
    BY <1>3, <2>2
  <2> QED BY <1>b, <1>4, <2>3
<1>6. TypeOK'
  BY <1>1, <1>2, <1>4, <1>5, <1>b DEF IInv, TypeOK
<1>7. CountOK'
  <2>1. IsFiniteSet(held') /\ Cardinality(held') = Cardinality(held) + 1
    BY <1>b, <1>3, FS_AddElement DEF IInv, CountOK
  <2>2. p.size \in Int /\ p.idx \in Int /\ pool.size \in Int /\ pool.idx \in Int
    BY <1>1 DEF IInv, TypeOK, IsPool
  <2> QED BY <1>1, <1>4, <2>1, <2>2 DEF IInv, CountOK
<1> QED BY <1>2, <1>d, <1>6, <1>7 DEF IInv, HaltOnlyWhenExhausted

(* A held cell leaves room on the free stack: withdraw's assertion holds.  *)
LEMMA WithdrawAssertion ==
    ASSUME IInv, NEW c \in held
    PROVE  pool.idx < pool.size
<1>1. Cardinality(held) # 0 /\ Cardinality(held) \in Nat
  BY FS_EmptySet, FS_CardinalityType DEF IInv, CountOK
<1> QED BY <1>1 DEF IInv, CountOK, TypeOK, IsPool

(* Every withdrawal preserves the invariant.                               *)
LEMMA WithdrawInv ==
    ASSUME IInv, NEW c \in held, Withdraw(c)
    PROVE  IInv' /\ pool' = Push(pool, c) /\ halted' = halted
<1>1. pool.idx < pool.size
  BY WithdrawAssertion
<1>2. /\ holders' = [holders EXCEPT ![c] = @ - 1] /\ pool' = Push(pool, c)
      /\ halted' = halted /\ ~halted /\ growable' = growable
  BY <1>1 DEF Withdraw
<1>a. c \in Cell /\ holders[c] = 1 /\ holders \in [Cell -> Nat]
  BY DEF held, IInv, TypeOK, NoAliasing
<1>b. held' = held \ {c} /\ holders' \in [Cell -> Nat]
  BY <1>2, <1>a, TakenBack
<1>c. \A d \in Cell : holders'[d] <= 1
  BY <1>2, <1>a DEF IInv, NoAliasing
<1>3. /\ IsPool(pool) /\ Partitioned(pool, held) /\ c \in Int
      /\ held \subseteq 0..(pool.size - 1)
  BY DEF IInv, TypeOK, NoAliasing, IsPool
<1>4. /\ IsPool(pool') /\ pool'.size = pool.size /\ pool'.idx = pool.idx + 1
  BY <1>1, <1>2, <1>3, PushFields
<1>5. Partitioned(pool', held')
  BY <1>1, <1>2, <1>3, <1>b, PushPartitioned
<1>6. TypeOK'
  BY <1>2, <1>4, <1>b DEF IInv, TypeOK
<1>7. CountOK'
  <2>1. IsFiniteSet(held') /\ Cardinality(held') = Cardinality(held) - 1
    BY <1>b, FS_RemoveElement DEF IInv, CountOK
  <2> QED BY <1>4, <2>1 DEF IInv, CountOK, TypeOK, IsPool
<1> QED BY <1>2, <1>5, <1>6, <1>7, <1>c DEF IInv, NoAliasing, HaltOnlyWhenExhausted

(* Exiting on the empty pool: all the cells are in use.                    *)
LEMMA AllocateFailsInv == IInv /\ AllocateFails => IInv'
<1> SUFFICES ASSUME IInv, AllocateFails PROVE IInv'
  OBVIOUS
<1>1. /\ pool' = pool /\ holders' = holders /\ held' = held
      /\ halted' = TRUE /\ ~growable /\ growable' = growable
  BY DEF AllocateFails, held
<1>2. held = 0..(pool.size - 1)
  <2>1. 0..(pool.idx - 1) = {}
    BY DEF AllocateFails, Exhausted, IInv, TypeOK, IsPool
  <2>2. FreeCells(pool) = {}
    BY <2>1 DEF FreeCells
  <2> QED BY <2>2 DEF IInv, NoAliasing, Partitioned
<1> QED
  BY <1>1, <1>2
  DEF IInv, TypeOK, NoAliasing, CountOK, HaltOnlyWhenExhausted

(* Every step preserves the invariant.                                     *)
LEMMA NextInv == IInv /\ [Next]_vars => IInv'
<1> SUFFICES ASSUME IInv, [Next]_vars PROVE IInv'
  OBVIOUS
<1>1. CASE Allocate
  BY <1>1, AllocateInv
<1>2. CASE AllocateFails
  BY <1>2, AllocateFailsInv
<1>3. ASSUME NEW c \in held, Withdraw(c) PROVE IInv'
  BY <1>3, WithdrawInv
<1>4. CASE UNCHANGED vars
  BY <1>4 DEF vars, held, IInv, TypeOK, NoAliasing, CountOK, HaltOnlyWhenExhausted
<1> QED BY <1>1, <1>2, <1>3, <1>4 DEF Next

(* The inductive invariant holds throughout.                               *)
THEOREM Invariance == Spec => []IInv
  BY InitInv, NextInv, PTL DEF Spec

(* Type correctness of every pool, whatever its size.                      *)
THEOREM TypeCorrect == Spec => []TypeOK
  BY Invariance, PTL DEF IInv

(* mem.h and mem.c never hand out a cell somebody holds, never free a cell
   twice and never lose one, for every pool size and any number of growths.*)
THEOREM PoolNoAliasing == Spec => []NoAliasing
  BY Invariance, PTL DEF IInv

(* The assertion of the withdraw functions never fails, and that of the
   allocators fails only when every cell is in use.                        *)
THEOREM PoolHaltOnlyWhenExhausted == Spec => []HaltOnlyWhenExhausted
  BY Invariance, PTL DEF IInv

(* The pools implement the allocator the library expects of them.          *)
THEOREM PoolImplementsAllocator == Spec => ImplementsAllocator
<1>1. Init => A!Init
  BY DEF Init, A!Init
<1>2. IInv /\ [Next]_vars => [A!Next]_holders
  <2> SUFFICES ASSUME IInv, [Next]_vars PROVE [A!Next]_holders
    OBVIOUS
  <2>1. CASE Allocate
    <3> DEFINE p == Replenish(pool)
    <3>1. IsPool(p) /\ Partitioned(p, held) /\ p.idx > 0 /\ p.size <= MaxSize
      BY <2>1, ReplenishInv DEF Allocate
    <3>2. holders' = [holders EXCEPT ![Top(p)] = @ + 1]
      BY <2>1 DEF Allocate
    <3> HIDE DEF p
    <3>3. Top(p) \in 0..(p.size - 1) /\ Top(p) \notin held
      BY <3>1, PopPartitioned
    <3>4. Top(p) \in Cell
      BY <3>1, <3>3, MaxSizeAssumption DEF IsPool, Cell
    <3>5. holders[Top(p)] = 0
      BY <3>3, <3>4 DEF IInv, TypeOK, held
    <3>6. A!HandOut(Top(p))
      BY <3>2, <3>5 DEF A!HandOut
    <3> QED BY <3>4, <3>6 DEF A!Next
  <2>2. CASE AllocateFails
    BY <2>2 DEF AllocateFails
  <2>3. ASSUME NEW c \in held, Withdraw(c) PROVE A!Next
    <3>1. c \in Cell /\ holders[c] = 1
      BY DEF held, IInv, TypeOK, NoAliasing
    <3>2. holders' = [holders EXCEPT ![c] = @ - 1]
      BY <2>3 DEF Withdraw
    <3>3. A!TakeBack(c)
      BY <3>1, <3>2 DEF A!TakeBack
    <3> QED BY <3>1, <3>3 DEF A!Next
  <2>4. CASE UNCHANGED vars
    BY <2>4 DEF vars
  <2> QED BY <2>1, <2>2, <2>3, <2>4 DEF Next
<1> QED BY <1>1, <1>2, Invariance, PTL DEF Spec, ImplementsAllocator, A!Spec
=============================================================================
