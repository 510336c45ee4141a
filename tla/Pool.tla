-------------------------------- MODULE Pool --------------------------------
(* One free-list pool of mem.h / mem.c with the cells its users hold:
   RECTREENODEPOOL and FILEMAPTREENODEPOOL (growable = FALSE: an empty pool
   trips assert(IDX > 0), which common.h turns into exit(100)), TAILHEADPOOL,
   RECBLOCKENTRYPOOL and RECARRPOOL (growable = TRUE: an empty pool doubles).
   A user withdraws only a cell it holds.                                   *)
EXTENDS PoolOps, FiniteSets

CONSTANTS
    InitialSize,    \* ...POOLSIZE as initMemory sets it
    Growables,      \* the kinds of pool: does the allocator have the growing branch
    MaxSize         \* bound: no growth beyond this many cells

ASSUME InitialSizeAssumption == InitialSize \in Nat \ {0}
ASSUME GrowablesAssumption == Growables \subseteq BOOLEAN
ASSUME MaxSizeAssumption == MaxSize \in Nat /\ InitialSize <= MaxSize

VARIABLES
    growable,       \* the kind of this pool
    pool,           \* pointer array, stack index, size
    holders,        \* cell -> how many users believe it is theirs
    halted          \* an assertion failed and the process exited

vars == <<growable, pool, holders, halted>>

Cell == 0..(MaxSize - 1)
held == {c \in Cell : holders[c] > 0}

Init ==
    /\ growable \in Growables
    /\ pool = NewPool(InitialSize)
    /\ holders = [c \in Cell |-> 0]
    /\ halted = FALSE

Exhausted == pool.idx <= 0

(* allocateTailHead, allocateRecBlockEntry, allocateMemRecArr, and the fast
   path of all the allocators: grow first when empty, then pop.            *)
Allocate ==
    /\ ~halted
    /\ ~Exhausted \/ (growable /\ 2 * pool.size <= MaxSize)
    /\ LET p == Replenish(pool)
       IN  /\ holders' = [holders EXCEPT ![Top(p)] = @ + 1]
           /\ pool' = Pop(p)
    /\ UNCHANGED <<growable, halted>>

\* assert(IDX > 0) of allocateRecTreeNode and allocateFileMapTreeNode.
AllocateFails ==
    /\ ~halted
    /\ Exhausted /\ ~growable
    /\ halted' = TRUE
    /\ UNCHANGED <<growable, pool, holders>>

\* Mutation of Withdraw: the assertion is off by one.
WithdrawOffByOne(c) ==
    /\ ~halted
    /\ c \in held
    /\ holders' = [holders EXCEPT ![c] = @ - 1]
    /\ IF pool.idx < pool.size - 1
       THEN pool' = Push(pool, c) /\ UNCHANGED halted
       ELSE halted' = TRUE /\ UNCHANGED pool
    /\ UNCHANGED growable

\* withdraw...(c): assert(IDX < SIZE), then push.
Withdraw(c) ==
    /\ ~halted
    /\ c \in held
    /\ holders' = [holders EXCEPT ![c] = @ - 1]
    /\ IF pool.idx < pool.size
       THEN pool' = Push(pool, c) /\ UNCHANGED halted
       ELSE halted' = TRUE /\ UNCHANGED pool
    /\ UNCHANGED growable

Next == Allocate \/ AllocateFails \/ \E c \in held : Withdraw(c)

Spec == Init /\ [][Next]_vars

-----------------------------------------------------------------------------
(* The pool is a pointer array as long as its size with the index in it,
   and users hold cells malloc produced.                                   *)
TypeOK ==
    /\ growable \in BOOLEAN
    /\ IsPool(pool)
    /\ pool.size <= MaxSize
    /\ holders \in [Cell -> Nat]
    /\ held \subseteq 0..(pool.size - 1)
    /\ halted \in BOOLEAN

(* The free stack and the users' cells partition the cells: no cell is free
   twice, none is free while somebody holds it, none is lost, and none has
   two users, through any sequence of allocations, growths and withdrawals.*)
NoAliasing == Partitioned(pool, held) /\ \A c \in Cell : holders[c] <= 1

(* The process exits on a pool assertion only in a pool that cannot grow
   and whose every cell is in use: never from withdraw...                  *)
HaltOnlyWhenExhausted == halted => ~growable /\ held = 0..(pool.size - 1)

\* The pool implements the abstract allocator.
A == INSTANCE Allocator
ImplementsAllocator == A!Spec
=============================================================================
