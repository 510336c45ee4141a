------------------------------ MODULE PoolOps ------------------------------
(* The free-list pools of mem.h / mem.c as values.

   A pool is a C array of cells, an array of pointers to them
   (...POOLPTR, here ptr), and a stack index into it (...POOLIDX, here idx):
   ptr[0 .. idx-1] are the free cells and the entries from idx on are
   leftovers.  Cells are numbered in the order malloc produced them.
   The five pools of the library differ only in the type of the cell and in
   whether an empty pool grows or trips the assertion.                      *)
EXTENDS Integers, Sequences

\* A pointer-array entry malloc returned and nobody has written.
Unset == -1

\* initMemory: n cells, all free, cell i at entry i.
NewPool(n) == [ptr |-> [i \in 0..(n - 1) |-> i], idx |-> n, size |-> n]

IsPool(p) ==
    /\ p \in [ptr : [0..(p.size - 1) -> Int], idx : Int, size : Int]
    /\ p.size > 0
    /\ p.idx \in 0..p.size

\* The cells an allocation could still return.
FreeCells(p) == {p.ptr[i] : i \in 0..(p.idx - 1)}

(* p's free stack and the set of cells in use partition p's cells: no cell is
   free twice, none is free while in use, none is lost.                    *)
Partitioned(p, inUse) ==
    /\ \A i, j \in 0..(p.idx - 1) : p.ptr[i] = p.ptr[j] => i = j
    /\ FreeCells(p) \cap inUse = {}
    /\ FreeCells(p) \cup inUse = 0..(p.size - 1)

\* Mutation of Grow: the new pointers start over at the first chunk.
GrowOldCells(p) ==
    [ptr  |-> [i \in 0..(2 * p.size - 1) |->
                 IF i < p.idx THEN p.ptr[i]
                 ELSE IF i < p.idx + p.size THEN i - p.idx
                 ELSE Unset],
     idx  |-> p.idx + p.size,
     size |-> 2 * p.size]

\* Mutation of Grow: ...POOLSIZE is not doubled.
GrowSizeKept(p) ==
    [ptr  |-> [i \in 0..(2 * p.size - 1) |->
                 IF i < p.idx THEN p.ptr[i] ELSE p.size + (i - p.idx)],
     idx  |-> p.idx + p.size,
     size |-> p.size]

(* The UNLIKELY(IDX <= 0) branch of the growable allocators: a second chunk
   of `size` cells, a pointer array twice as long into which only the first
   idx entries are copied, the new cells pushed above them.                *)
Grow(p) ==
    [ptr  |-> [i \in 0..(2 * p.size - 1) |->
                 IF i < p.idx THEN p.ptr[i]
                 ELSE IF i < p.idx + p.size THEN p.size + (i - p.idx)
                 ELSE Unset],
     idx  |-> p.idx + p.size,
     size |-> 2 * p.size]

Replenish(p) == IF p.idx <= 0 THEN Grow(p) ELSE p

\* Mutation of Pop: the index is not decremented.
PopKept(p) == p

\* IDX--; return PTR[IDX]: the cell returned, and the pool left behind.
Top(p) == p.ptr[p.idx - 1]
Pop(p) == [p EXCEPT !.idx = @ - 1]

\* PTR[IDX] = c; IDX++.
Push(p, c) == [p EXCEPT !.ptr = [@ EXCEPT ![p.idx] = c], !.idx = @ + 1]

\* A run of withdrawals, the cells of the sequence cs in order.
PushAll(p, cs) ==
    [p EXCEPT !.ptr = [i \in DOMAIN p.ptr |->
                         IF i \in p.idx..(p.idx + Len(cs) - 1)
                         THEN cs[i - p.idx + 1] ELSE p.ptr[i]],
              !.idx = @ + Len(cs)]
=============================================================================
