----------------------------- MODULE MCRecTree -----------------------------
(* The record tree for TLC.  File descriptors are model values nothing
   orders: states that differ only in their names may be identified.       *)
EXTENDS RecTree, TLC

FdSymmetry == Permutations(Fds)

\* Bound: the pages after the first hold at most a record of offset 0.
OnePageGrows ==
    \A p \in Traced : p > Min(Pages) =>
        /\ recTree[p].memRecIdx <= 1
        /\ recTree[p].blocks[1].recArr[0].pageOffset = 0
=============================================================================
