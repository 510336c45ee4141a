----------------------------- MODULE Allocator -----------------------------
(* What the library expects of every pool: a cell it is handed is in
   nobody's hands, and stays its own until it gives the cell back.         *)
EXTENDS Integers

CONSTANT Cell
VARIABLE holders    \* cell -> number of users holding it

Init == holders = [c \in Cell |-> 0]

HandOut(c)  == holders[c] = 0 /\ holders' = [holders EXCEPT ![c] = 1]
TakeBack(c) == holders[c] = 1 /\ holders' = [holders EXCEPT ![c] = 0]

Next == \E c \in Cell : HandOut(c) \/ TakeBack(c)
Spec == Init /\ [][Next]_holders
=============================================================================
