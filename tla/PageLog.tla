------------------------------ MODULE PageLog ------------------------------
(* What the record tree promises its readers while no sweep runs: for each
   page, the copies made into it in ascending order of their offset.  A copy
   at or below the last offset invalidates the page's earlier copies.       *)
EXTENDS Sequences, Integers

CONSTANTS Pages, Rec
VARIABLE log        \* page -> sequence of records

Init == log = [p \in Pages |-> <<>>]

Extends(s, r) == s = <<>> \/ s[Len(s)].pageOffset < r.pageOffset

Record(p, r) ==
    log' = [log EXCEPT ![p] = IF Extends(@, r) THEN Append(@, r) ELSE <<r>>]

Next == \E p \in Pages, r \in Rec : Record(p, r)
Spec == Init /\ [][Next]_log
=============================================================================
