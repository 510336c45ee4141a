--------------------------- MODULE RecTreeProofs ---------------------------
(* What holds of RecTree for every instance, sweeps or not: it is typed, the
   pools keep account of every node and block, the block filled is the newest
   of its list, the sweep follows no pointer that was never written, and it
   takes nothing from a page of one mapped block.  And what holds where no
   sweep is ever due: pages are ordered, and implement PageLog.             *)
EXTENDS RecTree, PoolOpsProofs, SequenceTheorems

-----------------------------------------------------------------------------
(* Nodes whose blocks have identities in E.                                 *)
BlockOver(E) == [ent : E, recArr : [Slots -> Rec \cup {Unwritten}]]
NodeOver(E) == [blocks : Seq(BlockOver(E)), recModEntry : Int, memRecIdx : Int]

\* The record at slot i of block j.
At(n, j, i) == n.blocks[j].recArr[i]

\* The identities of a node's blocks, and that they differ.
Ents(n) == {n.blocks[j].ent : j \in 1..Len(n.blocks)}
Distinct(n) ==
    \A i, j \in 1..Len(n.blocks) : n.blocks[i].ent = n.blocks[j].ent => i = j

\* n with r in slot s of block b.
Written(n, b, s, r) == [n EXCEPT !.blocks[b].recArr[s] = r]

(* Writing one slot: the node keeps its blocks and every other slot.        *)
LEMMA SlotWritten ==
    ASSUME NEW E, NEW n \in NodeOver(E), NEW r \in Rec,
           NEW b \in 1..Len(n.blocks), NEW s \in Slots
    PROVE  LET m == Written(n, b, s, r)
           IN  /\ m \in NodeOver(E)
               /\ Len(m.blocks) = Len(n.blocks)
               /\ m.recModEntry = n.recModEntry
               /\ m.memRecIdx = n.memRecIdx
               /\ \A j \in 1..Len(n.blocks) : m.blocks[j].ent = n.blocks[j].ent
               /\ \A j \in 1..Len(n.blocks), i \in Slots :
                     At(m, j, i) = IF j = b /\ i = s THEN r ELSE At(n, j, i)
<1> DEFINE arr == [n.blocks[b].recArr EXCEPT ![s] = r]
           blk == [n.blocks[b] EXCEPT !.recArr = arr]
           blks == [n.blocks EXCEPT ![b] = blk]
           m == Written(n, b, s, r)
<1>1. n.blocks \in Seq(BlockOver(E)) /\ n.blocks[b] \in BlockOver(E)
  BY DEF NodeOver
<1>3. m = [n EXCEPT !.blocks = blks]
  BY DEF Written
<1> HIDE DEF m
<1>4. arr \in [Slots -> Rec \cup {Unwritten}]
  BY <1>1 DEF BlockOver
<1>5. \A i \in Slots : arr[i] = IF i = s THEN r ELSE n.blocks[b].recArr[i]
  BY <1>1 DEF BlockOver
<1> HIDE DEF arr
<1>6. blk \in BlockOver(E) /\ blk.recArr = arr /\ blk.ent = n.blocks[b].ent
  BY <1>1, <1>4 DEF BlockOver
<1> HIDE DEF blk
<1>7. /\ blks \in Seq(BlockOver(E)) /\ Len(blks) = Len(n.blocks)
      /\ \A j \in 1..Len(n.blocks) : blks[j] = IF j = b THEN blk ELSE n.blocks[j]
  BY <1>1, <1>6
<1> HIDE DEF blks
<1>8. m = [blocks |-> blks, recModEntry |-> n.recModEntry,
           memRecIdx |-> n.memRecIdx]
  BY <1>3 DEF NodeOver
<1>9. m \in NodeOver(E)
  BY <1>7, <1>8 DEF NodeOver
<1>10. \A j \in 1..Len(n.blocks), i \in Slots :
          At(m, j, i) = IF j = b /\ i = s THEN r ELSE At(n, j, i)
  BY <1>5, <1>6, <1>7, <1>8 DEF At
<1>11. \A j \in 1..Len(n.blocks) : m.blocks[j].ent = n.blocks[j].ent
  BY <1>6, <1>7, <1>8
<1> QED BY <1>7, <1>8, <1>9, <1>10, <1>11 DEF m

(* writeRec with room in the block: one slot changes, the index moves on.  *)
LEMMA WriteInPlaceEffect ==
    ASSUME NEW E, NEW n \in NodeOver(E), NEW r \in Rec,
           n.recModEntry \in 1..Len(n.blocks), n.memRecIdx \in Slots
    PROVE  LET m == WriteRec(n, r, Unset)
           IN  /\ m \in NodeOver(E)
               /\ Len(m.blocks) = Len(n.blocks)
               /\ m.recModEntry = n.recModEntry
               /\ m.memRecIdx = n.memRecIdx + 1
               /\ \A j \in 1..Len(n.blocks) : m.blocks[j].ent = n.blocks[j].ent
               /\ \A j \in 1..Len(n.blocks), i \in Slots :
                     At(m, j, i) = IF j = n.recModEntry /\ i = n.memRecIdx
                                   THEN r ELSE At(n, j, i)
<1> DEFINE b == n.recModEntry
           s == n.memRecIdx
           w == Written(n, b, s, r)
           m == WriteRec(n, r, Unset)
<1>1. ~NeedsBlock(n) /\ s \in Int
  BY MemRecPerEntryAssumption DEF NeedsBlock, Slots
<1>2. m = [w EXCEPT !.memRecIdx = s + 1]
  BY <1>1 DEF WriteRec, Fill, NodeOver, Written
<1>3. /\ w \in NodeOver(E) /\ Len(w.blocks) = Len(n.blocks)
      /\ w.recModEntry = b /\ w.memRecIdx = s
      /\ \A j \in 1..Len(n.blocks) : w.blocks[j].ent = n.blocks[j].ent
      /\ \A j \in 1..Len(n.blocks), i \in Slots :
            At(w, j, i) = IF j = b /\ i = s THEN r ELSE At(n, j, i)
  <2>1. b \in 1..Len(n.blocks) /\ s \in Slots
    OBVIOUS
  <2> QED BY <2>1, SlotWritten
<1> HIDE DEF w, m
<1>4. m = [blocks |-> w.blocks, recModEntry |-> b, memRecIdx |-> s + 1]
  BY <1>2, <1>3 DEF NodeOver
<1>5. m \in NodeOver(E)
  BY <1>1, <1>3, <1>4 DEF NodeOver
<1> QED BY <1>3, <1>4, <1>5 DEF At, m

(* writeRec with the block full: a block is appended, r is its slot 0.     *)
LEMMA WriteInNewBlockEffect ==
    ASSUME NEW E, NEW n \in NodeOver(E), NEW r \in Rec, NEW e, NeedsBlock(n)
    PROVE  LET m == WriteRec(n, r, e)
           IN  /\ m \in NodeOver(E \cup {e})
               /\ Len(m.blocks) = Len(n.blocks) + 1
               /\ m.recModEntry = Len(n.blocks) + 1
               /\ m.memRecIdx = 1
               /\ At(m, Len(n.blocks) + 1, 0) = r
               /\ \A j \in 1..Len(n.blocks), i \in Slots :
                     At(m, j, i) = At(n, j, i)
<1> DEFINE F == E \cup {e}
           arr == [[i \in Slots |-> Unwritten] EXCEPT ![0] = r]
           blk == [ent |-> e, recArr |-> arr]
           blks == Append(n.blocks, blk)
           m == WriteRec(n, r, e)
<1>0. 0 \in Slots
  BY MemRecPerEntryAssumption DEF Slots
<1>1. n.blocks \in Seq(BlockOver(E)) /\ Len(n.blocks) \in Nat
  BY DEF NodeOver
<1>2. BlockOver(E) \subseteq BlockOver(F)
  BY DEF BlockOver
<1>3. n.blocks \in Seq(BlockOver(F))
  BY <1>1, <1>2, SeqMonotonic
<1>4. arr \in [Slots -> Rec \cup {Unwritten}] /\ arr[0] = r
  BY <1>0
<1>5. m = [blocks |-> blks, recModEntry |-> Len(n.blocks) + 1, memRecIdx |-> 1]
  <2>1. [NewBlock(e) EXCEPT !.recArr[0] = r] = blk
    BY <1>0 DEF NewBlock
  <2> QED BY <2>1 DEF WriteRec
<1> HIDE DEF m, arr
<1>6. blk \in BlockOver(F) /\ blk.recArr = arr
  BY <1>4 DEF BlockOver
<1> HIDE DEF blk
<1>7. /\ blks \in Seq(BlockOver(F)) /\ Len(blks) = Len(n.blocks) + 1
      /\ blks[Len(n.blocks) + 1] = blk
      /\ \A j \in 1..Len(n.blocks) : blks[j] = n.blocks[j]
  BY <1>1, <1>3, <1>6
<1> HIDE DEF blks
<1>8. m \in NodeOver(F)
  BY <1>1, <1>5, <1>7 DEF NodeOver
<1> QED BY <1>4, <1>5, <1>6, <1>7, <1>8 DEF At, m

(* The cut back list: one block, the oldest, to be filled from slot 0.     *)
LEMMA RestartEffect ==
    ASSUME NEW E, NEW n \in NodeOver(E), Len(n.blocks) \in Nat \ {0}
    PROVE  /\ Restart(n) \in NodeOver(E)
           /\ Len(Restart(n).blocks) = 1
           /\ Restart(n).recModEntry = 1
           /\ Restart(n).memRecIdx = 0
<1>1. n.blocks[1] \in BlockOver(E)
  BY DEF NodeOver
<1>2. <<n.blocks[1]>> \in Seq(BlockOver(E)) /\ Len(<<n.blocks[1]>>) = 1
  BY <1>1
<1> QED BY <1>2 DEF Restart, NodeOver

(* The list of a new tree node.                                            *)
LEMMA NewNodeEffect ==
    ASSUME NEW e
    PROVE  /\ NewNode(e) \in NodeOver({e})
           /\ Len(NewNode(e).blocks) = 1
           /\ NewNode(e).recModEntry = 1
           /\ NewNode(e).memRecIdx = 0
<1>1. NewBlock(e) \in BlockOver({e})
  BY DEF NewBlock, BlockOver
<1>2. <<NewBlock(e)>> \in Seq(BlockOver({e})) /\ Len(<<NewBlock(e)>>) = 1
  BY <1>1
<1> QED BY <1>2 DEF NewNode, NodeOver

-----------------------------------------------------------------------------
(* The blocks of a node.                                                    *)

\* cs lists the elements of S, each once.
Lists(cs, S) ==
    /\ cs \in Seq(S)
    /\ {cs[i] : i \in 1..Len(cs)} = S
    /\ \A i, j \in 1..Len(cs) : cs[i] = cs[j] => i = j

(* One list after the other.                                                *)
LEMMA ListsConcat ==
    ASSUME NEW a, NEW b, NEW S, NEW T, Lists(a, S), Lists(b, T), S \cap T = {}
    PROVE  Lists(a \o b, S \cup T)
<1> DEFINE c == a \o b
           k == Len(a)
           l == Len(b)
           V == S \cup T
<1>1. a \in Seq(V) /\ b \in Seq(V) /\ k \in Nat /\ l \in Nat
  <2>1. a \in Seq(S) /\ b \in Seq(T)
    BY DEF Lists
  <2> QED BY <2>1, SeqMonotonic
<1>2. /\ c \in Seq(V) /\ Len(c) = k + l
      /\ \A i \in 1..(k + l) : c[i] = IF i <= k THEN a[i] ELSE b[i - k]
  BY <1>1, ConcatProperties
<1>3. /\ \A i \in 1..k : a[i] \in S
      /\ \A i \in 1..l : b[i] \in T
      /\ \A x \in S : \E i \in 1..k : a[i] = x
      /\ \A x \in T : \E i \in 1..l : b[i] = x
      /\ \A i, j \in 1..k : a[i] = a[j] => i = j
      /\ \A i, j \in 1..l : b[i] = b[j] => i = j
  BY DEF Lists
<1> HIDE DEF c, k, l
<1>4. ASSUME NEW i \in 1..(k + l)
      PROVE  \/ i \in 1..k /\ c[i] = a[i] /\ c[i] \in S
             \/ i > k /\ i - k \in 1..l /\ c[i] = b[i - k] /\ c[i] \in T
  <2>1. CASE i <= k
    <3>1. i \in 1..k /\ c[i] = a[i]
      BY <2>1, <1>1, <1>2
    <3> QED BY <3>1, <1>3
  <2>2. CASE ~(i <= k)
    <3>1. i > k /\ i - k \in 1..l
      BY <2>2, <1>1
    <3>2. c[i] = b[i - k]
      BY <2>2, <1>2
    <3> QED BY <3>1, <3>2, <1>3
  <2> QED BY <2>1, <2>2
<1>5. ASSUME NEW i \in 1..(k + l), NEW j \in 1..(k + l), c[i] = c[j]
      PROVE  i = j
  <2>1. CASE i \in 1..k /\ j \in 1..k
    <3>1. c[i] = a[i] /\ c[j] = a[j]
      BY <1>1, <2>1, <1>2
    <3> QED BY <3>1, <2>1, <1>3, <1>5
  <2>2. CASE i > k /\ j > k
    <3>1. i - k \in 1..l /\ j - k \in 1..l /\ c[i] = b[i - k] /\ c[j] = b[j - k]
      BY <1>1, <2>2, <1>4
    <3>2. i - k = j - k
      BY <3>1, <1>3, <1>5
    <3> QED BY <3>2, <1>1
  <2>3. CASE i \in 1..k /\ j > k
    <3>1. ~(i > k) /\ j \notin 1..k
      BY <1>1, <2>3
    <3>2. c[i] \in S /\ c[j] \in T
      BY <3>1, <1>4
    <3> QED BY <3>2, <1>5
  <2>4. CASE i > k /\ j \in 1..k
    <3>1. i \notin 1..k /\ ~(j > k)
      BY <1>1, <2>4
    <3>2. c[i] \in T /\ c[j] \in S
      BY <3>1, <1>4
    <3> QED BY <3>2, <1>5
  <2> QED BY <1>1, <2>1, <2>2, <2>3, <2>4
<1>6. \A x \in V : \E i \in 1..(k + l) : c[i] = x
  <2>1. ASSUME NEW x \in S PROVE \E i \in 1..(k + l) : c[i] = x
    <3>1. PICK i \in 1..k : a[i] = x
      BY <1>3
    <3> QED BY <3>1, <1>1, <1>2
  <2>2. ASSUME NEW x \in T PROVE \E i \in 1..(k + l) : c[i] = x
    <3>1. PICK i \in 1..l : b[i] = x
      BY <1>3
    <3>2. i + k \in 1..(k + l) /\ ~(i + k <= k) /\ (i + k) - k = i
      BY <1>1
    <3>3. c[i + k] = b[i]
      BY <3>2, <1>2
    <3> QED BY <3>1, <3>2, <3>3
  <2> QED BY <2>1, <2>2
<1>7. \A i \in 1..(k + l) : c[i] \in V
  BY <1>3, <1>4
<1>8. {c[i] : i \in 1..Len(c)} = V
  BY <1>2, <1>6, <1>7
<1> QED BY <1>2, <1>5, <1>8 DEF Lists, c

(* A list of nothing, and of one thing.                                     *)
LEMMA ListsFew ==
    /\ Lists(<< >>, {})
    /\ \A x : Lists(<<x>>, {x})
<1>1. << >> \in Seq({}) /\ Len(<< >>) = 0
  OBVIOUS
<1>2. Lists(<< >>, {})
  BY <1>1 DEF Lists
<1>3. ASSUME NEW x PROVE Lists(<<x>>, {x})
  <2>1. <<x>> \in Seq({x}) /\ Len(<<x>>) = 1 /\ <<x>>[1] = x
    OBVIOUS
  <2>2. 1..1 = {1}
    OBVIOUS
  <2>3. {<<x>>[i] : i \in 1..Len(<<x>>)} = {x}
    BY <2>1, <2>2
  <2>4. \A i, j \in 1..Len(<<x>>) : <<x>>[i] = <<x>>[j] => i = j
    BY <2>1, <2>2
  <2> QED BY <2>1, <2>3, <2>4 DEF Lists
<1> QED BY <1>2, <1>3

(* Withdrawing what is listed.                                              *)
LEMMA ListReturned ==
    ASSUME NEW pool, NEW U, NEW cs, NEW S, IsPool(pool), Partitioned(pool, U),
           Lists(cs, S), S \subseteq U
    PROVE  IsPool(PushAll(pool, cs)) /\ Partitioned(PushAll(pool, cs), U \ S)
<1>1. /\ Len(cs) \in Nat
      /\ \A i \in 1..Len(cs) : cs[i] \in U
      /\ \A i, j \in 1..Len(cs) : cs[i] = cs[j] => i = j
      /\ {cs[i] : i \in 1..Len(cs)} = S
  BY DEF Lists
<1>2. /\ IsPool(PushAll(pool, cs))
      /\ Partitioned(PushAll(pool, cs), U \ {cs[i] : i \in 1..Len(cs)})
  BY <1>1, PushAllPartitioned, SMTT(60)
<1> QED BY <1>1, <1>2

(* A new block joins those of the node.                                     *)
LEMMA NewBlockEnts ==
    ASSUME NEW E, NEW n \in NodeOver(E), NEW r \in Rec, NEW e, NeedsBlock(n),
           Distinct(n), e \notin Ents(n)
    PROVE  LET m == WriteRec(n, r, e)
           IN  Distinct(m) /\ Ents(m) = Ents(n) \cup {e}
<1> DEFINE blk == [NewBlock(e) EXCEPT !.recArr[0] = r]
           blks == Append(n.blocks, blk)
           l == Len(n.blocks)
           m == WriteRec(n, r, e)
<1>1. n.blocks \in Seq(BlockOver(E)) /\ l \in Nat
  BY DEF NodeOver
<1>2. m.blocks = blks
  BY DEF WriteRec
<1> HIDE DEF m
<1>3. blk.ent = e
  BY DEF NewBlock
<1> HIDE DEF blk
<1>4. n.blocks \in Seq(BlockOver(E) \cup {blk})
  BY <1>1, SeqMonotonic
<1>5. /\ Len(blks) = l + 1 /\ blks[l + 1] = blk
      /\ \A j \in 1..l : blks[j] = n.blocks[j]
  BY <1>4, AppendProperties
<1> HIDE DEF blks
<1>6. \A j \in 1..(l + 1) : j \in 1..l \/ j = l + 1
  BY <1>1
<1>7. \A j \in 1..(l + 1) : blks[j].ent = IF j = l + 1 THEN e ELSE n.blocks[j].ent
  BY <1>3, <1>5, <1>6
<1>8. Ents(m) = Ents(n) \cup {e}
  <2>1. Ents(m) = {blks[j].ent : j \in 1..(l + 1)}
    BY <1>2, <1>5 DEF Ents
  <2>2. Ents(n) = {n.blocks[j].ent : j \in 1..l}
    BY DEF Ents
  <2>3. \A j \in 1..l : j \in 1..(l + 1) /\ j # l + 1
    BY <1>1
  <2>4. l + 1 \in 1..(l + 1)
    BY <1>1
  <2> HIDE DEF l
  <2>5. ASSUME NEW c \in Ents(m) PROVE c \in Ents(n) \cup {e}
    <3>1. PICK j \in 1..(l + 1) : c = blks[j].ent
      BY <2>1
    <3> QED BY <3>1, <2>2, <1>6, <1>7
  <2>6. ASSUME NEW c \in Ents(n) PROVE c \in Ents(m)
    <3>1. PICK j \in 1..l : c = n.blocks[j].ent
      BY <2>2
    <3> QED BY <3>1, <2>1, <2>3, <1>7
  <2>7. e \in Ents(m)
    BY <2>1, <2>4, <1>7
  <2> QED BY <2>5, <2>6, <2>7
<1>9. \A j \in 1..l : n.blocks[j].ent # e
  BY DEF Ents
<1>10. \A i, j \in 1..(l + 1) : blks[i].ent = blks[j].ent => i = j
  <2> SUFFICES ASSUME NEW i \in 1..(l + 1), NEW j \in 1..(l + 1),
                      blks[i].ent = blks[j].ent
               PROVE  i = j
    OBVIOUS
  <2>1. CASE i \in 1..l /\ j \in 1..l
    <3>1. n.blocks[i].ent = n.blocks[j].ent
      BY <2>1, <1>5
    <3> QED BY <2>1, <3>1 DEF Distinct
  <2>2. CASE i = l + 1 /\ j \in 1..l
    BY <2>2, <1>3, <1>5, <1>9
  <2>3. CASE i \in 1..l /\ j = l + 1
    BY <2>3, <1>3, <1>5, <1>9
  <2> QED BY <1>6, <2>1, <2>2, <2>3
<1>11. Distinct(m)
  BY <1>2, <1>5, <1>10 DEF Distinct
<1> QED BY <1>8, <1>11 DEF m

\* The blocks newer than position k.
Behind(n, k) == {n.blocks[j].ent : j \in (k + 1)..Len(n.blocks)}

(* NewerThan lists them.                                                    *)
LEMMA NewerLists ==
    ASSUME NEW E, NEW n \in NodeOver(E), NEW k \in 1..Len(n.blocks), Distinct(n)
    PROVE  Lists(NewerThan(n, k), Behind(n, k))
<1> DEFINE l == Len(n.blocks)
           cs == NewerThan(n, k)
<1>1. /\ cs = [i \in 1..(l - k) |-> n.blocks[l + 1 - i].ent]
      /\ l \in Nat /\ k \in Nat /\ k <= l /\ k >= 1
  BY DEF NewerThan, NodeOver
<1>2. Behind(n, k) = {n.blocks[j].ent : j \in (k + 1)..l}
  BY DEF Behind
<1>3. \A i, j \in 1..l : n.blocks[i].ent = n.blocks[j].ent => i = j
  BY DEF Distinct
<1> HIDE DEF cs, l
<1>4. \A i \in 1..(l - k) : l + 1 - i \in (k + 1)..l /\ l + 1 - i \in 1..l
  BY <1>1
<1>5. cs \in Seq(Behind(n, k)) /\ Len(cs) = l - k
  <2>1. \A i \in 1..(l - k) : n.blocks[l + 1 - i].ent \in Behind(n, k)
    BY <1>2, <1>4
  <2> QED BY <1>1, <2>1
<1>6. ASSUME NEW i \in 1..(l - k), NEW j \in 1..(l - k), cs[i] = cs[j]
      PROVE  i = j
  <2>1. l + 1 - i = l + 1 - j
    BY <1>1, <1>3, <1>4, <1>6
  <2> QED BY <2>1, <1>1
<1>7. ASSUME NEW c \in Behind(n, k) PROVE \E i \in 1..(l - k) : cs[i] = c
  <2>1. PICK j \in (k + 1)..l : c = n.blocks[j].ent
    BY <1>2
  <2>2. l + 1 - j \in 1..(l - k) /\ l + 1 - (l + 1 - j) = j
    BY <1>1
  <2> QED BY <2>1, <2>2, <1>1
<1>8. \A i \in 1..(l - k) : cs[i] \in Behind(n, k)
  BY <1>1, <1>2, <1>4
<1>9. {cs[i] : i \in 1..Len(cs)} = Behind(n, k)
  BY <1>5, <1>7, <1>8
<1> QED BY <1>5, <1>6, <1>9 DEF Lists, cs

\* The blocks of m are the k oldest of n, whatever they hold.
Oldest(n, m, k) ==
    /\ Len(n.blocks) \in Nat /\ k \in 1..Len(n.blocks) /\ Len(m.blocks) = k
    /\ \A j \in 1..k : m.blocks[j].ent = n.blocks[j].ent

(* Then m has the identities n has but for those behind k.                  *)
LEMMA OldestEnts ==
    ASSUME NEW n, NEW m, NEW k, Distinct(n), Oldest(n, m, k)
    PROVE  /\ Distinct(m)
           /\ Ents(m) = Ents(n) \ Behind(n, k)
           /\ Behind(n, k) \subseteq Ents(n)
<1> DEFINE l == Len(n.blocks)
<1>1. l \in Nat /\ k \in 1..l
  BY DEF Oldest
<1>2. /\ \A i, j \in 1..l : n.blocks[i].ent = n.blocks[j].ent => i = j
      /\ \A j \in 1..k : m.blocks[j].ent = n.blocks[j].ent
  BY DEF Distinct, Oldest
<1>3. /\ Ents(n) = {n.blocks[j].ent : j \in 1..l}
      /\ Ents(m) = {m.blocks[j].ent : j \in 1..k} /\ Len(m.blocks) = k
      /\ Behind(n, k) = {n.blocks[j].ent : j \in (k + 1)..l}
  BY DEF Ents, Behind, Oldest
<1> HIDE DEF l
<1>4. \A j \in 1..l : ~(j \in 1..k) <=> j \in (k + 1)..l
  BY <1>1
<1>5. 1..k \subseteq 1..l /\ (k + 1)..l \subseteq 1..l
  BY <1>1
<1>6. Distinct(m)
  BY <1>2, <1>3, <1>5 DEF Distinct
<1>7. Behind(n, k) \subseteq Ents(n)
  BY <1>3, <1>5
<1>8. ASSUME NEW c \in Ents(m) PROVE c \in Ents(n) /\ c \notin Behind(n, k)
  <2>1. PICK j \in 1..k : c = n.blocks[j].ent
    BY <1>2, <1>3
  <2>2. c \in Ents(n)
    BY <2>1, <1>3, <1>5
  <2>3. ASSUME NEW i \in (k + 1)..l, c = n.blocks[i].ent PROVE FALSE
    <3>1. i = j
      BY <2>1, <2>3, <1>2, <1>5
    <3> QED BY <3>1, <1>1
  <2> QED BY <2>2, <2>3, <1>3
<1>9. ASSUME NEW c \in Ents(n), c \notin Behind(n, k) PROVE c \in Ents(m)
  <2>1. PICK j \in 1..l : c = n.blocks[j].ent
    BY <1>3
  <2>2. j \in 1..k
    BY <2>1, <1>9, <1>3, <1>4
  <2> QED BY <2>1, <2>2, <1>2, <1>3
<1> QED BY <1>6, <1>7, <1>8, <1>9

-----------------------------------------------------------------------------
(* Nodes the code can go on with.                                           *)

(* The newest block is filled, at an index inside it or at its end, and slot
   0 of every block holds a record.                                         *)
Usable(n) ==
    /\ \E E : n \in NodeOver(E)
    /\ Len(n.blocks) \in Nat \ {0}
    /\ n.recModEntry = Len(n.blocks)
    /\ n.memRecIdx \in 0..MEMRECPERENTRY
    /\ \A j \in 1..Len(n.blocks) : At(n, j, 0) \in Rec

(* What TypeOK asks of a node, whatever its blocks are: the filled one may be
   any of the list.                                                         *)
Formed(n) ==
    /\ \E E : n \in NodeOver(E)
    /\ Len(n.blocks) \in Nat \ {0}
    /\ n.recModEntry \in 1..Len(n.blocks)
    /\ n.memRecIdx \in 0..MEMRECPERENTRY

LEMMA UsableFormed == ASSUME NEW n, Usable(n) PROVE Formed(n)
  BY DEF Usable, Formed

(* A record in a block with room.                                           *)
LEMMA InPlaceFormed ==
    ASSUME NEW n, NEW r \in Rec, Formed(n), ~NeedsBlock(n)
    PROVE  LET m == WriteRec(n, r, Unset)
           IN  /\ Formed(m) /\ (Usable(n) => Usable(m))
               /\ Len(m.blocks) = Len(n.blocks)
               /\ \A j \in 1..Len(n.blocks) : m.blocks[j].ent = n.blocks[j].ent
<1> DEFINE m == WriteRec(n, r, Unset)
<1>1. PICK E : n \in NodeOver(E)
  BY DEF Formed
<1>2. /\ Len(n.blocks) \in Nat \ {0} /\ n.recModEntry \in 1..Len(n.blocks)
      /\ n.memRecIdx \in Slots /\ n.memRecIdx + 1 \in 0..MEMRECPERENTRY
      /\ 0 \in Slots
  BY MemRecPerEntryAssumption DEF Formed, NeedsBlock, Slots
<1>3. /\ m \in NodeOver(E)
      /\ Len(m.blocks) = Len(n.blocks)
      /\ m.recModEntry = n.recModEntry
      /\ m.memRecIdx = n.memRecIdx + 1
      /\ \A j \in 1..Len(n.blocks) : m.blocks[j].ent = n.blocks[j].ent
      /\ \A j \in 1..Len(n.blocks), i \in Slots :
            At(m, j, i) = IF j = n.recModEntry /\ i = n.memRecIdx
                          THEN r ELSE At(n, j, i)
  BY <1>1, <1>2, WriteInPlaceEffect
<1> HIDE DEF m
<1>4. Formed(m)
  BY <1>2, <1>3 DEF Formed
<1>5. ASSUME Usable(n) PROVE Usable(m)
  <2>1. \A j \in 1..Len(n.blocks) : At(m, j, 0) \in Rec
    BY <1>2, <1>3, <1>5 DEF Usable
  <2>2. n.recModEntry = Len(n.blocks)
    BY <1>5 DEF Usable
  <2> QED BY <1>2, <1>3, <2>1, <2>2 DEF Usable
<1> QED BY <1>3, <1>4, <1>5 DEF m

(* A record at the end of a full block.                                     *)
LEMMA NewBlockFormed ==
    ASSUME NEW n, NEW r \in Rec, NEW e, Formed(n), NeedsBlock(n)
    PROVE  LET m == WriteRec(n, r, e)
           IN  Formed(m) /\ (Usable(n) => Usable(m))
<1> DEFINE m == WriteRec(n, r, e)
           l == Len(n.blocks)
<1>1. PICK E : n \in NodeOver(E)
  BY DEF Formed
<1>2. /\ m \in NodeOver(E \cup {e})
      /\ Len(m.blocks) = l + 1
      /\ m.recModEntry = l + 1
      /\ m.memRecIdx = 1
      /\ At(m, l + 1, 0) = r
      /\ \A j \in 1..l, i \in Slots : At(m, j, i) = At(n, j, i)
  <2>1. /\ m \in NodeOver(E \cup {e}) /\ Len(m.blocks) = Len(n.blocks) + 1
        /\ m.recModEntry = Len(n.blocks) + 1 /\ m.memRecIdx = 1
        /\ At(m, Len(n.blocks) + 1, 0) = r
        /\ \A j \in 1..Len(n.blocks), i \in Slots : At(m, j, i) = At(n, j, i)
    BY <1>1, WriteInNewBlockEffect, SMTT(60)
  <2> HIDE DEF m
  <2> QED BY <2>1
<1>3. l \in Nat \ {0} /\ 0 \in Slots /\ 1 \in 0..MEMRECPERENTRY
  BY MemRecPerEntryAssumption DEF Formed, Slots
<1>4. Usable(n) => \A j \in 1..l : At(n, j, 0) \in Rec
  BY DEF Usable
<1> HIDE DEF m, l
<1>5. Formed(m)
  BY <1>2, <1>3 DEF Formed
<1>6. ASSUME Usable(n) PROVE Usable(m)
  <2>1. \A j \in 1..(l + 1) : j \in 1..l \/ j = l + 1
    BY <1>3
  <2>2. \A j \in 1..(l + 1) : At(m, j, 0) \in Rec
    BY <1>2, <1>3, <1>4, <1>6, <2>1
  <2> QED BY <1>2, <1>3, <2>2 DEF Usable
<1> QED BY <1>5, <1>6 DEF m

(* The first record of a one-block list filled from slot 0: of a new node, or
   of one cut back.                                                         *)
LEMMA FirstUsable ==
    ASSUME NEW E, NEW n \in NodeOver(E), NEW r \in Rec,
           Len(n.blocks) = 1, n.recModEntry = 1, n.memRecIdx = 0
    PROVE  LET m == WriteRec(n, r, Unset)
           IN  Usable(m) /\ Distinct(m) /\ Ents(m) = {n.blocks[1].ent}
<1> DEFINE m == WriteRec(n, r, Unset)
<1>1. /\ n.memRecIdx \in Slots /\ 0 \in Slots /\ 1 \in 0..MEMRECPERENTRY
      /\ n.recModEntry \in 1..Len(n.blocks)
  BY MemRecPerEntryAssumption DEF Slots
<1>2. /\ m \in NodeOver(E)
      /\ Len(m.blocks) = Len(n.blocks)
      /\ m.recModEntry = n.recModEntry
      /\ m.memRecIdx = n.memRecIdx + 1
      /\ \A j \in 1..Len(n.blocks) : m.blocks[j].ent = n.blocks[j].ent
      /\ \A j \in 1..Len(n.blocks), i \in Slots :
            At(m, j, i) = IF j = n.recModEntry /\ i = n.memRecIdx
                          THEN r ELSE At(n, j, i)
  BY <1>1, WriteInPlaceEffect
<1> HIDE DEF m
<1>3. 1..1 = {1}
  OBVIOUS
<1>4. At(m, 1, 0) = r
  BY <1>1, <1>2, <1>3
<1>5. Usable(m)
  BY <1>1, <1>2, <1>3, <1>4 DEF Usable
<1>6. Distinct(m) /\ Ents(m) = {n.blocks[1].ent}
  BY <1>2, <1>3 DEF Distinct, Ents
<1> QED BY <1>5, <1>6 DEF m

(* The node of a page that enters the tree.                                 *)
LEMMA NewNodeUsable ==
    ASSUME NEW e, NEW r \in Rec
    PROVE  LET m == WriteRec(NewNode(e), r, Unset)
           IN  Usable(m) /\ Distinct(m) /\ Ents(m) = {e}
<1> DEFINE n == NewNode(e)
<1>1. n.blocks[1].ent = e
  BY DEF NewNode, NewBlock
<1>2. /\ n \in NodeOver({e}) /\ Len(n.blocks) = 1
      /\ n.recModEntry = 1 /\ n.memRecIdx = 0
  BY NewNodeEffect
<1> HIDE DEF n
<1>3. LET m == WriteRec(n, r, Unset)
      IN  Usable(m) /\ Distinct(m) /\ Ents(m) = {n.blocks[1].ent}
  BY <1>2, FirstUsable
<1> QED BY <1>1, <1>3 DEF n

(* A node cut back.                                                         *)
LEMMA RestartUsable ==
    ASSUME NEW n, NEW r \in Rec, Formed(n)
    PROVE  LET m == WriteRec(Restart(n), r, Unset)
           IN  Usable(m) /\ Distinct(m) /\ Ents(m) = {n.blocks[1].ent}
<1>1. PICK E : n \in NodeOver(E)
  BY DEF Formed
<1>2. Len(n.blocks) \in Nat \ {0}
  BY DEF Formed
<1>3. Restart(n).blocks[1] = n.blocks[1]
  BY DEF Restart
<1> QED BY <1>1, <1>2, <1>3, RestartEffect, FirstUsable

(* What insertRec makes of the node of a traced page.                       *)
Became(n, m, r) ==
    \/ m = WriteRec(Restart(n), r, Unset)
    \/ NeedsBlock(n) /\ \E e : m = WriteRec(n, r, e)
    \/ ~NeedsBlock(n) /\ m = WriteRec(n, r, Unset)

LEMMA BecameFormed ==
    ASSUME NEW n, NEW m, NEW r \in Rec, Formed(n), Became(n, m, r)
    PROVE  Formed(m) /\ (Usable(n) => Usable(m))
<1>1. CASE m = WriteRec(Restart(n), r, Unset)
  BY <1>1, RestartUsable, UsableFormed
<1>2. CASE NeedsBlock(n) /\ \E e : m = WriteRec(n, r, e)
  BY <1>2, NewBlockFormed
<1>3. CASE ~NeedsBlock(n) /\ m = WriteRec(n, r, Unset)
  BY <1>3, InPlaceFormed
<1> QED BY <1>1, <1>2, <1>3 DEF Became

-----------------------------------------------------------------------------
(* The compaction loop.  `keep` never overtakes `search`.  That is not plain:
   when both have reached the last block, each has the last index it was
   given on entering it, and the index the node has is set by the turns in
   between.  Were `keep` to leave the list first, the next record of an
   unmapped file would make recModEntry point behind the newest block.      *)

Cursor == [block : Int, idx : Int, max : Int]

\* A cursor in a list of l blocks, or just behind it.
Within(l, c) ==
    /\ c.block \in 1..(l + 1)
    /\ c.idx \in 0..(MEMRECPERENTRY - 1)
    /\ c.max \in (-1)..(MEMRECPERENTRY - 1)
    /\ c.block < l => c.max = MEMRECPERENTRY - 1

(* k is where f is or behind it, and will not leave a block first.  In the
   last block that needs what k has left to be no less than what f has,
   unless fd, the file of the block's first record, is mapped: then k stays. *)
Trails(l, fd, open, k, f) ==
    /\ k.block <= f.block
    /\ k.block = f.block /\ k.block < l => k.idx <= f.idx
    /\ k.block = l /\ f.block = l => fd \in open \/ f.max - f.idx <= k.max - k.idx

(* A cursor moves within its block, or to the start of the next.            *)
LEMMA CursorMoves ==
    ASSUME NEW n, NEW l, l \in Nat \ {0}, Len(n.blocks) = l,
           n.memRecIdx \in 0..MEMRECPERENTRY,
           NEW c \in Cursor, Within(l, c), c.block <= l
    PROVE  LET d == NextCursor(n, c)
           IN  /\ d \in Cursor /\ Within(l, d)
               /\ \/ /\ c.idx < c.max /\ d.block = c.block
                     /\ d.idx = c.idx + 1 /\ d.max = c.max
                  \/ /\ c.idx >= c.max /\ d.block = c.block + 1 /\ d.idx = 0
                     /\ d.block < l => d.max = MEMRECPERENTRY - 1
                     /\ d.block = l => d.max = n.memRecIdx - 1
<1> DEFINE d == NextCursor(n, c)
           last == LastSlot(n, c.block + 1)
<1>1. /\ c = [block |-> c.block, idx |-> c.idx, max |-> c.max]
      /\ c.block \in Int /\ c.idx \in Int /\ c.max \in Int
  BY DEF Cursor
<1>2. /\ c.block \in 1..(l + 1) /\ c.idx \in 0..(MEMRECPERENTRY - 1)
      /\ c.max \in (-1)..(MEMRECPERENTRY - 1)
      /\ c.block < l => c.max = MEMRECPERENTRY - 1
  BY DEF Within
<1>3. MEMRECPERENTRY \in Nat \ {0}
  BY MemRecPerEntryAssumption
<1>4. CASE c.idx < c.max
  <2>1. d = [block |-> c.block, idx |-> c.idx + 1, max |-> c.max]
    BY <1>1, <1>4 DEF NextCursor
  <2>2. c.idx + 1 \in 0..(MEMRECPERENTRY - 1)
    BY <1>2, <1>3, <1>4
  <2> HIDE DEF d
  <2>3. /\ d.block = c.block /\ d.idx = c.idx + 1 /\ d.max = c.max
        /\ d \in Cursor
    BY <1>1, <2>1 DEF Cursor
  <2>4. Within(l, d)
    BY <1>2, <2>2, <2>3 DEF Within
  <2> QED BY <1>4, <2>3, <2>4 DEF d
<1>5. CASE ~(c.idx < c.max)
  <2>1. d = [block |-> c.block + 1, idx |-> 0, max |-> last]
    BY <1>5 DEF NextCursor
  <2>2. /\ c.block + 1 < l => last = MEMRECPERENTRY - 1
        /\ ~(c.block + 1 < l) => last = n.memRecIdx - 1
    BY DEF LastSlot
  <2>3. last \in (-1)..(MEMRECPERENTRY - 1)
    BY <1>2, <1>3, <2>2
  <2> HIDE DEF d, last
  <2>4. /\ d.block = c.block + 1 /\ d.idx = 0 /\ d.max = last
    BY <2>1
  <2>5. d \in Cursor
    BY <1>1, <2>1, <2>3, <1>3 DEF Cursor
  <2>6. Within(l, d)
    BY <1>2, <1>3, <2>2, <2>3, <2>4 DEF Within
  <2>7. c.idx >= c.max
    BY <1>1, <1>5
  <2>8. d.block = l => d.max = n.memRecIdx - 1
    BY <2>2, <2>4, <1>1
  <2>9. d.block < l => d.max = MEMRECPERENTRY - 1
    BY <2>2, <2>4
  <2> QED BY <2>4, <2>5, <2>6, <2>7, <2>8, <2>9 DEF d
<1> QED BY <1>4, <1>5

(* Both cursors move: after a record of an unmapped file, whose index the
   node then has, or one of a mapped file moved down to `keep`.             *)
LEMMA BothTrail ==
    ASSUME NEW n, NEW l, l \in Nat \ {0}, Len(n.blocks) = l,
           n.memRecIdx \in 0..MEMRECPERENTRY,
           NEW k \in Cursor, NEW f \in Cursor, Within(l, k), Within(l, f),
           NEW fd, NEW open, Trails(l, fd, open, k, f), f.block <= l,
           f.block = l /\ k.block < l => fd \in open \/ n.memRecIdx = k.idx,
           f.block = l /\ k.block = l => fd \notin open
    PROVE  Trails(l, fd, open, NextCursor(n, k), NextCursor(n, f))
<1> DEFINE K == NextCursor(n, k)
           F == NextCursor(n, f)
<1>0. /\ k.block \in Int /\ k.idx \in Int /\ k.max \in Int
      /\ f.block \in Int /\ f.idx \in Int /\ f.max \in Int
      /\ k.block <= l
  BY DEF Cursor, Trails
<1>1. \/ /\ k.idx < k.max /\ K.block = k.block
         /\ K.idx = k.idx + 1 /\ K.max = k.max
      \/ /\ k.idx >= k.max /\ K.block = k.block + 1 /\ K.idx = 0
         /\ K.block < l => K.max = MEMRECPERENTRY - 1
         /\ K.block = l => K.max = n.memRecIdx - 1
  BY <1>0, CursorMoves
<1>2. \/ /\ f.idx < f.max /\ F.block = f.block
         /\ F.idx = f.idx + 1 /\ F.max = f.max
      \/ /\ f.idx >= f.max /\ F.block = f.block + 1 /\ F.idx = 0
         /\ F.block < l => F.max = MEMRECPERENTRY - 1
         /\ F.block = l => F.max = n.memRecIdx - 1
  BY CursorMoves
<1>3. /\ k.block < l => k.max = MEMRECPERENTRY - 1
      /\ f.block < l => f.max = MEMRECPERENTRY - 1
      /\ k.idx \in 0..(MEMRECPERENTRY - 1) /\ f.idx \in 0..(MEMRECPERENTRY - 1)
      /\ f.max \in (-1)..(MEMRECPERENTRY - 1)
      /\ MEMRECPERENTRY \in Nat \ {0}
  BY MemRecPerEntryAssumption DEF Within
<1>4. /\ k.block <= f.block
      /\ k.block = f.block /\ k.block < l => k.idx <= f.idx
      /\ k.block = l /\ f.block = l
           => fd \in open \/ f.max - f.idx <= k.max - k.idx
  BY DEF Trails
<1> HIDE DEF K, F
<1>5. K.block <= F.block
  <2>1. K.block <= k.block + 1 /\ f.block <= F.block
    BY <1>0, <1>1, <1>2
  <2>2. CASE k.block < f.block
    BY <2>1, <2>2, <1>0, <1>1, <1>2
  <2>3. CASE k.block = f.block /\ k.idx < k.max
    BY <2>3, <1>0, <1>1, <1>2
  <2>4. CASE k.block = f.block /\ k.idx >= k.max
    <3>1. f.idx >= f.max
      <4>1. CASE k.block < l
        BY <4>1, <2>4, <1>0, <1>3, <1>4
      <4>2. CASE k.block = l
        BY <4>2, <2>4, <1>0, <1>4
      <4> QED BY <4>1, <4>2, <1>0
    <3> QED BY <3>1, <2>4, <1>0, <1>1, <1>2
  <2> QED BY <2>2, <2>3, <2>4, <1>0, <1>4
<1>6. K.block = F.block /\ K.block < l => K.idx <= F.idx
  <2> SUFFICES ASSUME K.block = F.block, K.block < l PROVE K.idx <= F.idx
    OBVIOUS
  <2>1. CASE k.idx >= k.max
    <3>1. K.idx = 0
      BY <2>1, <1>0, <1>1
    <3>2. F.idx \in Nat
      BY <1>2, <1>3
    <3> QED BY <3>1, <3>2
  <2>2. CASE k.idx < k.max
    <3>1. K.block = k.block /\ K.idx = k.idx + 1 /\ k.block < l
      BY <2>2, <1>0, <1>1
    <3>2. F.block = f.block /\ F.idx = f.idx + 1
      BY <3>1, <1>0, <1>2, <1>4
    <3>3. k.block = f.block
      BY <3>1, <3>2
    <3>4. k.idx <= f.idx
      BY <3>1, <3>3, <1>4
    <3> QED BY <3>1, <3>2, <3>4, <1>0
  <2> QED BY <2>1, <2>2, <1>0
<1>7. K.block = l /\ F.block = l
        => fd \in open \/ F.max - F.idx <= K.max - K.idx
  <2> SUFFICES ASSUME K.block = l, F.block = l, fd \notin open
               PROVE  F.max - F.idx <= K.max - K.idx
    OBVIOUS
  <2>1. CASE k.block = l
    <3>1. f.block = l /\ k.block # l - 1 /\ f.block # l - 1
      BY <2>1, <1>0, <1>4
    <3>2. K.idx = k.idx + 1 /\ K.max = k.max
      BY <1>1, <2>1, <1>0
    <3>3. F.idx = f.idx + 1 /\ F.max = f.max
      BY <1>2, <3>1, <1>0
    <3>4. f.max - f.idx <= k.max - k.idx
      BY <2>1, <3>1, <1>4
    <3>5. f.max - (f.idx + 1) <= k.max - (k.idx + 1)
      BY <3>4, <1>0
    <3> QED BY <3>2, <3>3, <3>5
  <2>2. CASE k.block < l
    <3>1. K.idx = 0 /\ K.max = n.memRecIdx - 1
      BY <2>2, <1>0, <1>1
    <3>2. CASE f.block = l
      <4>1. F.max = f.max /\ F.idx = f.idx + 1 /\ f.idx >= 0
        BY <3>2, <1>0, <1>2, <1>3
      <4>2. n.memRecIdx = k.idx /\ k.idx <= MEMRECPERENTRY - 1
        BY <2>2, <3>2, <1>3
      <4>3. k.idx = MEMRECPERENTRY - 1
        BY <2>2, <4>2, <1>0, <1>1, <1>3
      <4> QED BY <3>1, <4>1, <4>2, <4>3, <1>0, <1>3
    <3>3. CASE f.block # l
      <4>1. F.idx = 0 /\ F.max = n.memRecIdx - 1
        BY <3>3, <1>0, <1>2
      <4> QED BY <3>1, <4>1
    <3> QED BY <3>2, <3>3
  <2> QED BY <2>1, <2>2, <1>0
<1> QED BY <1>5, <1>6, <1>7 DEF Trails, K, F

(* Only `search` moves: from a record of a mapped file that stays.          *)
LEMMA SearchLeads ==
    ASSUME NEW n, NEW l, l \in Nat \ {0}, Len(n.blocks) = l,
           n.memRecIdx \in 0..MEMRECPERENTRY,
           NEW k \in Cursor, NEW f \in Cursor, Within(l, k), Within(l, f),
           NEW fd, NEW open, Trails(l, fd, open, k, f), f.block <= l,
           k.block = f.block, f.block = l => fd \in open
    PROVE  Trails(l, fd, open, k, NextCursor(n, f))
<1> DEFINE F == NextCursor(n, f)
<1>0. /\ k.block \in Int /\ k.idx \in Int /\ k.max \in Int
      /\ f.block \in Int /\ f.idx \in Int /\ f.max \in Int
  BY DEF Cursor
<1>2. \/ /\ f.idx < f.max /\ F.block = f.block
         /\ F.idx = f.idx + 1 /\ F.max = f.max
      \/ F.block = f.block + 1
  BY CursorMoves
<1>4. /\ k.block <= f.block
      /\ k.block = f.block /\ k.block < l => k.idx <= f.idx
  BY DEF Trails
<1> HIDE DEF F
<1> QED BY <1>0, <1>2, <1>4 DEF Trails, F

\* The states of the loop on a node over E.
LoopStates(E) == [node : NodeOver(E), keep : Cursor, search : Cursor]

\* What the turns leave of the node: the blocks, each with a record in slot 0.
Swept(node, n) ==
    /\ Len(n.blocks) = Len(node.blocks)
    /\ n.recModEntry \in 1..Len(node.blocks)
    /\ n.memRecIdx \in 0..MEMRECPERENTRY
    /\ \A j \in 1..Len(node.blocks) :
          n.blocks[j].ent = node.blocks[j].ent /\ At(n, j, 0) \in Rec

\* The invariant of the loop.
LoopInv(node, open, s) ==
    LET l == Len(node.blocks)
    IN  /\ Swept(node, s.node)
        /\ Within(l, s.keep) /\ Within(l, s.search)
        /\ Trails(l, At(s.node, l, 0).fd, open, s.keep, s.search)

(* Both cursors start at the oldest block.                                  *)
LEMMA SweepStarts ==
    ASSUME NEW E, NEW node \in NodeOver(E), Usable(node), NEW open
    PROVE  /\ SweepStart(node) \in LoopStates(E)
           /\ LoopInv(node, open, SweepStart(node))
<1> DEFINE l == Len(node.blocks)
           last == LastSlot(node, 1)
           c == [block |-> 1, idx |-> 0, max |-> last]
           s == SweepStart(node)
<1>1. /\ l \in Nat \ {0} /\ node.recModEntry = l
      /\ node.memRecIdx \in 0..MEMRECPERENTRY
      /\ \A j \in 1..l : At(node, j, 0) \in Rec
  BY DEF Usable
<1>2. MEMRECPERENTRY \in Nat \ {0}
  BY MemRecPerEntryAssumption
<1>3. s = [node |-> node, keep |-> c, search |-> c]
  BY DEF SweepStart
<1>4. Swept(node, node)
  BY <1>1 DEF Swept
<1>5. /\ last \in (-1)..(MEMRECPERENTRY - 1)
      /\ 1 < l => last = MEMRECPERENTRY - 1
  BY <1>1, <1>2 DEF LastSlot
<1> HIDE DEF last, l, s
<1>6. /\ c.block = 1 /\ c.idx = 0 /\ c.max = last
  OBVIOUS
<1>7. c \in Cursor
  BY <1>2, <1>5 DEF Cursor
<1> HIDE DEF c
<1>8. Within(l, c)
  BY <1>1, <1>2, <1>5, <1>6 DEF Within
<1>9. Trails(l, At(node, l, 0).fd, open, c, c)
  BY <1>5, <1>6 DEF Trails
<1>10. s.node = node /\ s.keep = c /\ s.search = c
  BY <1>3
<1>11. s \in LoopStates(E)
  BY <1>3, <1>7 DEF LoopStates
<1> QED BY <1>4, <1>8, <1>9, <1>10, <1>11 DEF LoopInv, s, l

(* A turn of the loop.                                                      *)
LEMMA SweepTurns ==
    ASSUME NEW E, NEW node \in NodeOver(E), Usable(node), NEW open,
           NEW s \in LoopStates(E), LoopInv(node, open, s), ~AtEnd(s)
    PROVE  /\ SweepStep(s, open) \in LoopStates(E)
           /\ LoopInv(node, open, SweepStep(s, open))
<1> DEFINE l == Len(node.blocks)
           n == s.node
           k == s.keep
           f == s.search
           found == At(n, f.block, 0)
           t == SweepStep(s, open)
<1>1. /\ n \in NodeOver(E) /\ k \in Cursor /\ f \in Cursor
      /\ s = [node |-> n, keep |-> k, search |-> f]
  BY DEF LoopStates
<1>2. /\ Len(n.blocks) = l
      /\ n.recModEntry \in 1..l /\ n.memRecIdx \in 0..MEMRECPERENTRY
      /\ \A j \in 1..l : n.blocks[j].ent = node.blocks[j].ent /\ At(n, j, 0) \in Rec
  BY DEF LoopInv, Swept
<1>3. /\ Within(l, k) /\ Within(l, f)
      /\ Trails(l, At(n, l, 0).fd, open, k, f)
  BY DEF LoopInv
<1>4. l \in Nat \ {0} /\ MEMRECPERENTRY \in Nat \ {0} /\ 0 \in Slots /\ l \in 1..l
  BY MemRecPerEntryAssumption DEF Usable, Slots
<1>5. f.block \in 1..l /\ k.block \in 1..l /\ k.idx \in 0..MEMRECPERENTRY
      /\ k.idx \in Int
  <2>1. ~(f.block > l) /\ f.block \in Int /\ k.block \in Int
    BY <1>1, <1>2 DEF AtEnd, Cursor
  <2>2. f.block \in 1..(l + 1) /\ k.block \in 1..(l + 1) /\ k.block <= f.block
        /\ k.idx \in 0..(MEMRECPERENTRY - 1)
    BY <1>3 DEF Within, Trails
  <2> HIDE DEF l, k, f
  <2> QED BY <2>1, <2>2, <1>4
<1>6. found \in Rec
  BY <1>2, <1>5
<1> DEFINE Moved(m) == [node |-> m, keep |-> NextCursor(m, k),
                        search |-> NextCursor(m, f)]
           cut == [n EXCEPT !.recModEntry = k.block, !.memRecIdx = k.idx]
           put == Written(n, k.block, 0, found)
<1>7. /\ found.fd \notin open => t = Moved(cut)
      /\ found.fd \in open /\ k.block # f.block => t = Moved(put)
      /\ found.fd \in open /\ k.block = f.block
           => t = [node |-> n, keep |-> k, search |-> NextCursor(n, f)]
  BY <1>1 DEF SweepStep, At, Written
<1> HIDE DEF t
<1>8. ASSUME NEW m, m \in NodeOver(E), Swept(node, m),
             At(m, l, 0).fd = At(n, l, 0).fd,
             f.block = l /\ k.block < l
               => At(n, l, 0).fd \in open \/ m.memRecIdx = k.idx,
             f.block = l /\ k.block = l => At(n, l, 0).fd \notin open,
             t = Moved(m)
      PROVE  t \in LoopStates(E) /\ LoopInv(node, open, t)
  <2> DEFINE K == NextCursor(m, k)
             F == NextCursor(m, f)
  <2>1. Len(m.blocks) = l /\ m.memRecIdx \in 0..MEMRECPERENTRY
    BY <1>8 DEF Swept
  <2>2. f.block <= l /\ k.block <= l
    BY <1>5
  <2> HIDE DEF l, k, f, n, Moved
  <2>3. K \in Cursor /\ Within(l, K) /\ F \in Cursor /\ Within(l, F)
    BY <1>1, <1>3, <1>4, <2>1, <2>2, CursorMoves
  <2>4. Trails(l, At(n, l, 0).fd, open, K, F)
    BY <1>1, <1>3, <1>4, <1>8, <2>1, <2>2, BothTrail
  <2>5. t = [node |-> m, keep |-> K, search |-> F]
    BY <1>8 DEF Moved
  <2> HIDE DEF K, F
  <2>6. t \in LoopStates(E)
    BY <1>8, <2>3, <2>5 DEF LoopStates
  <2>7. t.node = m /\ t.keep = K /\ t.search = F
    BY <2>5
  <2> QED BY <1>8, <2>3, <2>4, <2>6, <2>7 DEF LoopInv, l
<1>9. ASSUME found.fd \notin open
      PROVE  t \in LoopStates(E) /\ LoopInv(node, open, t)
  <2>1. t = Moved(cut)
    BY <1>7, <1>9
  <2>2. /\ cut \in NodeOver(E)
        /\ cut.blocks = n.blocks /\ cut.recModEntry = k.block
        /\ cut.memRecIdx = k.idx
    <3>1. k.block \in Int
      BY <1>1 DEF Cursor
    <3> HIDE DEF n, k
    <3> QED BY <3>1, <1>1, <1>5 DEF NodeOver
  <2>3. Swept(node, cut)
    <3> HIDE DEF cut, n, k
    <3> QED BY <1>2, <1>5, <2>2 DEF Swept, At
  <2>4. At(cut, l, 0).fd = At(n, l, 0).fd
    BY <2>2 DEF At
  <2>5. f.block = l => At(n, l, 0).fd \notin open
    BY <1>9
  <2> HIDE DEF cut, Moved, n, k, f, l
  <2> QED BY <1>8, <2>1, <2>2, <2>3, <2>4, <2>5
<1>10. ASSUME found.fd \in open, k.block # f.block
       PROVE  t \in LoopStates(E) /\ LoopInv(node, open, t)
  <2>1. t = Moved(put)
    BY <1>7, <1>10
  <2>2. k.block # l
    <3>1. k.block <= f.block
      BY <1>3 DEF Trails
    <3> HIDE DEF k, f, l
    <3> QED BY <3>1, <1>4, <1>5, <1>10
  <2> HIDE DEF k, f, n, found
  <2>3. /\ put \in NodeOver(E) /\ Len(put.blocks) = l
        /\ put.recModEntry = n.recModEntry /\ put.memRecIdx = n.memRecIdx
        /\ \A j \in 1..l : put.blocks[j].ent = n.blocks[j].ent
        /\ \A j \in 1..l, i \in Slots :
              At(put, j, i) = IF j = k.block /\ i = 0 THEN found ELSE At(n, j, i)
    <3>1. k.block \in 1..Len(n.blocks) /\ Len(n.blocks) = l
      BY <1>2, <1>5
    <3> HIDE DEF l
    <3>2. /\ put \in NodeOver(E) /\ Len(put.blocks) = Len(n.blocks)
          /\ put.recModEntry = n.recModEntry /\ put.memRecIdx = n.memRecIdx
          /\ \A j \in 1..Len(n.blocks) : put.blocks[j].ent = n.blocks[j].ent
          /\ \A j \in 1..Len(n.blocks), i \in Slots :
                At(put, j, i)
                  = IF j = k.block /\ i = 0 THEN found ELSE At(n, j, i)
      <4>1. n \in NodeOver(E) /\ found \in Rec /\ 0 \in Slots
        BY <1>1, <1>4, <1>6
      <4> QED BY <3>1, <4>1, SlotWritten
    <3> HIDE DEF put
    <3> QED BY <3>1, <3>2
  <2> HIDE DEF put
  <2>4. \A j \in 1..l : At(put, j, 0) \in Rec
    BY <2>3, <1>2, <1>4, <1>6
  <2>5. Swept(node, put)
    <3>1. \A j \in 1..l : put.blocks[j].ent = node.blocks[j].ent
      BY <2>3, <1>2
    <3> QED BY <2>3, <2>4, <3>1, <1>2 DEF Swept
  <2>6. At(put, l, 0).fd = At(n, l, 0).fd
    BY <2>2, <2>3, <1>4
  <2>7. f.block = l => At(n, l, 0).fd \in open
    BY <1>10 DEF found
  <2> HIDE DEF Moved, l
  <2> QED BY <1>8, <2>1, <2>2, <2>3, <2>5, <2>6, <2>7
<1>11. ASSUME found.fd \in open, k.block = f.block
       PROVE  t \in LoopStates(E) /\ LoopInv(node, open, t)
  <2> DEFINE F == NextCursor(n, f)
  <2>1. t = [node |-> n, keep |-> k, search |-> F]
    BY <1>7, <1>11
  <2>2. f.block = l => At(n, l, 0).fd \in open
    BY <1>11
  <2>3. Swept(node, n)
    BY DEF LoopInv
  <2>4. f.block <= l
    BY <1>5
  <2> HIDE DEF l, k, f, n
  <2>5. F \in Cursor /\ Within(l, F)
    BY <1>1, <1>2, <1>3, <1>4, <2>4, CursorMoves
  <2>6. Trails(l, At(n, l, 0).fd, open, k, F)
    BY <1>1, <1>2, <1>3, <1>4, <1>11, <2>2, <2>4, SearchLeads
  <2> HIDE DEF F
  <2>7. t \in LoopStates(E)
    BY <1>1, <2>1, <2>5 DEF LoopStates
  <2>8. t.node = n /\ t.keep = k /\ t.search = F
    BY <2>1
  <2> QED BY <1>3, <2>3, <2>5, <2>6, <2>7, <2>8 DEF LoopInv, l
<1> QED BY <1>9, <1>10, <1>11 DEF t

\* F gives the state after each of the first turns of the loop.
Runs(node, open, turns, F) ==
    F = [n \in 0..turns |->
           IF n = 0 THEN SweepStart(node)
           ELSE LET s == F[n - 1]
                IN  IF AtEnd(s) THEN s ELSE SweepStep(s, open)]

(* The loop runs: its states after k turns determine the one after k + 1.   *)
LEMMA LoopRuns ==
    ASSUME NEW node, NEW open, NEW turns \in Nat
    PROVE  \E F : Runs(node, open, turns, F)
<1> DEFINE Turn(F, n) == IF n = 0 THEN SweepStart(node)
                         ELSE LET s == F[n - 1]
                              IN  IF AtEnd(s) THEN s ELSE SweepStep(s, open)
           Right(F, k) == \A n \in 0..turns : n < k => F[n] = Turn(F, n)
           S == {k \in Nat : \E F : Right(F, k)}
<1>1. 0 \in S
  BY DEF Right
<1>2. ASSUME NEW k \in Nat, k \in S PROVE k + 1 \in S
  <2>1. PICK F : Right(F, k)
    BY <1>2
  <2> DEFINE G == [n \in 0..turns |-> Turn(F, n)]
  <2>2. ASSUME NEW n \in 0..turns, n < k + 1 PROVE G[n] = Turn(G, n)
    <3>1. CASE n = 0
      BY <3>1
    <3>2. CASE n # 0
      <4>1. n - 1 \in 0..turns /\ n - 1 < k
        BY <2>2, <3>2
      <4>2. F[n - 1] = Turn(F, n - 1)
        BY <2>1, <4>1
      <4>3. G[n - 1] = F[n - 1]
        BY <4>1, <4>2
      <4> HIDE DEF G
      <4>4. Turn(G, n) = Turn(F, n)
        BY <3>2, <4>3
      <4> QED BY <4>4 DEF G
    <3> QED BY <3>1, <3>2
  <2>3. Right(G, k + 1)
    BY <2>2
  <2>4. \E H : Right(H, k + 1)
    <3> HIDE DEF G, Right
    <3> QED BY <2>3
  <2> QED BY <2>4
<1>3. turns + 1 \in S
  <2> HIDE DEF S
  <2> QED BY <1>1, <1>2, SetInduction
<1>4. PICK F : Right(F, turns + 1)
  BY <1>3
<1> DEFINE G == [n \in 0..turns |-> F[n]]
<1>5. ASSUME NEW n \in 0..turns PROVE F[n] = Turn(G, n)
  <2>1. F[n] = Turn(F, n)
    BY <1>4
  <2>2. CASE n = 0
    BY <2>1, <2>2
  <2>3. CASE n # 0
    <3>1. n - 1 \in 0..turns
      BY <2>3
    <3>2. G[n - 1] = F[n - 1]
      BY <3>1
    <3> HIDE DEF G
    <3> QED BY <2>1, <2>3, <3>2
  <2> QED BY <2>2, <2>3
<1>6. G = [n \in 0..turns |-> Turn(G, n)]
  <2> HIDE DEF Turn
  <2> QED BY <1>5
<1>7. Runs(node, open, turns, G)
  <2> HIDE DEF G
  <2> QED BY <1>6 DEF Runs
<1> HIDE DEF G
<1> QED BY <1>7

(* What SweepEnd is.                                                        *)
LEMMA SweepEndRuns ==
    ASSUME NEW node, NEW open, NEW turns \in Nat,
           turns = MEMRECPERENTRY * Len(node.blocks)
    PROVE  \E F : Runs(node, open, turns, F) /\ SweepEnd(node, open) = F[turns].node
<1> DEFINE After == CHOOSE F : Runs(node, open, turns, F)
<1>1. Runs(node, open, turns, After)
  BY LoopRuns
<1>2. SweepEnd(node, open) = After[turns].node
  BY DEF SweepEnd, Runs
<1> QED BY <1>1, <1>2

(* Whatever the loop starts with and every turn keeps holds at its end.     *)
LEMMA LoopKeeps ==
    ASSUME NEW node, NEW open, NEW turns \in Nat, NEW F,
           Runs(node, open, turns, F), NEW I, SweepStart(node) \in I,
           \A s \in I : ~AtEnd(s) => SweepStep(s, open) \in I
    PROVE  \A n \in 0..turns : F[n] \in I
<1> DEFINE S == {n \in Nat : n <= turns => F[n] \in I}
<1>1. 0 \in S
  BY DEF Runs
<1>2. ASSUME NEW k \in Nat, k \in S PROVE k + 1 \in S
  <2>1. CASE k + 1 <= turns
    <3>1. F[k] \in I /\ k + 1 \in 0..turns /\ k + 1 # 0 /\ (k + 1) - 1 = k
      BY <1>2, <2>1
    <3>2. F[k + 1] = IF AtEnd(F[k]) THEN F[k] ELSE SweepStep(F[k], open)
      BY <3>1 DEF Runs
    <3> QED BY <3>1, <3>2
  <2>2. CASE ~(k + 1 <= turns)
    BY <2>2
  <2> QED BY <2>1, <2>2
<1>3. ASSUME NEW n \in 0..turns PROVE F[n] \in I
  <2> HIDE DEF S
  <2>1. n \in S
    BY <1>1, <1>2, SetInduction
  <2> QED BY <2>1 DEF S
<1> QED BY <1>3

(* The sweep of a usable node keeps its blocks, a record in each.           *)
LEMMA SweepResult ==
    ASSUME NEW E, NEW node \in NodeOver(E), Usable(node), NEW open
    PROVE  SweepEnd(node, open) \in NodeOver(E) /\ Swept(node, SweepEnd(node, open))
<1> DEFINE turns == MEMRECPERENTRY * Len(node.blocks)
           I == {s \in LoopStates(E) : LoopInv(node, open, s)}
<1>1. turns \in Nat
  BY MemRecPerEntryAssumption DEF Usable
<1>2. \E F : Runs(node, open, turns, F) /\ SweepEnd(node, open) = F[turns].node
  <2>1. turns = MEMRECPERENTRY * Len(node.blocks)
    OBVIOUS
  <2> HIDE DEF turns
  <2> QED BY <1>1, <2>1, SweepEndRuns
<1>3. PICK F : Runs(node, open, turns, F) /\ SweepEnd(node, open) = F[turns].node
  BY <1>2
<1>4. SweepStart(node) \in I
  BY SweepStarts
<1>5. ASSUME NEW s \in I, ~AtEnd(s) PROVE SweepStep(s, open) \in I
  BY <1>5, SweepTurns
<1> HIDE DEF I, turns
<1>6. F[turns] \in I
  <2>1. turns \in 0..turns
    BY <1>1
  <2> QED BY <1>1, <1>3, <1>4, <1>5, <2>1, LoopKeeps
<1> QED BY <1>3, <1>6 DEF I, LoopStates, LoopInv

(* `search` advances by an index or a block.                                *)
LEMMA SearchAdvances ==
    ASSUME NEW E, NEW s \in LoopStates(E), NEW open, NEW f, f = s.search,
           NEW g, g = SweepStep(s, open).search
    PROVE  \/ g.block = f.block /\ g.idx = f.idx + 1
           \/ g.block = f.block + 1 /\ g.idx = 0
<1>1. f \in Cursor /\ f = [block |-> f.block, idx |-> f.idx, max |-> f.max]
  BY DEF LoopStates, Cursor
<1>2. \E m : g = NextCursor(m, f)
  <2>1. s = [node |-> s.node, keep |-> s.keep, search |-> s.search]
    BY DEF LoopStates
  <2> QED BY <2>1 DEF SweepStep
<1>3. PICK m : g = NextCursor(m, f)
  BY <1>2
<1>4. CASE f.idx < f.max
  <2>1. g = [f EXCEPT !.idx = f.idx + 1]
    BY <1>3, <1>4 DEF NextCursor
  <2> QED BY <2>1, <1>1
<1>5. CASE ~(f.idx < f.max)
  BY <1>3, <1>5 DEF NextCursor
<1> QED BY <1>4, <1>5

(* MEMRECPERENTRY turns for each block are enough: `search` has left the
   list by then, which is when the code's loop ends.                        *)
THEOREM SweepCompletes ==
    ASSUME NEW node, Usable(node), NEW open, NEW turns \in Nat,
           turns = MEMRECPERENTRY * Len(node.blocks)
    PROVE  \E F : /\ Runs(node, open, turns, F)
                  /\ SweepEnd(node, open) = F[turns].node
                  /\ AtEnd(F[turns])
<1> DEFINE M == MEMRECPERENTRY
           l == Len(node.blocks)
<1>0. M \in Nat \ {0} /\ l \in Nat \ {0}
  BY MemRecPerEntryAssumption DEF Usable
<1>1. PICK E : node \in NodeOver(E)
  BY DEF Usable
<1>2. PICK F : Runs(node, open, turns, F) /\ SweepEnd(node, open) = F[turns].node
  BY SweepEndRuns
<1> DEFINE I == {s \in LoopStates(E) : LoopInv(node, open, s)}
           passed(s) == M * (s.search.block - 1) + s.search.idx
           S == {n \in Nat : n <= turns => AtEnd(F[n]) \/ passed(F[n]) >= n}
<1>3. \A n \in 0..turns : F[n] \in I
  <2>1. SweepStart(node) \in I
    BY <1>1, SweepStarts
  <2>2. ASSUME NEW s \in I, ~AtEnd(s) PROVE SweepStep(s, open) \in I
    BY <1>1, <2>2, SweepTurns
  <2> HIDE DEF I
  <2> QED BY <1>2, <2>1, <2>2, LoopKeeps
<1>4. ASSUME NEW s \in I
      PROVE  /\ s \in LoopStates(E)
             /\ s.search.block \in 1..(l + 1) /\ s.search.idx \in 0..(M - 1)
             /\ Len(s.node.blocks) = l
  BY DEF LoopInv, Within, Swept
<1>5. 0 \in S
  <2>1. F[0] = SweepStart(node)
    BY <1>2 DEF Runs
  <2>2. F[0].search.block = 1 /\ F[0].search.idx = 0
    BY <2>1 DEF SweepStart
  <2>3. passed(F[0]) = M * (1 - 1) + 0
    BY <2>2
  <2>4. passed(F[0]) >= 0
    BY <2>3, <1>0
  <2> HIDE DEF passed
  <2> QED BY <2>4
<1>6. ASSUME NEW k \in Nat, k \in S PROVE k + 1 \in S
  <2> SUFFICES ASSUME k + 1 <= turns, ~AtEnd(F[k + 1])
               PROVE  passed(F[k + 1]) >= k + 1
    OBVIOUS
  <2> DEFINE s == F[k]
             t == F[k + 1]
  <2>1. k \in 0..turns /\ k + 1 \in 0..turns /\ k <= turns
    OBVIOUS
  <2>2. t = IF AtEnd(s) THEN s ELSE SweepStep(s, open)
    BY <2>1, <1>2 DEF Runs
  <2>3. ~AtEnd(s) /\ t = SweepStep(s, open)
    BY <2>2
  <2>4. passed(s) >= k
    BY <1>6, <2>1, <2>3
  <2>5. s \in I
    BY <1>3, <2>1
  <2> DEFINE b == s.search.block
             i == s.search.idx
  <2> HIDE DEF I
  <2>6. b \in 1..(l + 1) /\ i \in 0..(M - 1) /\ s \in LoopStates(E)
    BY <2>5, <1>4
  <2>7. \/ t.search.block = b /\ t.search.idx = i + 1
        \/ t.search.block = b + 1 /\ t.search.idx = 0
    <3> HIDE DEF s, t
    <3> QED BY <2>3, <2>6, SearchAdvances
  <2>8. \/ passed(t) = M * (b - 1) + (i + 1)
        \/ passed(t) = M * ((b + 1) - 1) + 0
    BY <2>7
  <2>9. M * (b - 1) + i >= k
    BY <2>4
  <2> HIDE DEF passed, s, t, b, i, l, M
  <2>10. M * ((b + 1) - 1) = M * (b - 1) + M /\ M * (b - 1) \in Int
    BY <1>0, <2>6
  <2>11. passed(t) >= k + 1
    <3> DEFINE a == M * (b - 1)
    <3>1. \/ passed(t) = a + (i + 1)
          \/ passed(t) = a + M
      BY <1>0, <2>8, <2>10, <2>6
    <3>2. a + i >= k /\ a \in Int
      BY <2>9, <2>10
    <3> HIDE DEF a
    <3> QED BY <3>1, <3>2, <2>6, <1>0
  <2> QED BY <2>11 DEF t
<1>7. turns \in S
  <2> HIDE DEF S
  <2> QED BY <1>5, <1>6, SetInduction
<1>8. AtEnd(F[turns])
  <2> SUFFICES ASSUME ~AtEnd(F[turns]) PROVE FALSE
    OBVIOUS
  <2> DEFINE s == F[turns]
             b == s.search.block
             i == s.search.idx
  <2>1. M * (b - 1) + i >= M * l
    BY <1>7
  <2>2. s \in I
    BY <1>3
  <2> HIDE DEF I
  <2>3. b \in 1..(l + 1) /\ i \in 0..(M - 1) /\ ~(b > l)
    BY <2>2, <1>4 DEF AtEnd
  <2> HIDE DEF s, b, i, l, M
  <2>4. M * (b - 1) + M = M * b /\ M * (b - 1) \in Int /\ M * b \in Int
    BY <1>0, <2>3
  <2>5. M * b <= M * l /\ M * l \in Int
    <3>1. l - b \in Nat
      BY <1>0, <2>3
    <3>2. M * (l - b) >= 0
      BY <1>0, <3>1
    <3>3. M * (l - b) = M * l - M * b
      BY <1>0, <2>3
    <3>4. M * l \in Int
      BY <1>0
    <3> DEFINE x == M * l
               y == M * b
    <3> HIDE DEF x, y
    <3>5. x - y >= 0 /\ x \in Int /\ y \in Int
      BY <2>4, <3>2, <3>3, <3>4 DEF x, y
    <3>6. y <= x
      BY <3>5
    <3> QED BY <3>4, <3>6 DEF x, y
  <2> DEFINE x == M * l
             y == M * b
             z == M * (b - 1)
  <2>6. z + i >= x /\ z + M = y /\ y <= x
    BY <2>1, <2>4, <2>5
  <2>7. x \in Int /\ y \in Int /\ z \in Int
    BY <2>4, <2>5
  <2> HIDE DEF x, y, z
  <2> QED BY <1>0, <2>3, <2>6, <2>7
<1> QED BY <1>2, <1>8

-----------------------------------------------------------------------------
(* What the sweep makes of a node.                                          *)

(* A list cut to its k oldest blocks.                                       *)
LEMMA CutList ==
    ASSUME NEW E, NEW n \in NodeOver(E), NEW k \in 1..Len(n.blocks)
    PROVE  LET m == [n EXCEPT !.blocks = SubSeq(@, 1, k)]
           IN  /\ m \in NodeOver(E)
               /\ Len(m.blocks) = k
               /\ m.recModEntry = n.recModEntry /\ m.memRecIdx = n.memRecIdx
               /\ \A j \in 1..k : m.blocks[j] = n.blocks[j]
<1> DEFINE b == SubSeq(n.blocks, 1, k)
           m == [n EXCEPT !.blocks = SubSeq(@, 1, k)]
<1>1. n.blocks \in Seq(BlockOver(E)) /\ Len(n.blocks) \in Nat
  BY DEF NodeOver
<1>2. b \in Seq(BlockOver(E)) /\ Len(b) = k /\ \A j \in 1..k : b[j] = n.blocks[j]
  BY <1>1, SubSeqProperties
<1>3. m = [n EXCEPT !.blocks = b]
  OBVIOUS
<1> HIDE DEF m, b
<1>4. m = [blocks |-> b, recModEntry |-> n.recModEntry, memRecIdx |-> n.memRecIdx]
  BY <1>3 DEF NodeOver
<1>5. m \in NodeOver(E)
  BY <1>2, <1>4 DEF NodeOver
<1> QED BY <1>2, <1>4, <1>5 DEF m

(* A compacted node is usable, and what it loses is what is withdrawn.      *)
LEMMA CompactUsable ==
    ASSUME NEW node, Usable(node), Distinct(node), NEW open
    PROVE  LET m == Compact(node, open)
           IN  /\ Usable(m) /\ Distinct(m)
               /\ Ents(m) \subseteq Ents(node)
               /\ Lists(CompactFrees(node, open), Ents(node) \ Ents(m))
<1> DEFINE n == SweepEnd(node, open)
           l == Len(node.blocks)
           k == n.recModEntry
           m == Compact(node, open)
           cs == CompactFrees(node, open)
<1>1. PICK E : node \in NodeOver(E)
  BY DEF Usable
<1>2. n \in NodeOver(E) /\ Swept(node, n)
  BY <1>1, SweepResult
<1>3. /\ Len(n.blocks) = l /\ k \in 1..l /\ n.memRecIdx \in 0..MEMRECPERENTRY
      /\ \A j \in 1..l : n.blocks[j].ent = node.blocks[j].ent /\ At(n, j, 0) \in Rec
      /\ l \in Nat
  BY <1>2 DEF Swept, Usable
<1>4. m = [n EXCEPT !.blocks = SubSeq(@, 1, k)] /\ cs = NewerThan(n, k)
  BY DEF Compact, CompactFrees
<1> HIDE DEF n, k, m, cs, l
<1>5. /\ m \in NodeOver(E) /\ Len(m.blocks) = k /\ m.recModEntry = n.recModEntry
      /\ m.memRecIdx = n.memRecIdx /\ \A j \in 1..k : m.blocks[j] = n.blocks[j]
  <2>1. k \in 1..Len(n.blocks)
    BY <1>3
  <2> QED BY <1>2, <1>4, <2>1, CutList
<1>6. Distinct(n) /\ Ents(n) = Ents(node)
  <2>1. Len(node.blocks) = l
    BY DEF l
  <2> QED BY <1>3, <2>1 DEF Distinct, Ents
<1>7. Lists(cs, Behind(n, k))
  BY <1>2, <1>3, <1>4, <1>6, NewerLists
<1>8. Distinct(m) /\ Ents(m) = Ents(n) \ Behind(n, k) /\ Behind(n, k) \subseteq Ents(n)
  <2>1. k \in 1..Len(n.blocks) /\ Len(n.blocks) \in Nat
    BY <1>3
  <2>2. \A j \in 1..k : m.blocks[j].ent = n.blocks[j].ent
    BY <1>5
  <2>3. Len(m.blocks) = k
    BY <1>5
  <2>4. Oldest(n, m, k)
    BY <2>1, <2>2, <2>3 DEF Oldest
  <2> QED BY <1>6, <2>4, OldestEnts
<1>9. Ents(node) \ Ents(m) = Behind(n, k)
  BY <1>6, <1>8
<1>10. \A j \in 1..k : At(m, j, 0) \in Rec
  <2>1. \A j \in 1..k : j \in 1..l
    BY <1>3
  <2> QED BY <1>3, <1>5, <2>1 DEF At
<1>11. Usable(m)
  <2>1. k \in Nat \ {0}
    BY <1>3
  <2> QED BY <1>3, <1>5, <1>10, <2>1 DEF Usable, k
<1> QED BY <1>6, <1>7, <1>8, <1>9, <1>11 DEF m, cs

(* A node of one block whose first record is of a mapped file stays.        *)
LEMMA ShortMappedStays ==
    ASSUME NEW node, Usable(node), Len(node.blocks) = 1, NEW open,
           At(node, 1, 0).fd \in open
    PROVE  Compact(node, open) = node
<1> DEFINE turns == MEMRECPERENTRY * Len(node.blocks)
<1>1. PICK E : node \in NodeOver(E)
  BY DEF Usable
<1>2. turns \in Nat
  BY MemRecPerEntryAssumption
<1>3. \E F : Runs(node, open, turns, F) /\ SweepEnd(node, open) = F[turns].node
  <2>1. turns = MEMRECPERENTRY * Len(node.blocks)
    OBVIOUS
  <2> HIDE DEF turns
  <2> QED BY <1>2, <2>1, SweepEndRuns, ZenonT(30)
<1>4. PICK F : Runs(node, open, turns, F) /\ SweepEnd(node, open) = F[turns].node
  BY <1>3
<1> HIDE DEF turns
<1> DEFINE I == {s \in LoopStates(E) : /\ LoopInv(node, open, s)
                                       /\ s.node = node /\ s.keep.block = 1}
<1>5. SweepStart(node) \in I
  BY <1>1, SweepStarts DEF SweepStart
<1>6. ASSUME NEW s \in I, ~AtEnd(s) PROVE SweepStep(s, open) \in I
  <2> DEFINE t == SweepStep(s, open)
  <2>1. t \in LoopStates(E) /\ LoopInv(node, open, t)
    BY <1>1, <1>6, SweepTurns
  <2>2. s.search.block = 1
    <3>1. Within(1, s.search)
      BY DEF LoopInv
    <3>2. s.search.block \in 1..2
      BY <3>1 DEF Within
    <3>3. ~(s.search.block > 1)
      BY <1>6 DEF AtEnd
    <3> QED BY <3>2, <3>3
  <2>3. t = [s EXCEPT !.search = NextCursor(s.node, @)]
    BY <2>2 DEF SweepStep, At
  <2>4. s = [node |-> s.node, keep |-> s.keep, search |-> s.search]
    BY DEF LoopStates
  <2>5. t.node = s.node /\ t.keep = s.keep
    BY <2>3, <2>4
  <2> HIDE DEF t
  <2>6. t \in I
    BY <2>1, <2>5
  <2> HIDE DEF I
  <2> QED BY <2>6 DEF t
<1> HIDE DEF I
<1>7. F[turns] \in I
  <2>1. turns \in 0..turns
    BY <1>2
  <2> QED BY <1>2, <1>4, <1>5, <1>6, <2>1, LoopKeeps
<1>8. SweepEnd(node, open) = node
  BY <1>4, <1>7 DEF I
<1>9. node.recModEntry = 1
  BY DEF Usable
<1>10. SubSeq(node.blocks, 1, 1) = node.blocks
  <2>1. node.blocks \in Seq(BlockOver(E))
    BY <1>1 DEF NodeOver
  <2>2. /\ SubSeq(node.blocks, 1, 1) \in Seq(BlockOver(E))
        /\ Len(SubSeq(node.blocks, 1, 1)) = 1
        /\ SubSeq(node.blocks, 1, 1)[1] = node.blocks[1]
    BY <2>1, SubSeqProperties
  <2>3. 1..1 = {1}
    OBVIOUS
  <2> QED BY <2>1, <2>2, <2>3, SeqEqual
<1>11. Compact(node, open) = [node EXCEPT !.blocks = SubSeq(@, 1, 1)]
  BY <1>8, <1>9 DEF Compact
<1>12. node = [node EXCEPT !.blocks = node.blocks]
  BY <1>1 DEF NodeOver
<1> QED BY <1>10, <1>11, <1>12

-----------------------------------------------------------------------------
(* The blocks a sweep gives back.                                           *)

(* A finite set of numbers has a largest.                                   *)
LEMMA HasMax ==
    ASSUME NEW S, S \subseteq Nat, IsFiniteSet(S), S # {}
    PROVE  Max(S) \in S /\ \A x \in S : x <= Max(S)
<1> DEFINE Largest(X) == \E m \in X : \A x \in X : m >= x
           T == {k \in Nat : \A X \in SUBSET S :
                                Cardinality(X) = k => X = {} \/ Largest(X)}
<1>1. \A X \in SUBSET S : IsFiniteSet(X) /\ Cardinality(X) \in Nat
  BY FS_Subset, FS_CardinalityType
<1>2. 0 \in T
  BY <1>1, FS_EmptySet
<1>3. ASSUME NEW k \in Nat, k \in T PROVE k + 1 \in T
  <2> SUFFICES ASSUME NEW X \in SUBSET S, Cardinality(X) = k + 1, X # {}
               PROVE  Largest(X)
    OBVIOUS
  <2>1. PICK a \in X : TRUE
    OBVIOUS
  <2>2. Cardinality(X \ {a}) = k /\ X \ {a} \in SUBSET S
    <3>1. Cardinality(X \ {a}) = Cardinality(X) - 1
      BY <1>1, FS_RemoveElement
    <3> QED BY <3>1
  <2>3. X \ {a} = {} \/ Largest(X \ {a})
    BY <1>3, <2>2
  <2>4. CASE X \ {a} = {}
    BY <2>4
  <2>5. CASE Largest(X \ {a})
    <3>1. PICK m \in X \ {a} : \A x \in X \ {a} : m >= x
      BY <2>5
    <3>2. CASE m >= a
      BY <3>1, <3>2
    <3>3. CASE ~(m >= a)
      <4>1. \A x \in X : x \in Nat
        OBVIOUS
      <4>2. \A x \in X : a >= x
        BY <3>1, <3>3, <4>1
      <4> QED BY <4>2
    <3> QED BY <3>2, <3>3
  <2> QED BY <2>3, <2>4, <2>5
<1>4. Cardinality(S) \in T
  <2>1. Cardinality(S) \in Nat
    BY <1>1
  <2> HIDE DEF T
  <2> QED BY <1>2, <1>3, <2>1, SetInduction
<1>5. PICK m \in S : \A x \in S : m >= x
  BY <1>4
<1>6. Max(S) \in S /\ \A x \in S : Max(S) >= x
  BY <1>5 DEF Max
<1> QED BY <1>6

\* What the visit to page p of V gives back.
Freed(V, p) ==
    IF p \in Removed(V) THEN <<recTree[p].blocks[1].ent>>
    ELSE CompactFrees(recTree[p], openFileArray)

\* What the visits up to page p give back, F being right for p - 1.
Visit(V, F, p) ==
    (IF p = 0 THEN << >> ELSE F[p - 1])
        \o (IF p \in V THEN Freed(V, p) ELSE << >>)

\* F is right for every page.
Walks(V, last, F) == F = [p \in 0..last |-> Visit(V, F, p)]

(* The walk is defined: what it gives back up to a page determines the next. *)
LEMMA WalkRuns ==
    ASSUME NEW V, NEW last \in Nat
    PROVE  \E F : Walks(V, last, F)
<1> DEFINE Right(F, k) == \A p \in 0..last : p < k => F[p] = Visit(V, F, p)
           S == {k \in Nat : \E F : Right(F, k)}
<1>1. 0 \in S
  BY DEF Right
<1>2. ASSUME NEW k \in Nat, k \in S PROVE k + 1 \in S
  <2>1. PICK F : Right(F, k)
    BY <1>2
  <2> DEFINE G == [p \in 0..last |-> Visit(V, F, p)]
  <2>2. ASSUME NEW p \in 0..last, p < k + 1 PROVE G[p] = Visit(V, G, p)
    <3>1. CASE p = 0
      BY <3>1 DEF Visit
    <3>2. CASE p # 0
      <4>1. p - 1 \in 0..last /\ p - 1 < k
        BY <2>2, <3>2
      <4>2. F[p - 1] = Visit(V, F, p - 1)
        BY <2>1, <4>1
      <4>3. G[p - 1] = F[p - 1]
        BY <4>1, <4>2
      <4> HIDE DEF G
      <4>4. Visit(V, G, p) = Visit(V, F, p)
        BY <3>2, <4>3 DEF Visit
      <4> QED BY <4>4 DEF G
    <3> QED BY <3>1, <3>2
  <2>3. Right(G, k + 1)
    BY <2>2
  <2>4. \E H : Right(H, k + 1)
    <3> HIDE DEF G, Right
    <3> QED BY <2>3
  <2> QED BY <2>4
<1>3. last + 1 \in S
  <2> HIDE DEF S
  <2> QED BY <1>1, <1>2, SetInduction
<1>4. PICK F : Right(F, last + 1)
  BY <1>3
<1> DEFINE G == [p \in 0..last |-> F[p]]
<1>5. ASSUME NEW p \in 0..last PROVE F[p] = Visit(V, G, p)
  <2>1. F[p] = Visit(V, F, p)
    BY <1>4
  <2>2. CASE p = 0
    BY <2>1, <2>2 DEF Visit
  <2>3. CASE p # 0
    <3>1. p - 1 \in 0..last
      BY <2>3
    <3>2. G[p - 1] = F[p - 1]
      BY <3>1
    <3> HIDE DEF G
    <3> QED BY <2>1, <2>3, <3>2 DEF Visit
  <2> QED BY <2>2, <2>3
<1>6. G = [p \in 0..last |-> Visit(V, G, p)]
  BY <1>5
<1>7. Walks(V, last, G)
  <2> HIDE DEF G
  <2> QED BY <1>6 DEF Walks
<1> HIDE DEF G
<1> QED BY <1>7

(* What BlocksReclaimed is.                                                 *)
LEMMA BlocksReclaimedWalks ==
    ASSUME NEW V, NEW last \in Nat, last = Max(Pages)
    PROVE  \E F : Walks(V, last, F) /\ BlocksReclaimed(V) = F[last]
<1> DEFINE UpTo == CHOOSE F : Walks(V, last, F)
<1>1. Walks(V, last, UpTo)
  BY WalkRuns
<1>2. BlocksReclaimed(V) = UpTo[last]
  BY DEF BlocksReclaimed, Walks, Visit, Freed
<1> QED BY <1>1, <1>2

-----------------------------------------------------------------------------
(* Trees.  PoolsBalanced counts the blocks by their places on the lists; here
   they are kept list by list, and what a step does to one list is what it
   does to the pool.                                                        *)

\* A tree of usable nodes.
Sound(t) ==
    /\ t = [p \in DOMAIN t |-> t[p]]
    /\ DOMAIN t \subseteq Pages
    /\ \A p \in DOMAIN t : Usable(t[p])

\* No block is twice on its list, or on two.
Apart(t) ==
    /\ \A p \in DOMAIN t : Distinct(t[p])
    /\ \A p, q \in DOMAIN t : p # q => Ents(t[p]) \cap Ents(t[q]) = {}

\* The blocks on the lists, and that the pool's free ones are the others.
Used(t) == UNION {Ents(t[p]) : p \in DOMAIN t}
Accounted(t, pool) == Apart(t) /\ IsPool(pool) /\ Partitioned(pool, Used(t))

\* t with m for the node of p.
With(t, p, m) == [t EXCEPT ![p] = m]

\* t and the page p, of node m.
Plus(t, p, m) == [q \in DOMAIN t \cup {p} |-> IF q = p THEN m ELSE t[q]]

(* The node of one page becomes m.                                          *)
LEMMA NodeReplaced ==
    ASSUME NEW t, Apart(t), NEW p \in DOMAIN t, NEW m,
           Distinct(m), Ents(m) \cap (Used(t) \ Ents(t[p])) = {},
           NEW u, u = With(t, p, m)
    PROVE  Apart(u) /\ Used(u) = (Used(t) \ Ents(t[p])) \cup Ents(m)
<1>1. DOMAIN u = DOMAIN t
  BY DEF With
<1>2. \A q \in DOMAIN t : u[q] = IF q = p THEN m ELSE t[q]
  BY DEF With
<1>3. \A q \in DOMAIN t : q # p => Ents(t[q]) \subseteq Used(t) \ Ents(t[p])
  BY DEF Apart, Used
<1>4. \A q \in DOMAIN t : q # p => Ents(m) \cap Ents(t[q]) = {}
  BY <1>3
<1>5. Apart(u)
  BY <1>1, <1>2, <1>4 DEF Apart
<1>7. ASSUME NEW c \in Used(u) PROVE c \in (Used(t) \ Ents(t[p])) \cup Ents(m)
  <2>1. PICK q \in DOMAIN t : c \in Ents(u[q])
    BY <1>1 DEF Used
  <2> QED BY <2>1, <1>2, <1>3
<1>8. ASSUME NEW c \in Used(t) \ Ents(t[p]) PROVE c \in Used(u)
  <2>1. PICK q \in DOMAIN t : c \in Ents(t[q])
    BY DEF Used
  <2>2. q # p
    BY <2>1
  <2> QED BY <2>1, <2>2, <1>1, <1>2 DEF Used
<1>9. ASSUME NEW c \in Ents(m) PROVE c \in Used(u)
  BY <1>1, <1>2 DEF Used
<1> QED BY <1>5, <1>7, <1>8, <1>9

(* A page enters with the node m.                                           *)
LEMMA NodeAdded ==
    ASSUME NEW t, Apart(t), NEW p, p \notin DOMAIN t,
           NEW m, Distinct(m), Ents(m) \cap Used(t) = {},
           NEW u, u = Plus(t, p, m)
    PROVE  Apart(u) /\ Used(u) = Used(t) \cup Ents(m)
<1>1. DOMAIN u = DOMAIN t \cup {p}
  BY DEF Plus
<1>2. u[p] = m /\ \A q \in DOMAIN t : u[q] = t[q]
  BY DEF Plus
<1>3. \A q \in DOMAIN t : Ents(t[q]) \subseteq Used(t)
  BY DEF Used
<1>4. Apart(u)
  BY <1>1, <1>2, <1>3 DEF Apart
<1>6. ASSUME NEW c \in Used(u) PROVE c \in Used(t) \cup Ents(m)
  <2>1. PICK q \in DOMAIN t \cup {p} : c \in Ents(u[q])
    BY <1>1 DEF Used
  <2> QED BY <2>1, <1>2 DEF Used
<1>7. ASSUME NEW c \in Used(t) PROVE c \in Used(u)
  <2>1. PICK q \in DOMAIN t : c \in Ents(t[q])
    BY DEF Used
  <2> QED BY <2>1, <1>1, <1>2 DEF Used
<1>8. ASSUME NEW c \in Ents(m) PROVE c \in Used(u)
  BY <1>1, <1>2 DEF Used
<1> QED BY <1>4, <1>6, <1>7, <1>8

(* What allocating a block does.                                            *)
LEMMA BlockAllocated ==
    ASSUME NEW pool, NEW U, IsPool(pool), Partitioned(pool, U),
           NEW e, e = Top(Replenish(pool)), NEW left, left = Pop(Replenish(pool))
    PROVE  /\ IsPool(left) /\ e \notin U
           /\ Partitioned(left, U \cup {e})
<1> DEFINE fresh == Replenish(pool)
<1>1. IsPool(fresh) /\ Partitioned(fresh, U) /\ fresh.idx > 0
  BY ReplenishPartitioned
<1> HIDE DEF fresh
<1> QED BY <1>1, PopFields, PopPartitioned DEF fresh

(* addTreeNode, of a tree swept or not.                                     *)
LEMMA TreeGrows ==
    ASSUME NEW t, NEW pool, Accounted(t, pool), NEW p, p \notin DOMAIN t,
           NEW r \in Rec, NEW nodes, NEW heads,
           AddTreeNode(t, nodes, heads, pool, p, r)
    PROVE  \E e : /\ recTree' = Plus(t, p, WriteRec(NewNode(e), r, Unset))
                  /\ Accounted(recTree', recBlocks')
<1> DEFINE e == Top(Replenish(pool))
           left == Pop(Replenish(pool))
           m == WriteRec(NewNode(e), r, Unset)
<1>1. recBlocks' = left /\ recTree' = Plus(t, p, m)
  BY DEF AddTreeNode, Plus
<1>2. IsPool(left) /\ e \notin Used(t) /\ Partitioned(left, Used(t) \cup {e})
  BY BlockAllocated DEF Accounted
<1> HIDE DEF e, left
<1>3. Distinct(m) /\ Ents(m) = {e}
  BY NewNodeUsable
<1> HIDE DEF m
<1>4. Apart(recTree') /\ Used(recTree') = Used(t) \cup Ents(m)
  <2>1. Ents(m) \cap Used(t) = {} /\ Apart(t)
    BY <1>2, <1>3 DEF Accounted
  <2> QED BY <2>1, <1>1, <1>3, NodeAdded
<1>5. Accounted(recTree', recBlocks')
  BY <1>1, <1>2, <1>3, <1>4 DEF Accounted
<1> QED BY <1>1, <1>5 DEF m

(* insertRec into a traced page: a restart gives back the blocks it cuts off,
   an append takes one at a block's end.                                    *)
LEMMA TreeChanges ==
    ASSUME Accounted(recTree, recBlocks), NEW p, NEW r \in Rec, InsertFound(p, r),
           Formed(recTree[p])
    PROVE  \E m : /\ Became(recTree[p], m, r)
                  /\ recTree' = With(recTree, p, m)
                  /\ Accounted(recTree', recBlocks')
<1> DEFINE n == recTree[p]
<1>0. Apart(recTree) /\ IsPool(recBlocks) /\ Partitioned(recBlocks, Used(recTree))
  BY DEF Accounted
<1>1. p \in DOMAIN recTree /\ Formed(n) /\ Distinct(n) /\ Ents(n) \subseteq Used(recTree)
  BY <1>0 DEF InsertFound, Traced, Apart, Used
<1>2. 1 \in 1..Len(n.blocks) /\ Len(n.blocks) \in Nat
  BY <1>1 DEF Formed
<1>3. PICK E : n \in NodeOver(E)
  BY <1>1 DEF Formed
<1>4. ASSUME NEW m, recTree' = [recTree EXCEPT ![p] = m], Became(n, m, r), Distinct(m),
             Ents(m) \cap (Used(recTree) \ Ents(n)) = {},
             IsPool(recBlocks'),
             Partitioned(recBlocks', (Used(recTree) \ Ents(n)) \cup Ents(m))
      PROVE  \E x : /\ Became(recTree[p], x, r) /\ recTree' = With(recTree, p, x)
                    /\ Accounted(recTree', recBlocks')
  <2>1. recTree' = With(recTree, p, m)
    BY <1>4 DEF With
  <2>2. Apart(recTree') /\ Used(recTree') = (Used(recTree) \ Ents(n)) \cup Ents(m)
    <3>1. p \in DOMAIN recTree /\ Ents(m) \cap (Used(recTree) \ Ents(recTree[p])) = {}
      BY <1>1, <1>4
    <3>2. Apart(recTree) /\ Distinct(m)
      BY <1>0, <1>4
    <3> QED BY <2>1, <3>1, <3>2, NodeReplaced
  <2>3. Accounted(recTree', recBlocks')
    BY <1>4, <2>2 DEF Accounted
  <2> QED BY <1>4, <2>1, <2>3
<1>5. CASE RestartAndWrite(p, r)
  <2> DEFINE m == WriteRec(Restart(n), r, Unset)
             cs == NewerThan(n, 1)
  <2>1. recTree' = [recTree EXCEPT ![p] = m] /\ recBlocks' = PushAll(recBlocks, cs)
    BY <1>5, <1>1 DEF RestartAndWrite
  <2>b. Became(n, m, r)
    BY DEF Became
  <2> HIDE DEF n
  <2>2. Distinct(m) /\ Ents(m) = {n.blocks[1].ent}
    BY <1>1, RestartUsable
  <2>3. Lists(cs, Behind(n, 1))
    BY <1>1, <1>2, <1>3, NewerLists
  <2>4. Behind(n, 1) = Ents(n) \ {n.blocks[1].ent} /\ n.blocks[1].ent \in Ents(n)
    BY <1>1, <1>2 DEF Behind, Ents, Distinct
  <2> HIDE DEF m, cs
  <2>5. /\ IsPool(PushAll(recBlocks, cs))
        /\ Partitioned(PushAll(recBlocks, cs), Used(recTree) \ Behind(n, 1))
    BY <1>0, <1>1, <2>3, <2>4, ListReturned
  <2>6. Used(recTree) \ Behind(n, 1) = (Used(recTree) \ Ents(n)) \cup Ents(m)
    BY <1>1, <2>2, <2>4
  <2>7. Ents(m) \cap (Used(recTree) \ Ents(n)) = {}
    BY <2>2, <2>4
  <2> QED BY <1>4, <2>b, <2>1, <2>2, <2>5, <2>6, <2>7
<1>6. CASE NeedsBlock(n) /\ WriteInNewBlock(p, r)
  <2> DEFINE e == Top(Replenish(recBlocks))
             left == Pop(Replenish(recBlocks))
             m == WriteRec(n, r, e)
  <2>1. recTree' = [recTree EXCEPT ![p] = m] /\ recBlocks' = left
    BY <1>6, <1>1 DEF WriteInNewBlock
  <2>2. IsPool(left) /\ e \notin Used(recTree) /\ Partitioned(left, Used(recTree) \cup {e})
    BY <1>0, BlockAllocated
  <2> HIDE DEF e, left, n
  <2>b. Became(n, m, r)
    BY <1>6 DEF Became
  <2>4. Distinct(m) /\ Ents(m) = Ents(n) \cup {e}
    BY <1>1, <1>3, <1>6, <2>2, NewBlockEnts
  <2> HIDE DEF m
  <2>5. Used(recTree) \cup {e} = (Used(recTree) \ Ents(n)) \cup Ents(m)
    BY <1>1, <2>4
  <2>6. Ents(m) \cap (Used(recTree) \ Ents(n)) = {}
    BY <2>2, <2>4
  <2> QED BY <1>4, <2>b, <2>1, <2>2, <2>4, <2>5, <2>6
<1>7. CASE ~NeedsBlock(n) /\ WriteInPlace(p, r)
  <2> DEFINE m == WriteRec(n, r, Unset)
  <2>1. recTree' = [recTree EXCEPT ![p] = m] /\ recBlocks' = recBlocks
    BY <1>7, <1>1 DEF WriteInPlace
  <2>b. Became(n, m, r)
    BY <1>7 DEF Became
  <2> HIDE DEF n
  <2>2. /\ Len(m.blocks) = Len(n.blocks)
        /\ \A j \in 1..Len(n.blocks) : m.blocks[j].ent = n.blocks[j].ent
    BY <1>1, <1>7, InPlaceFormed
  <2> HIDE DEF m
  <2>3. Ents(m) = Ents(n) /\ Distinct(m)
    BY <1>1, <2>2 DEF Ents, Distinct
  <2>4. Used(recTree) = (Used(recTree) \ Ents(n)) \cup Ents(m)
    BY <1>1, <2>3
  <2>5. Ents(m) \cap (Used(recTree) \ Ents(n)) = {}
    BY <2>3
  <2> QED BY <1>0, <1>4, <2>b, <2>1, <2>3, <2>4, <2>5
<1> QED BY <1>5, <1>6, <1>7 DEF InsertFound

-----------------------------------------------------------------------------
(* The sweep of the tree.                                                   *)

\* The blocks the visit to page q of V takes off its list.
Lost(V, q) ==
    IF q \in Removed(V) THEN Ents(recTree[q])
    ELSE Ents(recTree[q]) \ Ents(Compact(recTree[q], openFileArray))

\* The same for all pages up to p.
LostUpTo(V, p) == UNION {Lost(V, q) : q \in {x \in V : x <= p}}

(* What a visit gives back is what it takes off the list.                   *)
LEMMA FreedLists ==
    ASSUME Sound(recTree), Apart(recTree), NEW V, V \subseteq Traced,
           NEW q \in V
    PROVE  /\ Lists(Freed(V, q), Lost(V, q))
           /\ Lost(V, q) \subseteq Ents(recTree[q])
<1> DEFINE n == recTree[q]
<1>1. Usable(n) /\ Distinct(n)
  BY DEF Sound, Apart, Traced
<1>2. CASE q \in Removed(V)
  <2>1. Len(n.blocks) = 1
    BY <1>2 DEF Removed, IsEmptyNode
  <2>2. Ents(n) = {n.blocks[1].ent}
    <3>1. 1..1 = {1}
      OBVIOUS
    <3> QED BY <2>1, <3>1 DEF Ents
  <2> HIDE DEF n
  <2>3. Lists(<<n.blocks[1].ent>>, {n.blocks[1].ent})
    BY ListsFew
  <2> QED BY <1>2, <2>2, <2>3 DEF Freed, Lost, n
<1>3. CASE q \notin Removed(V)
  <2> HIDE DEF n
  <2>1. Lists(CompactFrees(n, openFileArray),
              Ents(n) \ Ents(Compact(n, openFileArray)))
    BY <1>1, CompactUsable
  <2> QED BY <1>3, <2>1 DEF Freed, Lost, n
<1> QED BY <1>2, <1>3

(* The walk gives back what it takes off the lists, each block once.        *)
LEMMA WalkLists ==
    ASSUME Sound(recTree), Apart(recTree), NEW V, V \subseteq Traced,
           NEW last \in Nat, NEW F, Walks(V, last, F), NEW p \in 0..last
    PROVE  Lists(F[p], LostUpTo(V, p))
<1> DEFINE S == {k \in Nat : k <= last => Lists(F[k], LostUpTo(V, k))}
           own(k) == IF k \in V THEN Freed(V, k) ELSE << >>
           lost(k) == IF k \in V THEN Lost(V, k) ELSE {}
<1>1. V \subseteq Nat
  BY PagesAssumption DEF Sound, Traced
<1>2. \A k : Lists(own(k), lost(k))
  BY FreedLists, ListsFew
<1>3. /\ F[0] = << >> \o own(0)
      /\ \A k \in 0..last : k # 0 => F[k] = F[k - 1] \o own(k)
  <2>1. \A k \in 0..last : F[k] = Visit(V, F, k)
    BY DEF Walks
  <2>2. Visit(V, F, 0) = << >> \o own(0)
    BY DEF Visit
  <2>3. \A k \in 0..last : k # 0 => Visit(V, F, k) = F[k - 1] \o own(k)
    BY DEF Visit
  <2> HIDE DEF own
  <2>4. F[0] = << >> \o own(0)
    <3>1. 0 \in 0..last
      OBVIOUS
    <3> QED BY <2>1, <2>2, <3>1
  <2>5. ASSUME NEW k \in 0..last, k # 0 PROVE F[k] = F[k - 1] \o own(k)
    BY <2>1, <2>3, <2>5
  <2> QED BY <2>4, <2>5
<1> HIDE DEF own
<1>4. 0 \in S
  <2>1. F[0] = << >> \o own(0)
    BY <1>3
  <2>2. Lists(<< >> \o own(0), {} \cup lost(0))
    <3>1. Lists(<< >>, {}) /\ {} \cap lost(0) = {}
      BY ListsFew
    <3> HIDE DEF lost
    <3> QED BY <1>2, <3>1, ListsConcat
  <2>3. LostUpTo(V, 0) = lost(0)
    <3>1. \A x \in V : x <= 0 <=> x = 0
      BY <1>1
    <3> QED BY <3>1 DEF LostUpTo
  <2> HIDE DEF lost
  <2> QED BY <2>1, <2>2, <2>3
<1>5. ASSUME NEW k \in Nat, k \in S PROVE k + 1 \in S
  <2> SUFFICES ASSUME k + 1 <= last PROVE Lists(F[k + 1], LostUpTo(V, k + 1))
    OBVIOUS
  <2>1. Lists(F[k], LostUpTo(V, k))
    BY <1>5
  <2>2. F[k + 1] = F[k] \o own(k + 1)
    <3>1. k + 1 \in 0..last /\ k + 1 # 0 /\ (k + 1) - 1 = k
      OBVIOUS
    <3> QED BY <1>3, <3>1
  <2>3. LostUpTo(V, k + 1) = LostUpTo(V, k) \cup lost(k + 1)
    <3>1. \A x \in V : x <= k + 1 <=> x <= k \/ x = k + 1
      BY <1>1
    <3>2. ASSUME NEW c \in LostUpTo(V, k + 1)
          PROVE  c \in LostUpTo(V, k) \cup lost(k + 1)
      BY <3>1 DEF LostUpTo
    <3>3. ASSUME NEW c \in LostUpTo(V, k) PROVE c \in LostUpTo(V, k + 1)
      BY <3>1 DEF LostUpTo
    <3>4. ASSUME NEW c \in lost(k + 1) PROVE c \in LostUpTo(V, k + 1)
      BY <3>1 DEF LostUpTo
    <3> QED BY <3>2, <3>3, <3>4
  <2>4. LostUpTo(V, k) \cap lost(k + 1) = {}
    <3> SUFFICES ASSUME NEW c \in LostUpTo(V, k), c \in lost(k + 1) PROVE FALSE
      OBVIOUS
    <3>1. PICK q \in V : q <= k /\ c \in Lost(V, q)
      BY DEF LostUpTo
    <3>2. k + 1 \in V /\ c \in Lost(V, k + 1)
      OBVIOUS
    <3>3. q # k + 1
      BY <3>1, <1>1
    <3>4. c \in Ents(recTree[q]) /\ c \in Ents(recTree[k + 1])
      BY <3>1, <3>2, FreedLists
    <3> QED BY <3>2, <3>3, <3>4 DEF Apart, Traced
  <2> HIDE DEF lost
  <2> QED BY <1>2, <2>1, <2>2, <2>3, <2>4, ListsConcat
<1>6. p \in S
  <2> HIDE DEF S
  <2> QED BY <1>4, <1>5, SetInduction
<1> QED BY <1>6

(* A sweep leaves a sound tree and keeps account of the blocks.             *)
LEMMA TreeSwept ==
    ASSUME Sound(recTree), Accounted(recTree, recBlocks), NEW V, V \subseteq Traced,
           Pages # {}
    PROVE  LET t == Reclaimed(V)
           IN  /\ Sound(t)
               /\ Accounted(t, PushAll(recBlocks, BlocksReclaimed(V)))
<1> DEFINE t == Reclaimed(V)
           last == Max(Pages)
           S == LostUpTo(V, last)
           cs == BlocksReclaimed(V)
           M(p) == Compact(recTree[p], openFileArray)
<1>1. last \in Nat /\ \A p \in V : p <= last /\ p \in Traced /\ p \in Pages
  BY PagesAssumption, HasMax DEF Sound, Traced
<1>2. Apart(recTree)
  BY DEF Accounted
<1>3. Lists(cs, S)
  <2> HIDE DEF last
  <2>1. \E F : Walks(V, last, F) /\ cs = F[last]
    BY <1>1, BlocksReclaimedWalks DEF last
  <2>2. PICK F : Walks(V, last, F) /\ cs = F[last]
    BY <2>1
  <2>3. last \in 0..last
    BY <1>1
  <2> HIDE DEF cs
  <2>4. Lists(F[last], LostUpTo(V, last))
    BY <1>1, <1>2, <2>2, <2>3, WalkLists
  <2> QED BY <2>2, <2>4
<1>4. /\ DOMAIN t = Traced \ Removed(V) /\ t = [p \in DOMAIN t |-> t[p]]
      /\ \A p \in DOMAIN t : t[p] = IF p \in V THEN M(p) ELSE recTree[p]
  BY DEF Reclaimed
<1>5. \A p \in Traced : Usable(recTree[p]) /\ Distinct(recTree[p])
  BY <1>2 DEF Sound, Apart, Traced
<1>6. \A p \in V : Usable(M(p)) /\ Distinct(M(p)) /\ Ents(M(p)) \subseteq Ents(recTree[p])
  BY <1>1, <1>5, CompactUsable
<1> HIDE DEF t, M, cs, last
<1>7. \A p \in DOMAIN t : /\ p \in Traced /\ Usable(t[p]) /\ Distinct(t[p])
                          /\ Ents(t[p]) \subseteq Ents(recTree[p])
  BY <1>4, <1>5, <1>6
<1>8. Sound(t)
  <2>1. DOMAIN t \subseteq Pages
    BY <1>7 DEF Sound, Traced
  <2> QED BY <1>4, <1>7, <2>1 DEF Sound
<1>9. Apart(t)
  <2>1. ASSUME NEW p \in DOMAIN t, NEW q \in DOMAIN t, p # q
        PROVE  Ents(t[p]) \cap Ents(t[q]) = {}
    <3>1. Ents(recTree[p]) \cap Ents(recTree[q]) = {}
      BY <1>2, <1>7, <2>1 DEF Apart, Traced
    <3> QED BY <1>7, <3>1
  <2> QED BY <1>7, <2>1 DEF Apart
<1>10. \A q \in V : Lost(V, q) \subseteq Ents(recTree[q])
  BY <1>2, FreedLists
<1>11. S = UNION {Lost(V, q) : q \in V}
  BY <1>1 DEF LostUpTo
<1>12. S \subseteq Used(recTree)
  BY <1>1, <1>10, <1>11 DEF Used, Traced
<1> HIDE DEF S
<1>13. ASSUME NEW c \in Used(t) PROVE c \in Used(recTree) /\ c \notin S
  <2>1. PICK p \in DOMAIN t : c \in Ents(t[p])
    BY DEF Used
  <2>2. p \in Traced /\ c \in Ents(recTree[p])
    BY <1>7, <2>1
  <2>3. ASSUME NEW q \in V, c \in Lost(V, q) PROVE FALSE
    <3>1. q \in Traced /\ c \in Ents(recTree[q])
      BY <1>1, <1>10, <2>3
    <3>2. q = p
      BY <1>2, <2>2, <3>1 DEF Apart, Traced
    <3>3. p \notin Removed(V) /\ t[p] = M(p)
      BY <1>4, <2>3, <3>2
    <3>4. Lost(V, p) = Ents(recTree[p]) \ Ents(M(p))
      BY <3>3 DEF Lost, M
    <3> QED BY <2>1, <2>3, <3>2, <3>3, <3>4
  <2> QED BY <1>11, <2>2, <2>3 DEF Used, Traced
<1>14. ASSUME NEW c \in Used(recTree), c \notin S PROVE c \in Used(t)
  <2>1. PICK p \in Traced : c \in Ents(recTree[p])
    BY DEF Used, Traced
  <2>2. CASE p \notin V
    <3>1. p \in DOMAIN t /\ t[p] = recTree[p]
      BY <1>4, <2>2 DEF Removed
    <3> QED BY <2>1, <3>1 DEF Used
  <2>3. CASE p \in V
    <3>1. c \notin Lost(V, p)
      BY <1>11, <1>14, <2>3
    <3>2. p \notin Removed(V) /\ c \in Ents(M(p))
      BY <2>1, <3>1 DEF Lost, M
    <3>3. p \in DOMAIN t /\ t[p] = M(p)
      BY <1>4, <2>3, <3>2
    <3> QED BY <3>2, <3>3 DEF Used
  <2> QED BY <2>2, <2>3
<1>15. Used(t) = Used(recTree) \ S
  BY <1>13, <1>14
<1>16. /\ IsPool(PushAll(recBlocks, cs))
       /\ Partitioned(PushAll(recBlocks, cs), Used(recTree) \ S)
  BY <1>3, <1>12, ListReturned DEF Accounted
<1> QED BY <1>8, <1>9, <1>15, <1>16 DEF Accounted, t, cs

-----------------------------------------------------------------------------
(* The inductive invariant.                                                 *)

\* Free nodes and free heads are what the traced pages leave.
Counted(nodes, heads, S) ==
    /\ nodes = RECTREENODEPOOLSIZE - Cardinality(S)
    /\ heads = nodes
    /\ nodes \in 0..RECTREENODEPOOLSIZE

Kept ==
    /\ Sound(recTree)
    /\ Accounted(recTree, recBlocks)
    /\ Counted(RECTREENODEPOOLIDX, TAILHEADPOOLIDX, Traced)
    /\ RECTREENODETHRESHOLD \in 0..RECTREENODEPOOLSIZE
    /\ openFileArray \subseteq Fds
    /\ halted \in BOOLEAN

(* The threshold is one of the pool's indexes.                              *)
LEMMA ThresholdInRange ==
    ASSUME NEW n \in 0..RECTREENODEPOOLSIZE
    PROVE  Threshold(n) \in 0..RECTREENODEPOOLSIZE
<1> DEFINE k == RECTREENODETHRESHOLDRATIO
<1>1. n \in Nat /\ k \in 0..10 /\ n <= RECTREENODEPOOLSIZE
  BY NodePoolAssumption, RatioAssumption
<1> HIDE DEF k
<1>2. n * k \in 0..(n * 10)
  <2>1. \A x \in 0..10 : n * x \in Nat /\ n * x <= n * 10
    BY <1>1
  <2> QED BY <1>1, <2>1
<1>3. (n * k) \div 10 \in 0..n
  BY <1>1, <1>2
<1> QED BY <1>1, <1>3, NodePoolAssumption DEF Threshold, k

(* initMemory: nothing is traced, every cell is free.                       *)
LEMMA InitKept == Init => Kept
<1> SUFFICES ASSUME Init PROVE Kept
  OBVIOUS
<1>1. Traced = {} /\ DOMAIN recTree = {} /\ recTree = [p \in {} |-> recTree[p]]
  BY DEF Init, Traced
<1>2. Sound(recTree) /\ Apart(recTree) /\ Used(recTree) = {}
  BY <1>1 DEF Sound, Apart, Used
<1>3. IsPool(recBlocks) /\ Partitioned(recBlocks, {})
  BY NewPoolPartitioned, BlockPoolAssumption DEF Init
<1>4. Counted(RECTREENODEPOOLIDX, TAILHEADPOOLIDX, Traced)
  <2>1. Cardinality({}) = 0
    BY FS_EmptySet
  <2>2. RECTREENODEPOOLIDX = RECTREENODEPOOLSIZE /\ TAILHEADPOOLIDX = RECTREENODEPOOLSIZE
    BY DEF Init
  <2> QED BY <1>1, <2>1, <2>2, NodePoolAssumption DEF Counted
<1>5. RECTREENODETHRESHOLD \in 0..RECTREENODEPOOLSIZE
  <2>1. RECTREENODETHRESHOLD = Threshold(RECTREENODEPOOLSIZE)
    BY DEF Init
  <2>2. RECTREENODEPOOLSIZE \in 0..RECTREENODEPOOLSIZE
    BY NodePoolAssumption
  <2> QED BY <2>1, <2>2, ThresholdInRange
<1>6. openFileArray \subseteq Fds /\ halted \in BOOLEAN
  BY DEF Init
<1>7. Accounted(recTree, recBlocks)
  BY <1>2, <1>3 DEF Accounted
<1> QED BY <1>2, <1>4, <1>5, <1>6, <1>7 DEF Kept

(* A copy into a page already traced.                                       *)
LEMMA InsertFoundKept ==
    ASSUME Kept, NEW p \in Pages, NEW r \in Rec, InsertFound(p, r)
    PROVE  Sound(recTree') /\ Accounted(recTree', recBlocks') /\ DOMAIN recTree' = Traced
<1>1. p \in DOMAIN recTree /\ Sound(recTree) /\ Accounted(recTree, recBlocks)
  BY DEF InsertFound, Kept, Traced
<1>2. Usable(recTree[p]) /\ Formed(recTree[p])
  BY <1>1, UsableFormed DEF Sound
<1>3. PICK m : /\ Became(recTree[p], m, r)
               /\ recTree' = With(recTree, p, m)
               /\ Accounted(recTree', recBlocks')
  BY <1>1, <1>2, TreeChanges
<1>4. Usable(m)
  BY <1>2, <1>3, BecameFormed
<1>5. DOMAIN recTree' = Traced /\ recTree' = [q \in DOMAIN recTree' |-> recTree'[q]]
  BY <1>3 DEF With, Traced
<1>6. \A q \in DOMAIN recTree : recTree'[q] = IF q = p THEN m ELSE recTree[q]
  BY <1>3 DEF With
<1>7. Sound(recTree')
  BY <1>1, <1>4, <1>5, <1>6 DEF Sound, Traced
<1> QED BY <1>3, <1>5, <1>7

(* A page that enters a sound tree.                                         *)
LEMMA PlusSound ==
    ASSUME NEW t, Sound(t), NEW p \in Pages, NEW e, NEW r \in Rec,
           NEW u, u = Plus(t, p, WriteRec(NewNode(e), r, Unset))
    PROVE  Sound(u) /\ DOMAIN u = DOMAIN t \cup {p}
<1> DEFINE m == WriteRec(NewNode(e), r, Unset)
<1>1. Usable(m)
  BY NewNodeUsable
<1> HIDE DEF m
<1>2. DOMAIN u = DOMAIN t \cup {p} /\ u = [q \in DOMAIN u |-> u[q]]
  BY DEF Plus
<1>3. \A q \in DOMAIN u : u[q] = IF q = p THEN m ELSE t[q]
  BY DEF Plus, m
<1> QED BY <1>1, <1>2, <1>3 DEF Sound

LEMMA GrowsSound ==
    ASSUME NEW t, NEW pool, Sound(t), Accounted(t, pool),
           NEW p \in Pages, p \notin DOMAIN t, NEW r \in Rec, NEW nodes, NEW heads,
           AddTreeNode(t, nodes, heads, pool, p, r)
    PROVE  /\ Sound(recTree') /\ Accounted(recTree', recBlocks')
           /\ DOMAIN recTree' = DOMAIN t \cup {p}
<1>1. PICK e : /\ recTree' = Plus(t, p, WriteRec(NewNode(e), r, Unset))
               /\ Accounted(recTree', recBlocks')
  BY TreeGrows
<1> QED BY <1>1, PlusSound

(* The pages in the tree are finitely many.                                 *)
LEMMA TracedFinite ==
    ASSUME Sound(recTree)
    PROVE  IsFiniteSet(Traced) /\ Cardinality(Traced) \in Nat
<1>1. Traced \in SUBSET Pages /\ IsFiniteSet(Pages)
  BY PagesAssumption DEF Sound, Traced
<1>2. IsFiniteSet(Traced)
  BY <1>1, FS_Subset
<1> QED BY <1>2, FS_CardinalityType

(* One more page takes a node and a head.                                   *)
LEMMA PageCounted ==
    ASSUME NEW S, IsFiniteSet(S), NEW p, p \notin S, NEW nodes, NEW heads,
           Counted(nodes, heads, S), nodes > 0
    PROVE  Counted(nodes - 1, heads - 1, S \cup {p})
<1>1. Cardinality(S \cup {p}) = Cardinality(S) + 1
  BY FS_AddElement
<1>2. Cardinality(S) \in Nat
  BY FS_CardinalityType
<1> QED BY <1>1, <1>2, NodePoolAssumption DEF Counted

(* The pages a sweep removes return theirs.                                 *)
LEMMA RemovedCounted ==
    ASSUME NEW S, IsFiniteSet(S), NEW R, R \subseteq S, NEW nodes, NEW heads,
           Counted(nodes, heads, S)
    PROVE  Counted(nodes + Cardinality(R), heads + Cardinality(R), S \ R)
<1>1. Cardinality(S \ R) = Cardinality(S) - Cardinality(R)
  <2>1. S \cap R = R
    OBVIOUS
  <2>2. Cardinality(S \ R) = Cardinality(S) - Cardinality(S \cap R)
    BY FS_Difference
  <2> QED BY <2>1, <2>2
<1>2. IsFiniteSet(R) /\ Cardinality(R) <= Cardinality(S)
  BY FS_Subset
<1>3. Cardinality(S) \in Nat /\ Cardinality(R) \in Nat
  BY <1>2, FS_CardinalityType
<1> QED BY <1>1, <1>2, <1>3, NodePoolAssumption DEF Counted

(* A copy into a page that enters the tree, no sweep being due.             *)
LEMMA InsertNewKept ==
    ASSUME Kept, NEW p \in Pages, NEW r \in Rec, InsertNew(p, r)
    PROVE  Kept'
<1>1. /\ AddTreeNode(recTree, RECTREENODEPOOLIDX, TAILHEADPOOLIDX, recBlocks, p, r)
      /\ p \notin DOMAIN recTree /\ RECTREENODEPOOLIDX # 0
      /\ UNCHANGED <<RECTREENODETHRESHOLD, openFileArray, halted>>
  BY DEF InsertNew, SweepDue, Traced
<1>2. Sound(recTree) /\ Accounted(recTree, recBlocks)
  BY DEF Kept
<1>3. /\ Sound(recTree') /\ Accounted(recTree', recBlocks')
      /\ DOMAIN recTree' = DOMAIN recTree \cup {p}
  BY <1>1, <1>2, GrowsSound
<1>4. Counted(RECTREENODEPOOLIDX, TAILHEADPOOLIDX, Traced)' 
  <2>1. Counted(RECTREENODEPOOLIDX, TAILHEADPOOLIDX, Traced) /\ IsFiniteSet(Traced)
    BY <1>2, TracedFinite DEF Kept
  <2>2. RECTREENODEPOOLIDX > 0
    BY <1>1, <2>1, NodePoolAssumption DEF Counted
  <2>3. p \notin Traced
    BY <1>1 DEF Traced
  <2>4. Counted(RECTREENODEPOOLIDX - 1, TAILHEADPOOLIDX - 1, Traced \cup {p})
    BY <2>1, <2>2, <2>3, PageCounted
  <2>5. /\ RECTREENODEPOOLIDX' = RECTREENODEPOOLIDX - 1
        /\ TAILHEADPOOLIDX' = TAILHEADPOOLIDX - 1
    BY <1>1 DEF AddTreeNode
  <2>6. Traced' = Traced \cup {p}
    BY <1>3 DEF Traced
  <2> QED BY <2>4, <2>5, <2>6 DEF Counted
<1> QED BY <1>1, <1>3, <1>4 DEF Kept

(* The walk visits pages of the tree.                                       *)
LEMMA VisitsTraced == ASSUME NEW V \in Visitable PROVE V \subseteq Traced
  BY DEF Visitable

(* A copy into a page that enters the tree after a sweep.                   *)
LEMMA InsertReclaimingKept ==
    ASSUME Kept, NEW p \in Pages, NEW r \in Rec, InsertReclaiming(p, r)
    PROVE  Kept'
<1>1. PICK V \in Visitable :
        LET nodes == RECTREENODEPOOLIDX + Cardinality(Removed(V))
            heads == TAILHEADPOOLIDX + Cardinality(Removed(V))
            pool  == PushAll(recBlocks, BlocksReclaimed(V))
        IN  /\ RECTREENODETHRESHOLD' = Threshold(nodes)
            /\ IF nodes > 0
               THEN /\ AddTreeNode(Reclaimed(V), nodes, heads, pool, p, r)
                    /\ UNCHANGED halted
               ELSE /\ halted' = TRUE
                    /\ recTree' = Reclaimed(V)
                    /\ recBlocks' = pool
                    /\ RECTREENODEPOOLIDX' = nodes
                    /\ TAILHEADPOOLIDX' = heads
  BY DEF InsertReclaiming
<1> DEFINE nodes == RECTREENODEPOOLIDX + Cardinality(Removed(V))
           heads == TAILHEADPOOLIDX + Cardinality(Removed(V))
           pool  == PushAll(recBlocks, BlocksReclaimed(V))
           t == Reclaimed(V)
<1>2. V \subseteq Traced
  BY VisitsTraced
<1>3. Sound(recTree) /\ Accounted(recTree, recBlocks) /\ Pages # {}
  BY DEF Kept
<1>4. Sound(t) /\ Accounted(t, pool)
  BY <1>2, <1>3, TreeSwept
<1>5. DOMAIN t = Traced \ Removed(V) /\ p \notin DOMAIN t
  BY DEF Reclaimed, InsertReclaiming
<1>6. Counted(nodes, heads, DOMAIN t)
  <2>1. Counted(RECTREENODEPOOLIDX, TAILHEADPOOLIDX, Traced) /\ IsFiniteSet(Traced)
    BY <1>3, TracedFinite DEF Kept
  <2>2. Removed(V) \subseteq Traced
    BY <1>2 DEF Removed
  <2> HIDE DEF t
  <2> QED BY <1>5, <2>1, <2>2, RemovedCounted
<1>7. IsFiniteSet(DOMAIN t)
  <2>1. IsFiniteSet(Traced) /\ DOMAIN t \in SUBSET Traced
    BY <1>3, <1>5, TracedFinite
  <2> QED BY <2>1, FS_Subset
<1>8. RECTREENODETHRESHOLD' = Threshold(nodes)
  BY <1>1
<1>9. nodes > 0 => AddTreeNode(t, nodes, heads, pool, p, r) /\ halted' = halted
  BY <1>1
<1>10. ~(nodes > 0) => /\ halted' = TRUE /\ recTree' = t /\ recBlocks' = pool
                       /\ RECTREENODEPOOLIDX' = nodes /\ TAILHEADPOOLIDX' = heads
  BY <1>1
<1> HIDE DEF nodes, heads, pool, t
<1>11. RECTREENODETHRESHOLD' \in 0..RECTREENODEPOOLSIZE
  BY <1>6, <1>8, ThresholdInRange DEF Counted
<1>12. openFileArray' \subseteq Fds
  BY DEF InsertReclaiming, Kept
<1>13. CASE nodes > 0
  <2>1. AddTreeNode(t, nodes, heads, pool, p, r)
    BY <1>9, <1>13
  <2>2. /\ Sound(recTree') /\ Accounted(recTree', recBlocks')
        /\ DOMAIN recTree' = DOMAIN t \cup {p}
    BY <1>4, <1>5, <2>1, GrowsSound
  <2>3. Counted(nodes - 1, heads - 1, DOMAIN t \cup {p})
    BY <1>5, <1>6, <1>7, <1>13, PageCounted
  <2>4. RECTREENODEPOOLIDX' = nodes - 1 /\ TAILHEADPOOLIDX' = heads - 1
    BY <2>1 DEF AddTreeNode
  <2>5. Traced' = DOMAIN t \cup {p}
    BY <2>2 DEF Traced
  <2>6. Counted(RECTREENODEPOOLIDX, TAILHEADPOOLIDX, Traced)'
    BY <2>3, <2>4, <2>5 DEF Counted
  <2>7. halted' \in BOOLEAN
    BY <1>9, <1>13 DEF Kept
  <2> QED BY <1>11, <1>12, <2>2, <2>6, <2>7 DEF Kept
<1>14. CASE ~(nodes > 0)
  <2>1. Counted(RECTREENODEPOOLIDX, TAILHEADPOOLIDX, Traced)'
    BY <1>6, <1>10, <1>14 DEF Counted, Traced
  <2>2. halted' \in BOOLEAN /\ Sound(recTree') /\ Accounted(recTree', recBlocks')
    BY <1>4, <1>10, <1>14
  <2> QED BY <1>11, <1>12, <2>1, <2>2 DEF Kept
<1> QED BY <1>13, <1>14

(* Every step.                                                              *)
LEMMA NextKept == ASSUME Kept, [Next]_vars PROVE Kept'
<1>1. ASSUME UNCHANGED <<recTree, RECTREENODEPOOLIDX, TAILHEADPOOLIDX,
                         RECTREENODETHRESHOLD, recBlocks, halted>>,
             openFileArray' \subseteq Fds
      PROVE  Kept'
  BY <1>1 DEF Kept, Traced
<1>2. ASSUME NEW fd \in Fds, MapFile(fd) \/ UnmapFile(fd) PROVE Kept'
  <2>1. openFileArray' \subseteq Fds
    BY <1>2 DEF MapFile, UnmapFile, Kept
  <2> QED BY <1>1, <1>2, <2>1 DEF MapFile, UnmapFile
<1>3. ASSUME NEW p \in Pages, NEW r \in Rec, InsertFound(p, r) PROVE Kept'
  <2>1. Sound(recTree') /\ Accounted(recTree', recBlocks') /\ DOMAIN recTree' = Traced
    BY <1>3, InsertFoundKept
  <2>2. UNCHANGED <<RECTREENODEPOOLIDX, TAILHEADPOOLIDX, RECTREENODETHRESHOLD,
                    openFileArray, halted>>
    BY <1>3 DEF InsertFound
  <2> QED BY <2>1, <2>2 DEF Kept, Traced
<1>4. ASSUME NEW p \in Pages, NEW r \in Rec, InsertNew(p, r) PROVE Kept'
  BY <1>4, InsertNewKept
<1>5. ASSUME NEW p \in Pages, NEW r \in Rec, InsertReclaiming(p, r) PROVE Kept'
  BY <1>5, InsertReclaimingKept
<1>6. CASE UNCHANGED vars
  <2>1. openFileArray' \subseteq Fds
    BY <1>6 DEF vars, Kept
  <2> QED BY <1>1, <1>6, <2>1 DEF vars
<1> QED BY <1>2, <1>3, <1>4, <1>5, <1>6 DEF Next

(* Usable nodes and a full account of nodes, heads and blocks: after any
   steps, through restarts, pool growths and sweeps.                        *)
THEOREM KeptInvariant == Spec => []Kept
<1>1. Kept /\ [Next]_vars => Kept'
  BY NextKept
<1> QED BY <1>1, InitKept, PTL DEF Spec

-----------------------------------------------------------------------------
(* What it says of the runs' properties.                                    *)

(* A node whose blocks are numbered is a node of RecTree.                   *)
LEMMA NodeTyped ==
    ASSUME NEW n, Formed(n), Ents(n) \subseteq Int
    PROVE  IsNode(n)
<1>1. PICK E : n \in NodeOver(E)
  BY DEF Formed
<1>2. Len(n.blocks) \in Nat /\ n.blocks \in Seq(BlockOver(E))
  BY <1>1 DEF NodeOver
<1>3. \A j \in 1..Len(n.blocks) : n.blocks[j] \in Block
  <2> SUFFICES ASSUME NEW j \in 1..Len(n.blocks) PROVE n.blocks[j] \in Block
    OBVIOUS
  <2>1. n.blocks[j] \in BlockOver(E)
    BY <1>2
  <2>2. n.blocks[j].ent \in Int
    BY DEF Ents
  <2> QED BY <2>1, <2>2 DEF BlockOver, Block
<1>4. n.blocks \in Seq(Block)
  <2>1. n.blocks = [j \in 1..Len(n.blocks) |-> n.blocks[j]]
    BY <1>2
  <2> QED BY <2>1, <1>2, <1>3
<1>5. n \in [blocks : Seq(Block), recModEntry : Int, memRecIdx : Int]
  BY <1>1, <1>4 DEF NodeOver
<1>6. n.recModEntry \in 1..Len(n.blocks) /\ n.memRecIdx \in 0..MEMRECPERENTRY
  BY DEF Formed
<1> QED BY <1>5, <1>6 DEF IsNode

(* Every list is one insertRec's checks (awn.c:213, awn.c:224) take for
   whole, and every index is inside its pool, sweeps or not.                *)
THEOREM TreeTyped == Spec => []TypeOK
<1>1. ASSUME Kept PROVE TypeOK
  <2>0. Sound(recTree) /\ IsPool(recBlocks) /\ Partitioned(recBlocks, Used(recTree))
    BY <1>1 DEF Kept, Accounted
  <2>1. \A p \in Traced : IsNode(recTree[p])
    <3> SUFFICES ASSUME NEW p \in Traced PROVE IsNode(recTree[p])
      OBVIOUS
    <3>1. Formed(recTree[p])
      BY <2>0, UsableFormed DEF Sound, Traced
    <3>2. Ents(recTree[p]) \subseteq Used(recTree)
      BY DEF Used, Traced
    <3>3. Used(recTree) \subseteq 0..(recBlocks.size - 1)
      BY <2>0 DEF Partitioned
    <3>4. 0..(recBlocks.size - 1) \subseteq Int
      BY <2>0 DEF IsPool
    <3> QED BY <3>1, <3>2, <3>3, <3>4, NodeTyped
  <2>2. /\ RECTREENODEPOOLIDX \in 0..RECTREENODEPOOLSIZE
        /\ TAILHEADPOOLIDX \in 0..RECTREENODEPOOLSIZE
    BY <1>1 DEF Kept, Counted
  <2>3. /\ recTree = [p \in Traced |-> recTree[p]] /\ Traced \subseteq Pages
    BY <2>0 DEF Sound, Traced
  <2>4. /\ RECTREENODETHRESHOLD \in 0..RECTREENODEPOOLSIZE
        /\ openFileArray \subseteq Fds /\ halted \in BOOLEAN
    BY <1>1 DEF Kept
  <2> QED BY <2>0, <2>1, <2>2, <2>3, <2>4 DEF TypeOK
<1> QED BY <1>1, KeptInvariant, PTL

(* The block insertRec goes on filling is the newest of its list: no sweep
   leaves it inside the list, where a reader would take it for full.        *)
THEOREM NewestFilled == Spec => []FillingNewest
<1>1. ASSUME Kept PROVE FillingNewest
  BY <1>1 DEF Kept, Sound, Usable, FillingNewest, Traced
<1> QED BY <1>1, KeptInvariant, PTL

(* The sweep follows no fd it did not write: slot 0 of every block it can
   come to holds a record, whatever earlier sweeps moved or cut off.        *)
THEOREM SweepsReadRecords == Spec => []SweepReadsWritten
<1>1. ASSUME Kept PROVE SweepReadsWritten
  <2> SUFFICES ASSUME NEW p \in Traced, NEW j \in 1..Len(recTree[p].blocks)
               PROVE  recTree[p].blocks[j].recArr[0] # Unwritten
    BY DEF SweepReadsWritten
  <2>1. Usable(recTree[p])
    BY <1>1 DEF Kept, Sound, Traced
  <2>2. At(recTree[p], j, 0) \in Rec
    BY <2>1 DEF Usable
  <2> QED BY <2>2, UnwrittenAssumption DEF At
<1> QED BY <1>1, KeptInvariant, PTL

(* No block is lost, freed twice or on two lists, through any growths,
   restarts and sweeps, and heads go with nodes.                            *)
THEOREM PoolsStayBalanced == Spec => []PoolsBalanced
<1>1. ASSUME Kept PROVE PoolsBalanced
  <2>0. Apart(recTree) /\ Partitioned(recBlocks, Used(recTree))
    BY <1>1 DEF Kept, Accounted
  <2>1. \A a : a \in ListPlaces
                 <=> \E p \in Traced : \E j \in 1..Len(recTree[p].blocks) : a = <<p, j>>
    BY DEF ListPlaces
  <2>2. \A p \in Traced : \A j \in 1..Len(recTree[p].blocks) :
           EntAt(<<p, j>>) = recTree[p].blocks[j].ent
    BY DEF EntAt
  <2>3. \A a, b \in ListPlaces : EntAt(a) = EntAt(b) => a = b
    <3> SUFFICES ASSUME NEW a \in ListPlaces, NEW b \in ListPlaces,
                        EntAt(a) = EntAt(b)
                 PROVE  a = b
      OBVIOUS
    <3>a. PICK p \in Traced : \E j \in 1..Len(recTree[p].blocks) : a = <<p, j>>
      BY <2>1
    <3>b. PICK q \in Traced : \E k \in 1..Len(recTree[q].blocks) : b = <<q, k>>
      BY <2>1
    <3>1. PICK j \in 1..Len(recTree[p].blocks) : a = <<p, j>>
      BY <3>a
    <3>2. PICK k \in 1..Len(recTree[q].blocks) : b = <<q, k>>
      BY <3>b
    <3>3. recTree[p].blocks[j].ent = recTree[q].blocks[k].ent
      BY <2>2, <3>1, <3>2
    <3>4. p = q
      <4>1. /\ recTree[p].blocks[j].ent \in Ents(recTree[p])
            /\ recTree[q].blocks[k].ent \in Ents(recTree[q])
        BY DEF Ents
      <4> QED BY <4>1, <3>3, <2>0 DEF Apart, Traced
    <3>5. Distinct(recTree[p])
      BY <2>0 DEF Apart, Traced
    <3>6. j = k
      BY <3>3, <3>4, <3>5 DEF Distinct
    <3> QED BY <3>1, <3>2, <3>4, <3>6
  <2>4. {EntAt(a) : a \in ListPlaces} = Used(recTree)
    <3>1. ASSUME NEW a \in ListPlaces PROVE EntAt(a) \in Used(recTree)
      <4>a. PICK p \in Traced : \E j \in 1..Len(recTree[p].blocks) : a = <<p, j>>
        BY <2>1
      <4>1. PICK j \in 1..Len(recTree[p].blocks) : a = <<p, j>>
        BY <4>a
      <4>2. EntAt(a) \in Ents(recTree[p])
        BY <2>2, <4>1 DEF Ents
      <4> QED BY <4>2 DEF Used, Traced
    <3>2. ASSUME NEW c \in Used(recTree) PROVE \E a \in ListPlaces : c = EntAt(a)
      <4>1. PICK p \in Traced : c \in Ents(recTree[p])
        BY DEF Used, Traced
      <4>2. PICK j \in 1..Len(recTree[p].blocks) : c = recTree[p].blocks[j].ent
        BY <4>1 DEF Ents
      <4>3. <<p, j>> \in ListPlaces
        BY <2>1
      <4> QED BY <2>2, <4>2, <4>3
    <3> QED BY <3>1, <3>2
  <2>5. /\ RECTREENODEPOOLIDX = RECTREENODEPOOLSIZE - Cardinality(Traced)
        /\ TAILHEADPOOLIDX = RECTREENODEPOOLIDX
    BY <1>1 DEF Kept, Counted
  <2> QED BY <2>0, <2>3, <2>4, <2>5 DEF PoolsBalanced
<1> QED BY <1>1, KeptInvariant, PTL

(* What a sweep leaves of a node with one block, of mapped files.           *)
LEMMA ShortPageSwept ==
    ASSUME Kept, NEW V \in Visitable, NEW q \in Traced, Len(recTree[q].blocks) = 1,
           ~IsEmptyNode(recTree[q]),
           \A pl \in Places(recTree[q]) : RecAt(recTree[q], pl).fd \in openFileArray
    PROVE  q \in DOMAIN Reclaimed(V) /\ Reclaimed(V)[q] = recTree[q]
<1> DEFINE n == recTree[q]
<1>1. Usable(n) /\ Len(n.blocks) = 1 /\ ~IsEmptyNode(n)
  BY DEF Kept, Sound, Traced
<1>2. \A pl \in Places(n) : RecAt(n, pl).fd \in openFileArray
  OBVIOUS
<1>3. q \notin Removed(V)
  BY DEF Removed
<1>4. q \in DOMAIN Reclaimed(V)
      /\ Reclaimed(V)[q] = IF q \in V THEN Compact(n, openFileArray) ELSE n
  BY <1>3 DEF Reclaimed
<1> HIDE DEF n
<1>5. n.memRecIdx > 0 /\ n.recModEntry = 1
  BY <1>1, MemRecPerEntryAssumption DEF Usable, IsEmptyNode
<1>6. <<1, 0>> \in Places(n)
  <2>1. VisibleIn(n, 1) > 0
    BY <1>5 DEF VisibleIn
  <2>2. 1 \in 1..Len(n.blocks) /\ 0 \in Slots
    BY <1>1, MemRecPerEntryAssumption DEF Slots
  <2> QED BY <2>1, <2>2 DEF Places
<1>7. At(n, 1, 0).fd \in openFileArray
  <2>1. RecAt(n, <<1, 0>>) = At(n, 1, 0)
    BY DEF RecAt, At
  <2> QED BY <1>2, <1>6, <2>1
<1>8. Compact(n, openFileArray) = n
  BY <1>1, <1>7, ShortMappedStays
<1> QED BY <1>4, <1>8 DEF n

(* No addTreeNode, with or without a sweep, takes anything from the readers
   of a page whose records fit one block and are all of mapped files.       *)
THEOREM ShortMappedPagesStay == Spec => ShortMappedPageKept
<1> DEFINE Short(q) ==
             /\ Len(recTree[q].blocks) = 1 /\ ~IsEmptyNode(recTree[q])
             /\ \A pl \in Places(recTree[q]) : RecAt(recTree[q], pl).fd \in openFileArray
           Stays(q) == q \in DOMAIN recTree' /\ Log(recTree'[q]) = Log(recTree[q])
           A == NewPage => \A q \in Traced : Short(q) => Stays(q)
<1>1. ASSUME Kept, Next PROVE A
  <2>1. ASSUME DOMAIN recTree' = Traced, halted' = halted PROVE A
    BY <2>1 DEF NewPage
  <2>2. ASSUME NEW fd \in Fds, MapFile(fd) \/ UnmapFile(fd) PROVE A
    BY <2>1, <2>2 DEF MapFile, UnmapFile, Traced
  <2>3. ASSUME NEW p \in Pages, NEW r \in Rec, InsertFound(p, r) PROVE A
    <3>1. DOMAIN recTree' = Traced
      BY <1>1, <2>3, InsertFoundKept
    <3> QED BY <2>1, <2>3, <3>1 DEF InsertFound
  <2>4. ASSUME NEW t, NEW nodes, NEW heads, NEW pool, NEW p, NEW r, NEW q \in DOMAIN t,
               AddTreeNode(t, nodes, heads, pool, p, r), p \notin DOMAIN t
        PROVE  q \in DOMAIN recTree' /\ recTree'[q] = t[q]
    BY <2>4 DEF AddTreeNode
  <2>5. ASSUME NEW p \in Pages, NEW r \in Rec, InsertNew(p, r) PROVE A
    <3> SUFFICES ASSUME NEW q \in Traced PROVE Stays(q)
      OBVIOUS
    <3>1. /\ AddTreeNode(recTree, RECTREENODEPOOLIDX, TAILHEADPOOLIDX, recBlocks, p, r)
          /\ p \notin DOMAIN recTree /\ q \in DOMAIN recTree
      BY <2>5 DEF InsertNew, Traced
    <3>2. q \in DOMAIN recTree' /\ recTree'[q] = recTree[q]
      BY <2>4, <3>1
    <3> QED BY <3>2
  <2>6. ASSUME NEW p \in Pages, NEW r \in Rec, InsertReclaiming(p, r) PROVE A
    <3> SUFFICES ASSUME NEW q \in Traced, Short(q) PROVE Stays(q)
      OBVIOUS
    <3>1. PICK V \in Visitable :
            \/ recTree' = Reclaimed(V)
            \/ \E nodes, heads, pool : AddTreeNode(Reclaimed(V), nodes, heads, pool, p, r)
      BY <2>6 DEF InsertReclaiming
    <3>2. q \in DOMAIN Reclaimed(V) /\ Reclaimed(V)[q] = recTree[q]
      BY <1>1, ShortPageSwept
    <3>3. p \notin DOMAIN Reclaimed(V)
      BY <2>6 DEF InsertReclaiming, Reclaimed
    <3>4. CASE recTree' = Reclaimed(V)
      BY <3>2, <3>4
    <3>5. CASE \E nodes, heads, pool : AddTreeNode(Reclaimed(V), nodes, heads, pool, p, r)
      <4>1. PICK nodes, heads, pool : AddTreeNode(Reclaimed(V), nodes, heads, pool, p, r)
        BY <3>5
      <4>2. q \in DOMAIN recTree' /\ recTree'[q] = Reclaimed(V)[q]
        BY <2>4, <3>2, <3>3, <4>1
      <4> QED BY <3>2, <4>2
    <3> QED BY <3>1, <3>4, <3>5
  <2> HIDE DEF A
  <2> QED BY <1>1, <2>2, <2>3, <2>5, <2>6 DEF Next
<1>2. Kept /\ [Next]_vars => [A]_vars
  <2> HIDE DEF A
  <2> QED BY <1>1
<1>3. ShortMappedPageKept <=> [][A]_vars
  BY PTL DEF ShortMappedPageKept
<1> HIDE DEF A
<1> QED BY <1>2, <1>3, KeptInvariant, PTL DEF Spec

-----------------------------------------------------------------------------
(* Without sweeps: the instances in which the node pool is large enough that
   none is ever due.  There the records of a page ascend, and what its
   readers see is PageLog, which grows by the record copied or starts over
   with it.                                                                 *)

(* With at most 40% of RECTREENODEPOOLSIZE pages (3200 of 8000 as shipped)
   the free nodes never fall below RECTREENODETHRESHOLD.                    *)
PoolSuffices ==
    Cardinality(Pages) <= RECTREENODEPOOLSIZE - Threshold(RECTREENODEPOOLSIZE)

-----------------------------------------------------------------------------
(* Nodes whose records are in order.                                        *)
\* A place at or before the last written one of a node that fills its last
\* block.
Seen(n, j, i) ==
    /\ j \in 1..Len(n.blocks) /\ i \in Slots
    /\ j < Len(n.blocks) \/ i < n.memRecIdx

(* A node without gaps: it fills its newest block, has at least one record,
   and the records seen are written and ascend.                            *)
Shape(n) ==
    /\ Len(n.blocks) \in Nat \ {0}
    /\ n.recModEntry = Len(n.blocks)
    /\ n.memRecIdx \in 1..MEMRECPERENTRY
SeenInOrder(n) ==
    /\ \A j, i : Seen(n, j, i) => At(n, j, i) \in Rec
    /\ \A j, i, k, l :
          Seen(n, j, i) /\ Seen(n, k, l) /\ (j < k \/ (j = k /\ i < l))
             => At(n, j, i).pageOffset < At(n, k, l).pageOffset
NodeInv(n) == (\E E : n \in NodeOver(E)) /\ Shape(n) /\ SeenInOrder(n)

(* A reader's view of such a node is written and ascending.                *)
LEMMA NodeInvReads ==
    ASSUME NEW n, NodeInv(n)
    PROVE  AllWritten(n) /\ Ascending(n)
<1>1. ASSUME NEW pl \in Places(n)
      PROVE  Seen(n, pl[1], pl[2]) /\ RecAt(n, pl) = At(n, pl[1], pl[2])
  BY MemRecPerEntryAssumption
  DEF Places, VisibleIn, Seen, RecAt, At, NodeInv, Shape, Slots
<1>2. AllWritten(n)
  <2> SUFFICES ASSUME NEW pl \in Places(n) PROVE RecAt(n, pl) # Unwritten
    BY DEF AllWritten
  <2>1. Seen(n, pl[1], pl[2]) /\ RecAt(n, pl) = At(n, pl[1], pl[2])
    BY <1>1
  <2>2. At(n, pl[1], pl[2]) \in Rec
    BY <2>1 DEF NodeInv, SeenInOrder
  <2> QED BY <2>1, <2>2, UnwrittenAssumption
<1>3. Ascending(n)
  <2> SUFFICES ASSUME NEW a \in Places(n), NEW b \in Places(n), Before(a, b)
               PROVE  RecAt(n, a).pageOffset < RecAt(n, b).pageOffset
    BY DEF Ascending
  <2>1. Seen(n, a[1], a[2]) /\ RecAt(n, a) = At(n, a[1], a[2])
    BY <1>1
  <2>2. Seen(n, b[1], b[2]) /\ RecAt(n, b) = At(n, b[1], b[2])
    BY <1>1
  <2>3. a[1] < b[1] \/ (a[1] = b[1] /\ a[2] < b[2])
    BY DEF Before
  <2> QED BY <2>1, <2>2, <2>3 DEF NodeInv, SeenInOrder
<1> QED BY <1>2, <1>3

-----------------------------------------------------------------------------
(* What insertRec makes of a node.                                         *)

(* The first record of a one-block list filled from slot 0.                *)
LEMMA FirstRecordInv ==
    ASSUME NEW E, NEW n \in NodeOver(E), NEW r \in Rec,
           Len(n.blocks) = 1, n.recModEntry = 1, n.memRecIdx = 0
    PROVE  NodeInv(WriteRec(n, r, Unset))
<1> DEFINE m == WriteRec(n, r, Unset)
<1>1. /\ n.memRecIdx \in Slots /\ 1 \in 1..MEMRECPERENTRY
      /\ n.recModEntry \in 1..Len(n.blocks)
  BY MemRecPerEntryAssumption DEF Slots
<1>2. /\ m \in NodeOver(E) /\ Len(m.blocks) = 1 /\ m.recModEntry = 1
      /\ m.memRecIdx = 1
      /\ \A j \in 1..1, i \in Slots :
            At(m, j, i) = IF j = 1 /\ i = 0 THEN r ELSE At(n, j, i)
  <2>1. /\ m \in NodeOver(E) /\ Len(m.blocks) = Len(n.blocks)
        /\ m.recModEntry = n.recModEntry /\ m.memRecIdx = n.memRecIdx + 1
        /\ \A j \in 1..Len(n.blocks), i \in Slots :
              At(m, j, i) = IF j = n.recModEntry /\ i = n.memRecIdx
                            THEN r ELSE At(n, j, i)
    <3>1. LET w == WriteRec(n, r, Unset)
          IN  /\ w \in NodeOver(E)
              /\ Len(w.blocks) = Len(n.blocks)
              /\ w.recModEntry = n.recModEntry
              /\ w.memRecIdx = n.memRecIdx + 1
              /\ \A j \in 1..Len(n.blocks) : w.blocks[j].ent = n.blocks[j].ent
              /\ \A j \in 1..Len(n.blocks), i \in Slots :
                    At(w, j, i) = IF j = n.recModEntry /\ i = n.memRecIdx
                                  THEN r ELSE At(n, j, i)
      <4> HIDE DEF m
      <4> QED BY <1>1, WriteInPlaceEffect, ZenonT(30)
    <3> QED BY <3>1
  <2> HIDE DEF m
  <2> QED BY <2>1
<1> HIDE DEF m
<1>3. \A j, i : Seen(m, j, i) => j = 1 /\ i = 0 /\ At(m, j, i) = r
  BY <1>2 DEF Seen, Slots
<1>4. SeenInOrder(m)
  BY <1>3 DEF SeenInOrder
<1> QED BY <1>1, <1>2, <1>4 DEF NodeInv, Shape, m

(* The record insertRec compares with is the last one seen.                *)
LEMMA LastIsGreatest ==
    ASSUME NEW n, NodeInv(n), NEW j, NEW i, Seen(n, j, i)
    PROVE  /\ LastRec(n) \in Rec
           /\ At(n, j, i).pageOffset <= LastRec(n).pageOffset
<1> DEFINE b == Len(n.blocks)
           s == n.memRecIdx - 1
<1>1. Seen(n, b, s) /\ At(n, b, s) = LastRec(n)
  BY MemRecPerEntryAssumption
  DEF NodeInv, Shape, Seen, Slots, At, LastRec, ModBlock
<1>2. At(n, j, i) \in Rec /\ LastRec(n) \in Rec
  BY <1>1 DEF NodeInv, SeenInOrder
<1>3. (j = b /\ i = s) \/ (j < b \/ (j = b /\ i < s))
  BY DEF Seen, NodeInv, Shape, Slots
<1>4. CASE j = b /\ i = s
  BY <1>1, <1>2, <1>4, PageSizeAssumption DEF Rec
<1>5. CASE j < b \/ (j = b /\ i < s)
  <2>1. At(n, j, i).pageOffset < At(n, b, s).pageOffset
    BY <1>1, <1>5 DEF NodeInv, SeenInOrder
  <2> QED BY <1>1, <1>2, <2>1, PageSizeAssumption DEF Rec
<1> QED BY <1>2, <1>3, <1>4, <1>5

(* Appending a record beyond the last keeps the node in order, in the same
   block or in a new one.                                                  *)
LEMMA InPlaceInv ==
    ASSUME NEW n, NodeInv(n), NEW r \in Rec, ~NeedsBlock(n),
           LastRec(n).pageOffset < r.pageOffset
    PROVE  NodeInv(WriteRec(n, r, Unset))
<1> DEFINE m == WriteRec(n, r, Unset)
<1>0. PICK E : n \in NodeOver(E)
  BY DEF NodeInv
<1>1. /\ n.recModEntry = Len(n.blocks) /\ Len(n.blocks) \in Nat \ {0}
      /\ n.memRecIdx \in Slots /\ n.memRecIdx >= 1 /\ n.memRecIdx \in Int
  BY MemRecPerEntryAssumption DEF NodeInv, Shape, NeedsBlock, Slots
<1>2. /\ m \in NodeOver(E) /\ Len(m.blocks) = Len(n.blocks)
      /\ m.recModEntry = n.recModEntry /\ m.memRecIdx = n.memRecIdx + 1
      /\ \A j \in 1..Len(n.blocks), i \in Slots :
            At(m, j, i) = IF j = n.recModEntry /\ i = n.memRecIdx
                          THEN r ELSE At(n, j, i)
  BY <1>0, <1>1, WriteInPlaceEffect
<1> HIDE DEF m
<1>3. ASSUME NEW j, NEW i, Seen(m, j, i)
      PROVE  \/ j = Len(n.blocks) /\ i = n.memRecIdx /\ At(m, j, i) = r
             \/ Seen(n, j, i) /\ At(m, j, i) = At(n, j, i)
  BY <1>1, <1>2, <1>3 DEF Seen, Slots
<1>4. \A j, i : Seen(m, j, i) => At(m, j, i) \in Rec
  BY <1>3 DEF NodeInv, SeenInOrder
<1>5. ASSUME NEW j, NEW i, NEW k, NEW l, Seen(m, j, i), Seen(m, k, l),
             j < k \/ (j = k /\ i < l)
      PROVE  At(m, j, i).pageOffset < At(m, k, l).pageOffset
  <2>1. Seen(n, j, i) /\ At(m, j, i) = At(n, j, i)
    BY <1>1, <1>2, <1>3, <1>5 DEF Seen, Slots
  <2>2. CASE Seen(n, k, l) /\ At(m, k, l) = At(n, k, l)
    BY <1>5, <2>1, <2>2 DEF NodeInv, SeenInOrder
  <2>3. CASE k = Len(n.blocks) /\ l = n.memRecIdx /\ At(m, k, l) = r
    <3>1. At(n, j, i).pageOffset <= LastRec(n).pageOffset /\ LastRec(n) \in Rec
      BY <2>1, LastIsGreatest
    <3>2. At(n, j, i) \in Rec
      BY <2>1 DEF NodeInv, SeenInOrder
    <3> QED BY <2>1, <2>3, <3>1, <3>2, PageSizeAssumption DEF Rec
  <2> QED BY <1>3, <1>5, <2>2, <2>3
<1>6. SeenInOrder(m)
  BY <1>4, <1>5 DEF SeenInOrder
<1>7. Shape(m)
  BY <1>1, <1>2, MemRecPerEntryAssumption DEF Shape, Slots
<1> QED BY <1>2, <1>6, <1>7 DEF NodeInv, m

(* The same when the block is full.                                       *)
LEMMA NewBlockInv ==
    ASSUME NEW n, NodeInv(n), NEW r \in Rec, NEW e, NeedsBlock(n),
           LastRec(n).pageOffset < r.pageOffset
    PROVE  NodeInv(WriteRec(n, r, e))
<1> DEFINE m == WriteRec(n, r, e)
<1>0. PICK E : n \in NodeOver(E)
  BY DEF NodeInv
<1>1. /\ Len(n.blocks) \in Nat \ {0}
      /\ n.memRecIdx = MEMRECPERENTRY
  BY MemRecPerEntryAssumption DEF NodeInv, Shape, NeedsBlock
<1>2. /\ m \in NodeOver(E \cup {e}) /\ Len(m.blocks) = Len(n.blocks) + 1
      /\ m.recModEntry = Len(n.blocks) + 1 /\ m.memRecIdx = 1
      /\ At(m, Len(n.blocks) + 1, 0) = r
      /\ \A j \in 1..Len(n.blocks), i \in Slots : At(m, j, i) = At(n, j, i)
  BY <1>0, WriteInNewBlockEffect
<1> HIDE DEF m
<1>3. ASSUME NEW j, NEW i, Seen(m, j, i)
      PROVE  \/ j = Len(n.blocks) + 1 /\ i = 0 /\ At(m, j, i) = r
             \/ Seen(n, j, i) /\ At(m, j, i) = At(n, j, i)
  <2>1. CASE j = Len(n.blocks) + 1
    BY <1>1, <1>2, <1>3, <2>1 DEF Seen, Slots
  <2>2. CASE j # Len(n.blocks) + 1
    <3>1. j \in 1..Len(n.blocks) /\ i \in Slots
      BY <1>1, <1>2, <1>3, <2>2 DEF Seen
    <3>2. i < n.memRecIdx
      BY <1>1, <3>1, MemRecPerEntryAssumption DEF Slots
    <3> QED BY <1>2, <3>1, <3>2 DEF Seen
  <2> QED BY <2>1, <2>2
<1>4. \A j, i : Seen(m, j, i) => At(m, j, i) \in Rec
  BY <1>3 DEF NodeInv, SeenInOrder
<1>5. ASSUME NEW j, NEW i, NEW k, NEW l, Seen(m, j, i), Seen(m, k, l),
             j < k \/ (j = k /\ i < l)
      PROVE  At(m, j, i).pageOffset < At(m, k, l).pageOffset
  <2>1. Seen(n, j, i) /\ At(m, j, i) = At(n, j, i)
    <3>1. ~(j = Len(n.blocks) + 1 /\ i = 0)
      BY <1>1, <1>2, <1>5 DEF Seen, Slots
    <3> QED BY <1>3, <1>5, <3>1
  <2>2. CASE Seen(n, k, l) /\ At(m, k, l) = At(n, k, l)
    BY <1>5, <2>1, <2>2 DEF NodeInv, SeenInOrder
  <2>3. CASE k = Len(n.blocks) + 1 /\ l = 0 /\ At(m, k, l) = r
    <3>1. At(n, j, i).pageOffset <= LastRec(n).pageOffset /\ LastRec(n) \in Rec
      BY <2>1, LastIsGreatest
    <3>2. At(n, j, i) \in Rec
      BY <2>1 DEF NodeInv, SeenInOrder
    <3> QED BY <2>1, <2>3, <3>1, <3>2, PageSizeAssumption DEF Rec
  <2> QED BY <1>3, <1>5, <2>2, <2>3
<1>6. SeenInOrder(m)
  BY <1>4, <1>5 DEF SeenInOrder
<1>7. Shape(m)
  BY <1>1, <1>2, MemRecPerEntryAssumption DEF Shape
<1> QED BY <1>2, <1>6, <1>7 DEF NodeInv, m

(* A record at or below the last one restarts the list.                    *)
LEMMA RestartInv ==
    ASSUME NEW n, NodeInv(n), NEW r \in Rec
    PROVE  NodeInv(WriteRec(Restart(n), r, Unset))
<1>1. PICK E : n \in NodeOver(E)
  BY DEF NodeInv
<1>2. Len(n.blocks) \in Nat \ {0}
  BY DEF NodeInv, Shape
<1> QED BY <1>1, <1>2, RestartEffect, FirstRecordInv

(* The node of a page that enters the tree.                                *)
LEMMA NewNodeInv ==
    ASSUME NEW e, NEW r \in Rec
    PROVE  NodeInv(WriteRec(NewNode(e), r, Unset))
  BY NewNodeEffect, FirstRecordInv

-----------------------------------------------------------------------------
(* The component.  PageOrdered is not inductive: that the order survives a
   step needs the node to fill its newest block with all the others full
   (NodeInv), and that no sweep comes in needs the count of the free nodes
   and the threshold they are compared with.                               *)
OrderInv ==
    /\ recTree = [p \in Traced |-> recTree[p]]
    /\ Traced \subseteq Pages
    /\ \A p \in Traced : NodeInv(recTree[p])
    /\ RECTREENODEPOOLIDX = RECTREENODEPOOLSIZE - Cardinality(Traced)
    /\ RECTREENODETHRESHOLD = Threshold(RECTREENODEPOOLSIZE)
    /\ ~halted

(* A tree with room for a page outside it has a free node to spare.        *)
LEMMA NoSweepDue ==
    ASSUME PoolSuffices, OrderInv, NEW p \in Pages, p \notin Traced
    PROVE  ~SweepDue
<1>0. Traced \in SUBSET Pages /\ Traced # Pages /\ IsFiniteSet(Pages)
  BY PagesAssumption DEF OrderInv
<1>a. /\ IsFiniteSet(Traced)
      /\ Cardinality(Traced) <= Cardinality(Pages)
      /\ Cardinality(Traced) # Cardinality(Pages)
  BY <1>0, FS_Subset
<1>1. /\ Cardinality(Traced) <= Cardinality(Pages)
      /\ Cardinality(Traced) # Cardinality(Pages)
      /\ Cardinality(Traced) \in Nat /\ Cardinality(Pages) \in Nat
  BY <1>0, <1>a, FS_CardinalityType
<1>2. Threshold(RECTREENODEPOOLSIZE) \in Nat
  BY NodePoolAssumption, RatioAssumption DEF Threshold
<1> DEFINE t == Threshold(RECTREENODEPOOLSIZE)
<1>3. /\ RECTREENODEPOOLIDX = RECTREENODEPOOLSIZE - Cardinality(Traced)
      /\ RECTREENODETHRESHOLD = t
      /\ Cardinality(Pages) <= RECTREENODEPOOLSIZE - t
      /\ t \in Nat /\ RECTREENODEPOOLSIZE \in Nat
  BY <1>2, NodePoolAssumption DEF PoolSuffices, OrderInv
<1> HIDE DEF t
<1> QED
  BY <1>1, <1>3 DEF SweepDue

(* initMemory: no page is traced and every node is free.                   *)
LEMMA InitOrder == Init => OrderInv
<1> SUFFICES ASSUME Init PROVE OrderInv
  OBVIOUS
<1>1. Traced = {}
  BY DEF Init, Traced
<1>2. Cardinality(Traced) = 0
  BY <1>1, FS_EmptySet
<1>3. recTree = [p \in Traced |-> recTree[p]]
  BY <1>1 DEF Init
<1>4. RECTREENODEPOOLIDX = RECTREENODEPOOLSIZE - Cardinality(Traced)
  BY <1>2, NodePoolAssumption DEF Init
<1> QED BY <1>1, <1>3, <1>4 DEF Init, OrderInv

(* A copy into a page already traced.                                      *)
LEMMA InsertFoundOrder ==
    ASSUME OrderInv, NEW p \in Pages, NEW r \in Rec, InsertFound(p, r)
    PROVE  OrderInv'
<1> DEFINE n == recTree[p]
<1>1. p \in Traced /\ NodeInv(n) /\ Traced = DOMAIN recTree
  BY DEF InsertFound, OrderInv, Traced
<1>2. /\ n.memRecIdx \in 1..MEMRECPERENTRY
      /\ LastRec(n) \in Rec /\ LastRec(n) # Unwritten
  <2>1. Seen(n, Len(n.blocks), n.memRecIdx - 1)
    BY <1>1, MemRecPerEntryAssumption DEF NodeInv, Shape, Seen, Slots
  <2> HIDE DEF n
  <2>2. LastRec(n) \in Rec
    BY <1>1, <2>1, LastIsGreatest
  <2> QED BY <1>1, <2>2, UnwrittenAssumption DEF NodeInv, Shape
<1>3. LastRec(n).pageOffset \in Int /\ r.pageOffset \in Int
  BY <1>2, PageSizeAssumption DEF Rec
<1>4. OutOfOrder(n, r.pageOffset) = {LastRec(n).pageOffset >= r.pageOffset}
  <2> HIDE DEF n
  <2>1. n.memRecIdx # 0
    BY <1>2, MemRecPerEntryAssumption
  <2> QED BY <1>2, <2>1 DEF OutOfOrder
<1>5. \E m : NodeInv(m) /\ recTree' = [recTree EXCEPT ![p] = m]
  <2>1. \/ /\ LastRec(n).pageOffset >= r.pageOffset
           /\ RestartAndWrite(p, r)
        \/ /\ ~(LastRec(n).pageOffset >= r.pageOffset) /\ NeedsBlock(n)
           /\ WriteInNewBlock(p, r)
        \/ /\ ~(LastRec(n).pageOffset >= r.pageOffset) /\ ~NeedsBlock(n)
           /\ WriteInPlace(p, r)
    BY <1>4 DEF InsertFound
  <2>2. CASE RestartAndWrite(p, r)
    <3>1. recTree' = [recTree EXCEPT ![p] = WriteRec(Restart(n), r, Unset)]
      BY <2>2, <1>1 DEF RestartAndWrite
    <3> QED BY <3>1, <1>1, RestartInv
  <2>3. CASE /\ ~(LastRec(n).pageOffset >= r.pageOffset) /\ NeedsBlock(n)
             /\ WriteInNewBlock(p, r)
    <3> DEFINE e == Top(Replenish(recBlocks))
    <3>1. recTree' = [recTree EXCEPT ![p] = WriteRec(n, r, e)]
      BY <2>3, <1>1 DEF WriteInNewBlock
    <3>2. LastRec(n).pageOffset < r.pageOffset
      BY <2>3, <1>3
    <3> HIDE DEF e, n
    <3> QED BY <2>3, <3>1, <3>2, <1>1, NewBlockInv
  <2>4. CASE /\ ~(LastRec(n).pageOffset >= r.pageOffset) /\ ~NeedsBlock(n)
             /\ WriteInPlace(p, r)
    <3>1. recTree' = [recTree EXCEPT ![p] = WriteRec(n, r, Unset)]
      BY <2>4, <1>1 DEF WriteInPlace
    <3>2. LastRec(n).pageOffset < r.pageOffset
      BY <2>4, <1>3
    <3> HIDE DEF n
    <3> QED BY <2>4, <3>1, <3>2, <1>1, InPlaceInv
  <2> QED BY <2>1, <2>2, <2>3, <2>4
<1>6. PICK m : NodeInv(m) /\ recTree' = [recTree EXCEPT ![p] = m]
  BY <1>5
<1>7. DOMAIN recTree' = DOMAIN recTree
  BY <1>6
<1>8. \A q \in Traced : NodeInv(recTree'[q])
  <2>1. \A q \in DOMAIN recTree : recTree'[q] = IF q = p THEN m ELSE recTree[q]
    BY <1>6
  <2> QED BY <1>1, <1>6, <2>1 DEF OrderInv
<1>9. /\ RECTREENODEPOOLIDX' = RECTREENODEPOOLIDX /\ halted' = halted
      /\ RECTREENODETHRESHOLD' = RECTREENODETHRESHOLD
  BY DEF InsertFound
<1>10. recTree' = [q \in DOMAIN recTree' |-> recTree'[q]]
  BY <1>6
<1> QED BY <1>7, <1>8, <1>9, <1>10 DEF OrderInv, Traced

(* A copy into a page that enters the tree.                                *)
LEMMA InsertNewOrder ==
    ASSUME OrderInv, NEW p \in Pages, NEW r \in Rec, InsertNew(p, r)
    PROVE  OrderInv'
<1> DEFINE m == WriteRec(NewNode(Top(Replenish(recBlocks))), r, Unset)
<1>1. /\ p \notin Traced
      /\ recTree' = [q \in Traced \cup {p} |-> IF q = p THEN m ELSE recTree[q]]
      /\ RECTREENODEPOOLIDX' = RECTREENODEPOOLIDX - 1
      /\ RECTREENODETHRESHOLD' = RECTREENODETHRESHOLD /\ halted' = halted
  BY DEF InsertNew, AddTreeNode, Traced
<1>2. NodeInv(m)
  BY NewNodeInv
<1> HIDE DEF m
<1>3. DOMAIN recTree' = Traced \cup {p}
  BY <1>1
<1>4. \A q \in Traced \cup {p} : recTree'[q] = IF q = p THEN m ELSE recTree[q]
  BY <1>1
<1>5. \A q \in DOMAIN recTree' : NodeInv(recTree'[q])
  BY <1>2, <1>3, <1>4 DEF OrderInv
<1>6. IsFiniteSet(Traced) /\ Cardinality(Traced) \in Nat
  <2>1. Traced \in SUBSET Pages /\ IsFiniteSet(Pages)
    BY PagesAssumption DEF OrderInv
  <2>2. IsFiniteSet(Traced)
    BY <2>1, FS_Subset
  <2> QED BY <2>2, FS_CardinalityType
<1>7. Cardinality(Traced \cup {p}) = Cardinality(Traced) + 1
  BY <1>1, <1>6, FS_AddElement
<1>8. RECTREENODEPOOLIDX' = RECTREENODEPOOLSIZE - Cardinality(DOMAIN recTree')
  BY <1>1, <1>3, <1>6, <1>7, NodePoolAssumption DEF OrderInv
<1>9. recTree' = [q \in DOMAIN recTree' |-> recTree'[q]]
  BY <1>1, <1>3
<1> QED BY <1>1, <1>3, <1>5, <1>8, <1>9 DEF OrderInv, Traced

(* Every step of the library, while the pool suffices.                     *)
LEMMA NextOrder ==
    ASSUME PoolSuffices, OrderInv, [Next]_vars
    PROVE  OrderInv'
<1>1. ASSUME NEW fd \in Fds, MapFile(fd) \/ UnmapFile(fd) PROVE OrderInv'
  BY <1>1 DEF MapFile, UnmapFile, OrderInv, Traced
<1>2. ASSUME NEW p \in Pages, NEW r \in Rec, InsertFound(p, r) PROVE OrderInv'
  BY <1>2, InsertFoundOrder
<1>3. ASSUME NEW p \in Pages, NEW r \in Rec, InsertNew(p, r) PROVE OrderInv'
  BY <1>3, InsertNewOrder
<1>4. ASSUME NEW p \in Pages, NEW r \in Rec, InsertReclaiming(p, r) PROVE FALSE
  BY <1>4, NoSweepDue DEF InsertReclaiming
<1>5. CASE UNCHANGED vars
  BY <1>5 DEF vars, OrderInv, Traced
<1> QED BY <1>1, <1>2, <1>3, <1>4, <1>5 DEF Next

(* The order of every page's list is an invariant of the library as long as
   the program copies into no more pages than leave the sweep undue.       *)
THEOREM OrderInvariance == PoolSuffices => (Spec => []OrderInv)
<1> SUFFICES ASSUME PoolSuffices PROVE Spec => []OrderInv
  OBVIOUS
<1>1. OrderInv /\ [Next]_vars => OrderInv'
  BY NextOrder
<1> QED BY <1>1, InitOrder, PTL DEF Spec

(* While the pool suffices, every page's records ascend and are all written,
   however many blocks a list grows to and however often it restarts.      *)
THEOREM OrderedWhilePoolSuffices == PoolSuffices => (Spec => []PageOrdered)
<1> SUFFICES ASSUME PoolSuffices PROVE Spec => []PageOrdered
  OBVIOUS
<1>1. OrderInv => PageOrdered
  BY NodeInvReads DEF OrderInv, PageOrdered
<1> QED BY <1>1, OrderInvariance, PTL

(* And the assertion of allocateRecTreeNode never fails.                   *)
THEOREM NodePoolNeverEmpty == PoolSuffices => (Spec => []~halted)
<1> SUFFICES ASSUME PoolSuffices PROVE Spec => []~halted
  OBVIOUS
<1>1. OrderInv => ~halted
  BY DEF OrderInv
<1> QED BY <1>1, OrderInvariance, PTL

-----------------------------------------------------------------------------
(* The log of a node.                                                       *)

(* The reader of a node visits finitely many places, one at each rank.      *)
Ranked(n) ==
    /\ IsFiniteSet(Places(n))
    /\ \A k \in 1..Cardinality(Places(n)) : \E pl \in Places(n) : Rank(n, pl) = k - 1

(* A node with nothing to read.                                             *)
LEMMA EmptyLog ==
    ASSUME NEW n, Places(n) = {}
    PROVE  Ranked(n) /\ Log(n) = << >>
<1>1. IsFiniteSet(Places(n)) /\ Cardinality(Places(n)) = 0
  BY FS_EmptySet
<1>2. 1..Cardinality(Places(n)) = {}
  BY <1>1
<1>3. Log(n) \in Seq({}) /\ Len(Log(n)) = 0
  BY <1>1, <1>2 DEF Log
<1> QED BY <1>1, <1>2, <1>3 DEF Ranked

(* A place is added behind all the others: the log grows at its end.        *)
LEMMA LogGrows ==
    ASSUME NEW n, NEW m, NEW new, Ranked(n),
           Places(m) = Places(n) \cup {new}, new \notin Places(n),
           ~Before(new, new),
           \A q \in Places(n) : /\ Before(q, new) /\ ~Before(new, q) /\ ~Before(q, q)
                                /\ RecAt(m, q) = RecAt(n, q)
    PROVE  Ranked(m) /\ Log(m) = Append(Log(n), RecAt(m, new))
<1> DEFINE P == Places(n)
           c == Cardinality(P)
           At0(N, k) == {pl \in Places(N) : Rank(N, pl) = k - 1}
<1>1. IsFiniteSet(P) /\ c \in Nat
  BY FS_CardinalityType DEF Ranked
<1>2. IsFiniteSet(Places(m)) /\ Cardinality(Places(m)) = c + 1
  BY <1>1, FS_AddElement
<1>3. \A pl \in P : Rank(m, pl) = Rank(n, pl)
  <2> SUFFICES ASSUME NEW pl \in P PROVE Rank(m, pl) = Rank(n, pl)
    OBVIOUS
  <2>1. {q \in Places(m) : Before(q, pl)} = {q \in P : Before(q, pl)}
    OBVIOUS
  <2> QED BY <2>1 DEF Rank
<1>4. Rank(m, new) = c
  <2>1. {q \in Places(m) : Before(q, new)} = P
    OBVIOUS
  <2> QED BY <2>1 DEF Rank
<1>5. \A pl \in P : Rank(n, pl) \in Nat /\ Rank(n, pl) < c
  <2> SUFFICES ASSUME NEW pl \in P PROVE Rank(n, pl) \in Nat /\ Rank(n, pl) < c
    OBVIOUS
  <2> DEFINE B == {q \in P : Before(q, pl)}
  <2>1. B \in SUBSET P /\ B # P
    OBVIOUS
  <2>2. IsFiniteSet(B) /\ Cardinality(B) <= c /\ Cardinality(B) # c
    BY <2>1, <1>1, FS_Subset
  <2>3. Cardinality(B) \in Nat
    BY <2>2, FS_CardinalityType
  <2>4. Rank(n, pl) = Cardinality(B)
    BY DEF Rank
  <2> HIDE DEF B, c
  <2> QED BY <1>1, <2>2, <2>3, <2>4
<1>6. \A k \in 1..c : At0(m, k) = At0(n, k)
  <2> SUFFICES ASSUME NEW k \in 1..c PROVE At0(m, k) = At0(n, k)
    OBVIOUS
  <2>1. Rank(m, new) # k - 1
    BY <1>1, <1>4
  <2> QED BY <2>1, <1>3
<1>7. At0(m, c + 1) = {new}
  <2>1. \A pl \in P : Rank(m, pl) # (c + 1) - 1
    BY <1>1, <1>3, <1>5
  <2>2. Rank(m, new) = (c + 1) - 1
    BY <1>1, <1>4
  <2> HIDE DEF c
  <2> QED BY <2>1, <2>2
<1> DEFINE Nth(N, k) == CHOOSE pl \in Places(N) : Rank(N, pl) = k - 1
<1>8. \A N, k : Nth(N, k) = CHOOSE pl \in At0(N, k) : TRUE
  OBVIOUS
<1>9. Nth(m, c + 1) = new
  BY <1>7, <1>8
<1>10. \A k \in 1..c : Nth(m, k) = Nth(n, k) /\ Nth(n, k) \in P
  <2> SUFFICES ASSUME NEW k \in 1..c PROVE Nth(m, k) = Nth(n, k) /\ Nth(n, k) \in P
    OBVIOUS
  <2>1. Nth(m, k) = Nth(n, k)
    BY <1>6, <1>8
  <2>2. \E pl \in P : Rank(n, pl) = k - 1
    BY DEF Ranked
  <2> QED BY <2>1, <2>2
<1>11. \A k \in 1..(c + 1) : \E pl \in Places(m) : Rank(m, pl) = k - 1
  <2> SUFFICES ASSUME NEW k \in 1..(c + 1)
               PROVE  \E pl \in Places(m) : Rank(m, pl) = k - 1
    OBVIOUS
  <2>1. CASE k \in 1..c
    <3>1. PICK pl \in P : Rank(n, pl) = k - 1
      BY <2>1 DEF Ranked
    <3> QED BY <3>1, <1>3
  <2>2. CASE k = c + 1
    <3>1. Rank(m, new) = k - 1
      BY <2>2, <1>1, <1>4
    <3> QED BY <3>1
  <2> HIDE DEF c
  <2> QED BY <1>1, <2>1, <2>2
<1>12. Ranked(m)
  BY <1>2, <1>11 DEF Ranked
<1>13. /\ Log(n) = [k \in 1..c |-> RecAt(n, Nth(n, k))]
       /\ Log(m) = [k \in 1..(c + 1) |-> RecAt(m, Nth(m, k))]
  BY <1>2 DEF Log
<1> HIDE DEF c, Nth
<1>14. Len(Log(n)) = c /\ \A k \in 1..c : Log(n)[k] = RecAt(n, Nth(n, k))
  BY <1>1, <1>13
<1> DEFINE r == RecAt(m, new)
           V == {Log(n)[k] : k \in 1..c} \cup {r}
           grown == [k \in 1..(c + 1) |-> IF k = c + 1 THEN r ELSE Log(n)[k]]
<1>15. Append(Log(n), r) = grown
  <2>1. Log(n) \in Seq(V)
    <3>1. Log(n) = [k \in 1..c |-> Log(n)[k]]
      BY <1>13, <1>14
    <3> QED BY <1>1, <3>1
  <2>2. /\ Append(Log(n), r) \in Seq(V)
        /\ Len(Append(Log(n), r)) = c + 1
        /\ Append(Log(n), r)[c + 1] = r
        /\ \A k \in 1..c : Append(Log(n), r)[k] = Log(n)[k]
    BY <2>1, <1>1, <1>14, AppendProperties
  <2>3. grown \in Seq(V) /\ Len(grown) = c + 1
    BY <1>1
  <2>4. \A k \in 1..(c + 1) : Append(Log(n), r)[k] = grown[k]
    BY <1>1, <2>2
  <2> HIDE DEF grown, V, r
  <2> QED BY <2>2, <2>3, <2>4, SeqEqual
<1>16. \A k \in 1..(c + 1) :
          RecAt(m, Nth(m, k)) = IF k = c + 1 THEN RecAt(m, new) ELSE Log(n)[k]
  <2> SUFFICES ASSUME NEW k \in 1..(c + 1), k # c + 1
               PROVE  RecAt(m, Nth(m, k)) = Log(n)[k]
    BY <1>9
  <2>1. k \in 1..c
    BY <1>1
  <2> QED BY <2>1, <1>10, <1>14
<1> QED BY <1>12, <1>13, <1>15, <1>16

(* The last record of the log is the one insertRec compares with.           *)
LEMMA LogEnds ==
    ASSUME NEW n, NodeInv(n), Ranked(n)
    PROVE  /\ Log(n) # << >>
           /\ Log(n)[Len(Log(n))] = LastRec(n)
<1> DEFINE P == Places(n)
           c == Cardinality(P)
           last == <<Len(n.blocks), n.memRecIdx - 1>>
<1>0. /\ n.recModEntry = Len(n.blocks) /\ Len(n.blocks) \in Nat \ {0}
      /\ n.memRecIdx \in 1..MEMRECPERENTRY
  BY DEF NodeInv, Shape
<1>1. last \in P /\ RecAt(n, last) = LastRec(n)
  <2>1. n.memRecIdx - 1 \in Slots /\ n.memRecIdx - 1 < n.memRecIdx
    BY <1>0, MemRecPerEntryAssumption DEF Slots
  <2>2. last \in (1..Len(n.blocks)) \X Slots
    BY <2>1, <1>0
  <2> QED BY <1>0, <2>1, <2>2 DEF Places, VisibleIn, RecAt, LastRec, ModBlock
<1>2. \A q \in P : q # last => Before(q, last)
  <2> SUFFICES ASSUME NEW q \in P, q # last PROVE Before(q, last)
    OBVIOUS
  <2>1. /\ q \in (1..Len(n.blocks)) \X Slots
        /\ q[1] = Len(n.blocks) => q[2] < n.memRecIdx
    BY <1>0 DEF Places, VisibleIn
  <2>2. q = <<q[1], q[2]>> /\ q[1] \in 1..Len(n.blocks) /\ q[2] \in Slots
    BY <2>1
  <2>3. q[1] # Len(n.blocks) \/ q[2] # n.memRecIdx - 1
    BY <2>2
  <2> QED BY <1>0, <2>1, <2>2, <2>3, MemRecPerEntryAssumption DEF Before, Slots
<1>3. IsFiniteSet(P) /\ c \in Nat /\ c # 0
  <2>1. IsFiniteSet(P)
    BY DEF Ranked
  <2> QED BY <2>1, <1>1, FS_CardinalityType, FS_EmptySet
<1>4. IsFiniteSet(P \ {last}) /\ Cardinality(P \ {last}) = c - 1
  BY <1>1, <1>3, FS_RemoveElement
<1>5. ASSUME NEW pl \in P, Rank(n, pl) = c - 1 PROVE pl = last
  <2> SUFFICES ASSUME pl # last PROVE FALSE
    OBVIOUS
  <2> DEFINE B == {q \in P : Before(q, pl)}
  <2>1. ~Before(pl, pl) /\ ~Before(last, pl)
    <3>1. pl \in (1..Len(n.blocks)) \X Slots /\ last \in (1..Len(n.blocks)) \X Slots
      BY <1>1 DEF Places
    <3>2. /\ pl[1] \in Int /\ pl[2] \in Int
          /\ last[1] \in Int /\ last[2] \in Int
      BY <3>1, MemRecPerEntryAssumption DEF Slots
    <3>3. Before(pl, last)
      BY <1>2
    <3> HIDE DEF last
    <3> QED BY <3>2, <3>3 DEF Before
  <2>2. B \in SUBSET (P \ {last}) /\ B # P \ {last}
    BY <2>1
  <2>3. Cardinality(B) # c - 1
    BY <2>2, <1>4, FS_Subset
  <2>4. Rank(n, pl) = Cardinality(B)
    BY DEF Rank
  <2> QED BY <1>5, <2>3, <2>4
<1>6. \E pl \in P : Rank(n, pl) = c - 1
  <2>1. c \in 1..c
    BY <1>3
  <2> QED BY <2>1 DEF Ranked
<1>7. (CHOOSE pl \in P : Rank(n, pl) = c - 1) = last
  BY <1>5, <1>6
<1>8. Log(n) = [k \in 1..c |-> RecAt(n, CHOOSE pl \in P : Rank(n, pl) = k - 1)]
  BY DEF Log
<1>9. Len(Log(n)) = c /\ Log(n)[c] = LastRec(n)
  <2>1. c \in 1..c
    BY <1>3
  <2> HIDE DEF P, c, last
  <2> QED BY <1>1, <1>3, <1>7, <1>8, <2>1
<1> QED BY <1>3, <1>9

-----------------------------------------------------------------------------
(* What writeRec adds to the log.                                           *)

(* A place of a node that fills its newest block.                           *)
LEMMA PlacesOf ==
    ASSUME NEW n, n.recModEntry = Len(n.blocks), NEW pl
    PROVE  pl \in Places(n)
             <=> /\ pl \in (1..Len(n.blocks)) \X Slots
                 /\ pl[1] = Len(n.blocks) => pl[2] < n.memRecIdx
<1>1. ASSUME pl \in (1..Len(n.blocks)) \X Slots
      PROVE  pl[2] \in Slots /\ pl[2] < MEMRECPERENTRY
  BY <1>1, MemRecPerEntryAssumption DEF Slots
<1> QED BY <1>1 DEF Places, VisibleIn

(* In a block with room.                                                    *)
LEMMA InPlaceGrows ==
    ASSUME NEW E, NEW n \in NodeOver(E), NEW r \in Rec, Ranked(n),
           Len(n.blocks) \in Nat \ {0}, n.recModEntry = Len(n.blocks),
           n.memRecIdx \in Slots
    PROVE  LET m == WriteRec(n, r, Unset)
           IN  Ranked(m) /\ Log(m) = Append(Log(n), r)
<1> DEFINE m == WriteRec(n, r, Unset)
           l == Len(n.blocks)
           s == n.memRecIdx
           new == <<l, s>>
<1>1. /\ Len(m.blocks) = l /\ m.recModEntry = l /\ m.memRecIdx = s + 1
      /\ \A j \in 1..l, i \in Slots :
            At(m, j, i) = IF j = l /\ i = s THEN r ELSE At(n, j, i)
  BY WriteInPlaceEffect
<1> HIDE DEF m
<1>2. l \in Nat \ {0} /\ s \in Slots /\ s \in Nat /\ \A i \in Slots : i \in Nat
  BY MemRecPerEntryAssumption DEF Slots
<1>3. \A pl : /\ pl \in Places(n) <=> /\ pl \in (1..l) \X Slots
                                      /\ pl[1] = l => pl[2] < s
              /\ pl \in Places(m) <=> /\ pl \in (1..l) \X Slots
                                      /\ pl[1] = l => pl[2] < s + 1
  BY <1>1, PlacesOf
<1>4. new \in (1..l) \X Slots /\ new[1] = l /\ new[2] = s
  BY <1>2
<1>5. \A pl \in (1..l) \X Slots :
          /\ pl = <<pl[1], pl[2]>> /\ pl[1] \in 1..l /\ pl[2] \in Slots
          /\ pl[1] = l /\ pl[2] = s => pl = new
  OBVIOUS
<1> HIDE DEF new, l, s
<1>6. Places(m) = Places(n) \cup {new} /\ new \notin Places(n)
  <2>1. ASSUME NEW pl \in Places(n) PROVE pl \in Places(m)
    <3>1. pl \in (1..l) \X Slots /\ (pl[1] = l => pl[2] < s)
      BY <1>3
    <3>2. pl[2] \in Nat
      BY <3>1, <1>2, <1>5
    <3> QED BY <3>1, <3>2, <1>2, <1>3
  <2>2. new \in Places(m) /\ new \notin Places(n)
    BY <1>2, <1>3, <1>4
  <2>3. ASSUME NEW pl \in Places(m), pl # new PROVE pl \in Places(n)
    <3>1. pl \in (1..l) \X Slots /\ (pl[1] = l => pl[2] < s + 1)
      BY <1>3
    <3>2. pl[2] \in Nat /\ ~(pl[1] = l /\ pl[2] = s)
      BY <3>1, <2>3, <1>2, <1>5
    <3> QED BY <3>1, <3>2, <1>2, <1>3
  <2> QED BY <2>1, <2>2, <2>3
<1>7. \A q \in Places(n) : /\ Before(q, new) /\ ~Before(new, q) /\ ~Before(q, q)
                           /\ RecAt(m, q) = RecAt(n, q)
  <2> SUFFICES ASSUME NEW q \in Places(n)
               PROVE  /\ Before(q, new) /\ ~Before(new, q) /\ ~Before(q, q)
                      /\ RecAt(m, q) = RecAt(n, q)
    OBVIOUS
  <2>0. q \in (1..l) \X Slots /\ (q[1] = l => q[2] < s)
    BY <1>3
  <2>1. q[1] \in 1..l /\ q[2] \in Slots /\ q[2] \in Nat
    BY <2>0, <1>2, <1>5
  <2>2. Before(q, new) /\ ~Before(new, q) /\ ~Before(q, q)
    BY <2>0, <2>1, <1>2, <1>4 DEF Before
  <2>3. ~(q[1] = l /\ q[2] = s)
    BY <2>0, <1>2
  <2>4. At(m, q[1], q[2]) = At(n, q[1], q[2])
    BY <2>1, <2>3, <1>1
  <2> QED BY <2>2, <2>4 DEF RecAt, At
<1>8. RecAt(m, new) = r /\ ~Before(new, new)
  BY <1>1, <1>2, <1>4 DEF RecAt, At, Before
<1>9. Ranked(m) /\ Log(m) = Append(Log(n), RecAt(m, new))
  BY <1>6, <1>7, <1>8, LogGrows
<1> QED BY <1>8, <1>9 DEF m

(* In a new block, the last one being full.                                 *)
LEMMA NewBlockGrows ==
    ASSUME NEW E, NEW n \in NodeOver(E), NEW r \in Rec, NEW e, Ranked(n),
           Len(n.blocks) \in Nat \ {0}, n.recModEntry = Len(n.blocks),
           n.memRecIdx = MEMRECPERENTRY
    PROVE  LET m == WriteRec(n, r, e)
           IN  Ranked(m) /\ Log(m) = Append(Log(n), r)
<1> DEFINE m == WriteRec(n, r, e)
           l == Len(n.blocks)
           new == <<l + 1, 0>>
<1>0. NeedsBlock(n)
  BY MemRecPerEntryAssumption DEF NeedsBlock
<1>1. /\ Len(m.blocks) = l + 1 /\ m.recModEntry = l + 1 /\ m.memRecIdx = 1
      /\ At(m, l + 1, 0) = r
      /\ \A j \in 1..l, i \in Slots : At(m, j, i) = At(n, j, i)
  <2>1. /\ m \in NodeOver(E \cup {e}) /\ Len(m.blocks) = Len(n.blocks) + 1
        /\ m.recModEntry = Len(n.blocks) + 1 /\ m.memRecIdx = 1
        /\ At(m, Len(n.blocks) + 1, 0) = r
        /\ \A j \in 1..Len(n.blocks), i \in Slots : At(m, j, i) = At(n, j, i)
    BY <1>0, WriteInNewBlockEffect, SMTT(60)
  <2> HIDE DEF m
  <2> QED BY <2>1
<1> HIDE DEF m
<1>2. /\ l \in Nat \ {0} /\ 0 \in Slots
      /\ \A i \in Slots : i \in Nat /\ i < MEMRECPERENTRY
  BY MemRecPerEntryAssumption DEF Slots
<1>3. \A pl : /\ pl \in Places(n) <=> pl \in (1..l) \X Slots
              /\ pl \in Places(m) <=> /\ pl \in (1..(l + 1)) \X Slots
                                      /\ pl[1] = l + 1 => pl[2] < 1
  <2> SUFFICES ASSUME NEW pl
               PROVE  /\ pl \in Places(n) <=> pl \in (1..l) \X Slots
                      /\ pl \in Places(m) <=> /\ pl \in (1..(l + 1)) \X Slots
                                              /\ pl[1] = l + 1 => pl[2] < 1
    OBVIOUS
  <2>1. pl \in (1..l) \X Slots => pl[2] < MEMRECPERENTRY
    BY <1>2
  <2> QED BY <1>1, <2>1, PlacesOf
<1>4. new \in (1..(l + 1)) \X Slots /\ new[1] = l + 1 /\ new[2] = 0
  BY <1>2
<1>5. \A pl \in (1..(l + 1)) \X Slots :
          /\ pl = <<pl[1], pl[2]>> /\ pl[1] \in 1..(l + 1) /\ pl[2] \in Slots
          /\ pl[1] = l + 1 /\ pl[2] = 0 => pl = new
          /\ pl[1] # l + 1 => pl \in (1..l) \X Slots
  <2> SUFFICES ASSUME NEW pl \in (1..(l + 1)) \X Slots
               PROVE  /\ pl = <<pl[1], pl[2]>> /\ pl[1] \in 1..(l + 1) /\ pl[2] \in Slots
                      /\ pl[1] = l + 1 /\ pl[2] = 0 => pl = new
                      /\ pl[1] # l + 1 => pl \in (1..l) \X Slots
    OBVIOUS
  <2>1. pl = <<pl[1], pl[2]>> /\ pl[1] \in 1..(l + 1) /\ pl[2] \in Slots
    OBVIOUS
  <2>2. pl[1] # l + 1 => pl[1] \in 1..l
    BY <2>1, <1>2
  <2> QED BY <2>1, <2>2
<1>6. \A pl \in (1..l) \X Slots :
          /\ pl \in (1..(l + 1)) \X Slots /\ pl[1] # l + 1
          /\ pl[1] \in 1..l /\ pl[2] \in Slots
  BY <1>2
<1> HIDE DEF new, l
<1>7. Places(m) = Places(n) \cup {new} /\ new \notin Places(n)
  <2>1. \A pl \in Places(n) \cup {new} : pl \in Places(m)
    BY <1>2, <1>3, <1>4, <1>6
  <2>2. \A pl \in Places(m) : pl \in Places(n) \cup {new}
    BY <1>2, <1>3, <1>5
  <2> QED BY <2>1, <2>2, <1>3, <1>4, <1>6
<1>8. \A q \in Places(n) : /\ Before(q, new) /\ ~Before(new, q) /\ ~Before(q, q)
                           /\ RecAt(m, q) = RecAt(n, q)
  <2> SUFFICES ASSUME NEW q \in Places(n)
               PROVE  /\ Before(q, new) /\ ~Before(new, q) /\ ~Before(q, q)
                      /\ RecAt(m, q) = RecAt(n, q)
    OBVIOUS
  <2>1. q[1] \in 1..l /\ q[2] \in Slots
    BY <1>3, <1>6
  <2>2. Before(q, new) /\ ~Before(new, q) /\ ~Before(q, q)
    BY <2>1, <1>2, <1>4 DEF Before
  <2>3. At(m, q[1], q[2]) = At(n, q[1], q[2])
    BY <2>1, <1>1
  <2> QED BY <2>2, <2>3 DEF RecAt, At
<1>9. RecAt(m, new) = r /\ ~Before(new, new)
  BY <1>1, <1>2, <1>4 DEF RecAt, At, Before
<1>10. Ranked(m) /\ Log(m) = Append(Log(n), RecAt(m, new))
  BY <1>7, <1>8, <1>9, LogGrows
<1> QED BY <1>9, <1>10 DEF m

(* A restarted list and a new one show nothing before the record.           *)
LEMMA FirstRecordLog ==
    ASSUME NEW E, NEW n \in NodeOver(E), NEW r \in Rec,
           Len(n.blocks) = 1, n.recModEntry = 1, n.memRecIdx = 0
    PROVE  /\ Ranked(WriteRec(n, r, Unset))
           /\ Log(WriteRec(n, r, Unset)) = <<r>>
<1>1. Places(n) = {}
  <2> SUFFICES ASSUME NEW pl \in Places(n) PROVE FALSE
    OBVIOUS
  <2>1. pl \in (1..1) \X Slots /\ (pl[1] = 1 => pl[2] < 0)
    BY PlacesOf
  <2> QED BY <2>1, MemRecPerEntryAssumption DEF Slots
<1>2. Ranked(n) /\ Log(n) = << >>
  BY <1>1, EmptyLog
<1>3. /\ n.memRecIdx \in Slots /\ Len(n.blocks) \in Nat \ {0}
      /\ n.recModEntry = Len(n.blocks)
  BY MemRecPerEntryAssumption DEF Slots
<1>4. /\ Ranked(WriteRec(n, r, Unset))
      /\ Log(WriteRec(n, r, Unset)) = Append(Log(n), r)
  BY <1>2, <1>3, InPlaceGrows
<1> QED BY <1>2, <1>4

-----------------------------------------------------------------------------
(* The component.                                                           *)

RefInv == OrderInv /\ \A p \in Traced : Ranked(recTree[p])

(* insertRec into a traced page: the page's log is extended, or restarted
   exactly when it cannot be.                                               *)
LEMMA InsertFoundLog ==
    ASSUME RefInv, NEW p \in Pages, NEW r \in Rec, InsertFound(p, r)
    PROVE  \E m : /\ recTree' = [recTree EXCEPT ![p] = m]
                  /\ p \in Traced
                  /\ Ranked(m)
                  /\ Log(m) = IF L!Extends(Log(recTree[p]), r)
                              THEN Append(Log(recTree[p]), r) ELSE <<r>>
<1> DEFINE n == recTree[p]
<1>1. p \in Traced /\ NodeInv(n) /\ Ranked(n) /\ Traced = DOMAIN recTree
  BY DEF InsertFound, RefInv, OrderInv, Traced
<1>2. n.memRecIdx \in 1..MEMRECPERENTRY /\ n.recModEntry = Len(n.blocks)
      /\ Len(n.blocks) \in Nat \ {0}
  BY <1>1 DEF NodeInv, Shape
<1>3. LastRec(n) \in Rec /\ LastRec(n) # Unwritten
  <2>1. Seen(n, Len(n.blocks), n.memRecIdx - 1)
    BY <1>1, MemRecPerEntryAssumption DEF NodeInv, Shape, Seen, Slots
  <2> HIDE DEF n
  <2> QED BY <1>1, <2>1, LastIsGreatest, UnwrittenAssumption
<1>4. LastRec(n).pageOffset \in Int /\ r.pageOffset \in Int
  BY <1>3, PageSizeAssumption DEF Rec
<1>5. OutOfOrder(n, r.pageOffset) = {LastRec(n).pageOffset >= r.pageOffset}
  <2> HIDE DEF n
  <2>1. n.memRecIdx # 0
    BY <1>2, MemRecPerEntryAssumption
  <2> QED BY <1>3, <2>1 DEF OutOfOrder
<1>6. L!Extends(Log(n), r) <=> LastRec(n).pageOffset < r.pageOffset
  <2>1. Log(n) # << >> /\ Log(n)[Len(Log(n))] = LastRec(n)
    BY <1>1, LogEnds
  <2> QED BY <2>1 DEF L!Extends
<1>7. PICK E : n \in NodeOver(E)
  BY <1>1 DEF NodeInv
<1>8. CASE /\ LastRec(n).pageOffset >= r.pageOffset
           /\ RestartAndWrite(p, r)
  <2>1. recTree' = [recTree EXCEPT ![p] = WriteRec(Restart(n), r, Unset)]
    BY <1>8, <1>1 DEF RestartAndWrite
  <2>2. /\ Ranked(WriteRec(Restart(n), r, Unset))
        /\ Log(WriteRec(Restart(n), r, Unset)) = <<r>>
    <3> HIDE DEF n
    <3> QED BY <1>2, <1>7, RestartEffect, FirstRecordLog
  <2>3. ~L!Extends(Log(n), r)
    BY <1>4, <1>6, <1>8
  <2> QED BY <1>1, <2>1, <2>2, <2>3
<1>9. CASE /\ ~(LastRec(n).pageOffset >= r.pageOffset) /\ NeedsBlock(n)
           /\ WriteInNewBlock(p, r)
  <2> DEFINE e == Top(Replenish(recBlocks))
  <2>1. recTree' = [recTree EXCEPT ![p] = WriteRec(n, r, e)]
    BY <1>9, <1>1 DEF WriteInNewBlock
  <2>2. L!Extends(Log(n), r)
    BY <1>4, <1>6, <1>9
  <2>3. Ranked(WriteRec(n, r, e)) /\ Log(WriteRec(n, r, e)) = Append(Log(n), r)
    <3>1. n.memRecIdx = MEMRECPERENTRY
      BY <1>2, <1>9, MemRecPerEntryAssumption DEF NeedsBlock
    <3> HIDE DEF n, e
    <3> QED BY <3>1, <1>1, <1>2, <1>7, NewBlockGrows
  <2> QED BY <1>1, <2>1, <2>2, <2>3
<1>10. CASE /\ ~(LastRec(n).pageOffset >= r.pageOffset) /\ ~NeedsBlock(n)
            /\ WriteInPlace(p, r)
  <2>1. recTree' = [recTree EXCEPT ![p] = WriteRec(n, r, Unset)]
    BY <1>10, <1>1 DEF WriteInPlace
  <2>2. L!Extends(Log(n), r)
    BY <1>4, <1>6, <1>10
  <2>3. /\ Ranked(WriteRec(n, r, Unset))
        /\ Log(WriteRec(n, r, Unset)) = Append(Log(n), r)
    <3>1. n.memRecIdx \in Slots
      BY <1>2, <1>10, MemRecPerEntryAssumption DEF NeedsBlock, Slots
    <3> HIDE DEF n
    <3> QED BY <3>1, <1>1, <1>2, <1>7, InPlaceGrows
  <2> QED BY <1>1, <2>1, <2>2, <2>3
<1> QED BY <1>5, <1>8, <1>9, <1>10 DEF InsertFound

(* insertRec into a page that is not traced: its log begins with r.         *)
LEMMA InsertNewLog ==
    ASSUME RefInv, NEW p \in Pages, NEW r \in Rec, InsertNew(p, r)
    PROVE  \E m : /\ recTree' = [q \in Traced \cup {p} |->
                                   IF q = p THEN m ELSE recTree[q]]
                  /\ p \notin Traced
                  /\ Ranked(m)
                  /\ Log(m) = <<r>>
<1> DEFINE n == NewNode(Top(Replenish(recBlocks)))
           m == WriteRec(n, r, Unset)
<1>1. /\ p \notin Traced
      /\ recTree' = [q \in Traced \cup {p} |-> IF q = p THEN m ELSE recTree[q]]
  BY DEF InsertNew, AddTreeNode, Traced
<1>2. /\ n \in NodeOver({Top(Replenish(recBlocks))}) /\ Len(n.blocks) = 1
      /\ n.recModEntry = 1 /\ n.memRecIdx = 0
  BY NewNodeEffect
<1> HIDE DEF n
<1>3. Ranked(m) /\ Log(m) = <<r>>
  BY <1>2, FirstRecordLog
<1> QED BY <1>1, <1>3

(* What readers see before the first copy.                                  *)
LEMMA InitRef == Init => RefInv /\ L!Init
<1> SUFFICES ASSUME Init PROVE RefInv /\ L!Init
  OBVIOUS
<1>1. Traced = {}
  BY DEF Init, Traced
<1>2. RefInv
  BY <1>1, InitOrder DEF RefInv
<1>3. PageLogView = [p \in Pages |-> << >>]
  BY <1>1 DEF PageLogView
<1> QED BY <1>2, <1>3 DEF L!Init

(* A step of RecTree keeps the ranks and is a step of PageLog, or shows its
   readers nothing new.                                                     *)
LEMMA NextRef ==
    ASSUME PoolSuffices, RefInv, [Next]_vars
    PROVE  RefInv' /\ [L!Next]_PageLogView
<1>0. OrderInv'
  BY NextOrder DEF RefInv
<1>1. ASSUME UNCHANGED recTree
      PROVE  RefInv' /\ UNCHANGED PageLogView
  BY <1>0, <1>1 DEF RefInv, Traced, PageLogView
<1>2. ASSUME NEW p \in Pages, NEW r \in Rec, InsertFound(p, r)
      PROVE  RefInv' /\ L!Record(p, r)
  <2>1. PICK m : /\ recTree' = [recTree EXCEPT ![p] = m]
                 /\ p \in Traced
                 /\ Ranked(m)
                 /\ Log(m) = IF L!Extends(Log(recTree[p]), r)
                             THEN Append(Log(recTree[p]), r) ELSE <<r>>
    BY <1>2, InsertFoundLog
  <2>2. DOMAIN recTree' = Traced
    BY <2>1 DEF Traced
  <2>3. \A q \in Traced : recTree'[q] = IF q = p THEN m ELSE recTree[q]
    BY <2>1 DEF Traced
  <2>4. RefInv'
    BY <1>0, <2>1, <2>2, <2>3 DEF RefInv, Traced
  <2>5. PageLogView[p] = Log(recTree[p])
    BY <2>1 DEF PageLogView
  <2>6. \A q \in Pages : PageLogView'[q] = IF q = p THEN Log(m) ELSE PageLogView[q]
    BY <2>1, <2>2, <2>3 DEF PageLogView, Traced
  <2>7. PageLogView' = [PageLogView EXCEPT ![p] = Log(m)]
    BY <2>6 DEF PageLogView
  <2> QED BY <2>1, <2>4, <2>5, <2>7 DEF L!Record
<1>3. ASSUME NEW p \in Pages, NEW r \in Rec, InsertNew(p, r)
      PROVE  RefInv' /\ L!Record(p, r)
  <2>1. PICK m : /\ recTree' = [q \in Traced \cup {p} |->
                                  IF q = p THEN m ELSE recTree[q]]
                 /\ p \notin Traced
                 /\ Ranked(m)
                 /\ Log(m) = <<r>>
    BY <1>3, InsertNewLog
  <2>2. DOMAIN recTree' = Traced \cup {p}
    BY <2>1
  <2>3. \A q \in Traced \cup {p} : recTree'[q] = IF q = p THEN m ELSE recTree[q]
    BY <2>1
  <2>4. RefInv'
    BY <1>0, <2>1, <2>2, <2>3 DEF RefInv, Traced
  <2>5. PageLogView[p] = << >>
    BY <2>1 DEF PageLogView
  <2>6. \A q \in Pages : PageLogView'[q] = IF q = p THEN <<r>> ELSE PageLogView[q]
    BY <2>1, <2>2, <2>3 DEF PageLogView, Traced
  <2>7. PageLogView' = [PageLogView EXCEPT ![p] = <<r>>]
    BY <2>6 DEF PageLogView
  <2>8. L!Extends(PageLogView[p], r) /\ Append(PageLogView[p], r) = <<r>>
    BY <2>5 DEF L!Extends
  <2> QED BY <2>4, <2>7, <2>8 DEF L!Record
<1>4. ASSUME NEW p \in Pages, NEW r \in Rec, InsertReclaiming(p, r) PROVE FALSE
  BY <1>4, NoSweepDue DEF InsertReclaiming, RefInv
<1>5. ASSUME NEW fd \in Fds, MapFile(fd) \/ UnmapFile(fd)
      PROVE  UNCHANGED recTree
  BY <1>5 DEF MapFile, UnmapFile
<1>6. CASE UNCHANGED vars
  BY <1>1, <1>6 DEF vars
<1> QED BY <1>1, <1>2, <1>3, <1>4, <1>5, <1>6 DEF Next, L!Next

(* While the pool suffices, the record tree is PageLog: the readers of a page
   see every copy since the last one that did not go beyond its predecessor,
   in order, however many blocks hold them.                                 *)
THEOREM RecTreeImplementsPageLog == PoolSuffices => (Spec => ImplementsPageLog)
<1> SUFFICES ASSUME PoolSuffices PROVE Spec => ImplementsPageLog
  OBVIOUS
<1>1. RefInv /\ [Next]_vars => RefInv' /\ [L!Next]_PageLogView
  BY NextRef
<1> QED BY <1>1, InitRef, PTL DEF Spec, ImplementsPageLog, L!Spec
=============================================================================
