------------------------ MODULE AccessLogStore_proofs ------------------------
(***************************************************************************)
(* What AccessLogStore promises for any number of processes, threads and   *)
(* entries, any caps and any cuts.  The invariant of the bound says what  *)
(* a count is still worth when its DELETE runs: StaleCounts gives the rows *)
(* the other pending writers may have added.  The invariant of KeepsNewest *)
(* says the opposite: as long as no other prune came between, all the rows *)
(* counted are still there.                                                *)
(***************************************************************************)
EXTENDS AccessLogStore, FiniteSetTheorems, TLAPS

USE DEF rows

Others(t) == Pending \ {t}

Exclusive ==
  \A t, u \in Thread :
     ProcessOf[t] = ProcessOf[u] /\ pc[t] # "idle" /\ pc[u] # "idle" => t = u

StaleCounts ==
  \A t \in Thread : pc[t] = "delete" =>
     /\ MaxEntries > 0
     /\ excess[t] > 0
     /\ Cardinality(rows) <= MaxEntries + excess[t] + Cardinality(Others(t)) + cuts

FreshCounts ==
  ~raced => \A t \in Thread : pc[t] = "delete" =>
               Cardinality(rows) >= MaxEntries + excess[t] \/ shrunk

StoreInv == TypeOK /\ Exclusive /\ StaleCounts /\ RetentionBound

NewestInv == StoreInv /\ FreshCounts /\ KeepsNewest

-----------------------------------------------------------------------------
(* Sizes *)

LEMMA Sizes ==
  ASSUME TypeOK
  PROVE  /\ IsFiniteSet(rows) /\ Cardinality(rows) \in Nat
         /\ IsFiniteSet(written) /\ Cardinality(written) \in Nat
         /\ IsFiniteSet(Pending) /\ Cardinality(Pending) \in Nat
         /\ \A t : IsFiniteSet(Others(t)) /\ Cardinality(Others(t)) \in Nat
<1>1. IsFiniteSet(rows) /\ IsFiniteSet(written)
  BY FS_Subset DEF TypeOK
<1>2. IsFiniteSet(Pending)
  BY FS_Subset, ProcessFinite DEF Pending
<1>3. \A t : IsFiniteSet(Others(t))
  BY <1>2, FS_RemoveElement DEF Others
<1> QED
  BY <1>1, <1>2, <1>3, FS_CardinalityType

LEMMA OneFewer ==
  ASSUME NEW S, IsFiniteSet(S), NEW x \in S
  PROVE  /\ IsFiniteSet(S \ {x})
         /\ Cardinality(S) \in Nat /\ Cardinality(S \ {x}) \in Nat
         /\ Cardinality(S) = Cardinality(S \ {x}) + 1
  BY FS_RemoveElement, FS_CardinalityType

LEMMA OneMore ==
  ASSUME NEW S, IsFiniteSet(S), NEW x, x \notin S
  PROVE  /\ IsFiniteSet(S \union {x})
         /\ Cardinality(S) \in Nat /\ Cardinality(S \union {x}) \in Nat
         /\ Cardinality(S \union {x}) = Cardinality(S) + 1
  BY FS_AddElement, FS_CardinalityType

LEMMA Smaller ==
  ASSUME NEW S, IsFiniteSet(S), NEW T \in SUBSET S
  PROVE  /\ IsFiniteSet(T) /\ Cardinality(T) \in Nat /\ Cardinality(S) \in Nat
         /\ Cardinality(T) <= Cardinality(S)
  BY FS_Subset, FS_CardinalityType

(***************************************************************************)
(* A prune of n rows takes n rows, or all.                                 *)
(***************************************************************************)
LEMMA Pruned ==
  ASSUME TypeOK, NEW n \in Nat, NEW D \in SUBSET rows, IsOldest(D, n), Remove(D)
  PROVE  /\ rows' = rows \ D
         /\ \A e \in rows' : table'[e] = table[e]
         /\ IsFiniteSet(rows') /\ Cardinality(rows') \in Nat
         /\ Cardinality(rows') =
              IF n < Cardinality(rows) THEN Cardinality(rows) - n ELSE 0
<1>1. rows' = rows \ D /\ \A e \in rows' : table'[e] = table[e]
  BY DEF Remove
<1>2. IsFiniteSet(rows) /\ Cardinality(rows) \in Nat
  BY Sizes
<1>3. IsFiniteSet(D) /\ IsFiniteSet(rows \ D) /\ Cardinality(D) \in Nat
      /\ Cardinality(rows \ D) \in Nat
  BY <1>2, FS_Subset, FS_CardinalityType
<1>4. Cardinality(D \union (rows \ D)) =
        Cardinality(D) + Cardinality(rows \ D) - Cardinality(D \intersect (rows \ D))
  BY <1>3, FS_Union
<1>5. D \union (rows \ D) = rows /\ D \intersect (rows \ D) = {}
  OBVIOUS
<1>6. Cardinality(rows) = Cardinality(D) + Cardinality(rows \ D)
  BY <1>2, <1>3, <1>4, <1>5, FS_EmptySet
<1>7. Cardinality(D) = IF n < Cardinality(rows) THEN n ELSE Cardinality(rows)
  BY DEF IsOldest
<1> QED
  BY <1>1, <1>2, <1>3, <1>6, <1>7

LEMMA InsertFacts ==
  ASSUME TypeOK, NEW t \in Thread, NEW e \in Entry, Insert(t, e)
  PROVE  /\ rows' = rows \union {e} /\ e \notin rows
         /\ Cardinality(rows') = Cardinality(rows) + 1
         /\ written' = written \union {e}
         /\ IsFiniteSet(written') /\ Cardinality(written') = Cardinality(written) + 1
         /\ pc[t] = "idle" /\ pc' = [pc EXCEPT ![t] = "count"]
         /\ t \notin Pending /\ Pending' = Pending \union {t}
<1>1. rows' = rows \union {e} /\ e \notin rows /\ e \notin written
      /\ written' = written \union {e}
  BY DEF TypeOK, Insert
<1>2. pc[t] = "idle" /\ pc' = [pc EXCEPT ![t] = "count"]
  BY DEF Insert, LockFree
<1>3. t \notin Pending /\ Pending' = Pending \union {t}
  BY <1>2 DEF TypeOK, Pending
<1> QED
  BY <1>1, <1>2, <1>3, Sizes, OneMore

-----------------------------------------------------------------------------
(* TypeOK and the lock *)

LEMMA StoreInitInv == StoreInit => NewestInv
<1> SUFFICES ASSUME StoreInit PROVE NewestInv
  OBVIOUS
<1>1. rows = {} /\ written = {} /\ Pending = {}
  BY DEF StoreInit, Pending
<1>2. IsFiniteSet({}) /\ Cardinality({}) = 0
  BY FS_EmptySet
<1>3. TypeOK
  BY <1>1, <1>2 DEF StoreInit, TypeOK, Points
<1>4. Exclusive /\ StaleCounts /\ FreshCounts
  BY DEF StoreInit, Exclusive, StaleCounts, FreshCounts
<1>5. RetentionBound /\ KeepsNewest
  BY <1>1, <1>2, CapsAreInts DEF StoreInit, RetentionBound, KeepsNewest
<1> QED
  BY <1>3, <1>4, <1>5 DEF NewestInv, StoreInv

LEMMA NextTypeOK ==
  ASSUME TypeOK, [StoreNext]_storeVars
  PROVE  TypeOK'
<1> USE DEF Points
<1>1. ASSUME NEW t \in Thread, NEW e \in Entry, Insert(t, e) PROVE TypeOK'
  <2>1. /\ rows' = rows \union {e}
        /\ written' = written \union {e}
        /\ IsFiniteSet(written') /\ Cardinality(written') = Cardinality(written) + 1
    BY <1>1, InsertFacts
  <2>2. table' \in [rows' -> 1..Cardinality(written')]
    <3>1. table' = [f \in rows \union {e} |->
                      IF f = e THEN Cardinality(written) + 1 ELSE table[f]]
      BY <1>1 DEF Insert
    <3>2. \A f \in rows : table[f] \in 1..Cardinality(written)
      BY DEF TypeOK
    <3> QED
      BY <2>1, <3>1, <3>2, Sizes
  <2>3. slots' \in Nat /\ wal' \in Nat
    BY <1>1, Sizes DEF TypeOK, Insert, Larger, FrameAdded
  <2> QED
    BY <1>1, <2>1, <2>2, <2>3 DEF TypeOK, Insert
<1>2. ASSUME NEW t \in Thread, CountRows(t) PROVE TypeOK'
  <2>1. Excess > 0 => Excess \in Nat
    BY Sizes, CapsAreInts DEF Excess
  <2> QED
    BY <1>2, <2>1 DEF TypeOK, CountRows, fileVars
<1>3. ASSUME NEW t \in Thread, DeleteExcess(t) PROVE TypeOK'
  <2>1. PICK D \in SUBSET rows : IsOldest(D, excess[t]) /\ Remove(D)
    BY <1>3 DEF DeleteExcess
  <2>2. rows' = rows \ D /\ table' = [f \in rows \ D |-> table[f]]
    BY <2>1 DEF Remove
  <2>3. wal' \in Nat
    BY <2>1 DEF TypeOK, Remove, FrameAdded
  <2>4. (raced \/ Overlaps(t)) \in BOOLEAN
    BY DEF TypeOK, Overlaps
  <2> QED
    BY <1>3, <2>2, <2>3, <2>4 DEF TypeOK, DeleteExcess
<1>4. ASSUME NEW t \in Thread, CheckSize(t) \/ CheckLoop(t) PROVE TypeOK'
  BY <1>4 DEF TypeOK, CheckSize, CheckLoop, fileVars
<1>5. ASSUME NEW t \in Thread, DeleteBatch(t) PROVE TypeOK'
  <2>1. PICK D \in SUBSET rows : /\ Remove(D)
                                 /\ pc' = [pc EXCEPT ![t] = IF D = {} THEN "checkpoint" ELSE "loop"]
    BY <1>5 DEF DeleteBatch
  <2>2. rows' = rows \ D /\ table' = [f \in rows \ D |-> table[f]]
    BY <2>1 DEF Remove
  <2>3. wal' \in Nat
    BY <2>1 DEF TypeOK, Remove, FrameAdded
  <2> QED
    BY <1>5, <2>1, <2>2, <2>3 DEF TypeOK, DeleteBatch
<1>6. ASSUME NEW t \in Thread, Checkpoint(t) PROVE TypeOK'
  BY <1>6 DEF TypeOK, Checkpoint
<1>7. ASSUME NEW p \in Process, Kill(p) PROVE TypeOK'
  BY <1>7 DEF TypeOK, Kill, fileVars
<1>8. CASE LastClose
  BY <1>8 DEF TypeOK, LastClose
<1>9. CASE UNCHANGED storeVars
  BY <1>9 DEF TypeOK, storeVars, fileVars
<1>10. ASSUME NEW t \in Thread, StatementFails(t) PROVE TypeOK'
  BY <1>10 DEF TypeOK, StatementFails, fileVars
<1> QED
  BY <1>1, <1>2, <1>3, <1>4, <1>5, <1>6, <1>7, <1>8, <1>9, <1>10 DEF StoreNext, WriteStep

LEMMA NextExclusive ==
  ASSUME TypeOK, Exclusive, [StoreNext]_storeVars
  PROVE  Exclusive'
<1>1. ASSUME NEW t \in Thread, NEW e \in Entry, Insert(t, e) PROVE Exclusive'
  BY <1>1 DEF TypeOK, Exclusive, Insert, LockFree
<1>2. ASSUME NEW t \in Thread, WriteStep(t) PROVE Exclusive'
  <2>1. pc[t] # "idle" /\ \A u \in Thread \ {t} : pc'[u] = pc[u]
    BY <1>2 DEF TypeOK, WriteStep, CountRows, DeleteExcess, CheckSize, CheckLoop,
                DeleteBatch, Checkpoint
  <2> QED
    BY <2>1 DEF Exclusive
<1>3. ASSUME NEW p \in Process, Kill(p) PROVE Exclusive'
  BY <1>3 DEF TypeOK, Exclusive, Kill
<1>4. CASE LastClose \/ UNCHANGED storeVars
  BY <1>4 DEF Exclusive, LastClose, storeVars
<1>5. ASSUME NEW t \in Thread, StatementFails(t) PROVE Exclusive'
  BY <1>5 DEF TypeOK, Exclusive, StatementFails
<1> QED
  BY <1>1, <1>2, <1>3, <1>4, <1>5 DEF StoreNext

-----------------------------------------------------------------------------
(* The bound *)

LEMMA InsertBound ==
  ASSUME StoreInv, NEW t \in Thread, NEW e \in Entry, Insert(t, e)
  PROVE  StaleCounts' /\ RetentionBound'
<1>1. TypeOK /\ StaleCounts /\ RetentionBound
  BY DEF StoreInv
<1>2. /\ Cardinality(rows') = Cardinality(rows) + 1
      /\ pc[t] = "idle" /\ pc' = [pc EXCEPT ![t] = "count"]
      /\ t \notin Pending /\ Pending' = Pending \union {t}
  BY <1>1, InsertFacts
<1>3. excess' = excess /\ cuts' = cuts
  BY DEF Insert
<1>4. Cardinality(Pending') = Cardinality(Pending) + 1
  BY <1>1, <1>2, Sizes, OneMore
<1>5. RetentionBound'
  BY <1>1, <1>2, <1>3, <1>4, Sizes, CapsAreInts DEF RetentionBound, TypeOK
<1>6. ASSUME NEW u \in Thread, pc'[u] = "delete"
      PROVE  /\ MaxEntries > 0 /\ excess'[u] > 0
             /\ Cardinality(rows') <=
                  MaxEntries + excess'[u] + Cardinality(Others(u)') + cuts'
  <2>1. u # t /\ pc[u] = "delete"
    BY <1>1, <1>2, <1>6 DEF TypeOK
  <2>2. Others(u)' = Others(u) \union {t} /\ t \notin Others(u)
    BY <1>2, <2>1 DEF Others
  <2>3. Cardinality(Others(u)') = Cardinality(Others(u)) + 1
    BY <1>1, <2>2, Sizes, OneMore
  <2> QED
    BY <1>1, <1>2, <1>3, <2>1, <2>3, Sizes, CapsAreInts DEF StaleCounts, TypeOK
<1> QED
  BY <1>5, <1>6 DEF StaleCounts

LEMMA CountBound ==
  ASSUME StoreInv, NEW t \in Thread, CountRows(t)
  PROVE  StaleCounts' /\ RetentionBound'
<1>1. TypeOK /\ StaleCounts /\ RetentionBound
  BY DEF StoreInv
<1>2. /\ rows' = rows /\ cuts' = cuts /\ pc[t] = "count" /\ t \in Pending
      /\ Cardinality(rows) \in Nat /\ Cardinality(Pending) \in Nat /\ cuts \in Nat
      /\ \A u : Cardinality(Others(u)) \in Nat
  BY <1>1, Sizes DEF CountRows, Pending, TypeOK
<1>3. CASE MaxEntries > 0 /\ Excess > 0
  <2>1. excess' = [excess EXCEPT ![t] = Excess] /\ pc' = [pc EXCEPT ![t] = "delete"]
    BY <1>3 DEF CountRows
  <2>2. Pending' = Pending
    BY <1>1, <1>2, <2>1 DEF Pending, TypeOK
  <2>3. RetentionBound'
    BY <1>1, <1>2, <2>2 DEF RetentionBound
  <2>4. ASSUME NEW u \in Thread, pc'[u] = "delete"
        PROVE  /\ MaxEntries > 0 /\ excess'[u] > 0
               /\ Cardinality(rows') <=
                    MaxEntries + excess'[u] + Cardinality(Others(u)') + cuts'
    <3>1. Others(u)' = Others(u)
      BY <2>2 DEF Others
    <3>2. CASE u = t
      <4>1. excess'[u] = Cardinality(rows) - MaxEntries /\ excess'[u] > 0
        BY <1>1, <1>3, <2>1, <3>2 DEF Excess, TypeOK
      <4> QED
        BY <1>2, <1>3, <3>1, <4>1, CapsAreInts
    <3>3. CASE u # t
      <4>1. pc[u] = "delete" /\ excess'[u] = excess[u]
        BY <1>1, <2>1, <2>4, <3>3 DEF TypeOK
      <4> QED
        BY <1>1, <1>2, <3>1, <4>1 DEF StaleCounts
    <3> QED
      BY <3>2, <3>3
  <2> QED
    BY <2>3, <2>4 DEF StaleCounts
<1>4. CASE ~(MaxEntries > 0 /\ Excess > 0)
  <2>1. excess' = excess /\ pc' = [pc EXCEPT ![t] = "size"]
    BY <1>4 DEF CountRows
  <2>2. MaxEntries > 0 => Cardinality(rows) <= MaxEntries
    BY <1>2, <1>4, CapsAreInts DEF Excess
  <2>3. IsFiniteSet(Pending')
    BY FS_Subset, ProcessFinite DEF Pending
  <2>4. Cardinality(Pending') \in Nat /\ \A u : Cardinality(Others(u)') \in Nat
    BY <2>3, FS_RemoveElement, FS_CardinalityType DEF Others
  <2>5. RetentionBound'
    BY <1>2, <2>2, <2>4, CapsAreInts DEF RetentionBound
  <2>6. ASSUME NEW u \in Thread, pc'[u] = "delete"
        PROVE  /\ MaxEntries > 0 /\ excess'[u] > 0
               /\ Cardinality(rows') <=
                    MaxEntries + excess'[u] + Cardinality(Others(u)') + cuts'
    <3>1. pc[u] = "delete" /\ excess'[u] = excess[u] /\ excess[u] \in Nat
      BY <1>1, <2>1, <2>6 DEF TypeOK
    <3>2. MaxEntries > 0 /\ excess[u] > 0
      BY <1>1, <3>1 DEF StaleCounts
    <3> QED
      BY <1>2, <2>2, <2>4, <3>1, <3>2, CapsAreInts
  <2> QED
    BY <2>5, <2>6 DEF StaleCounts
<1> QED
  BY <1>3, <1>4

(***************************************************************************)
(* The writer whose DELETE runs takes the rows it counted as too many: the *)
(* rows left are those of the others.                                      *)
(***************************************************************************)
LEMMA DeleteExcessBound ==
  ASSUME StoreInv, NEW t \in Thread, DeleteExcess(t)
  PROVE  StaleCounts' /\ RetentionBound'
<1>1. TypeOK /\ StaleCounts /\ RetentionBound
  BY DEF StoreInv
<1>2. /\ pc[t] = "delete" /\ pc' = [pc EXCEPT ![t] = "size"] /\ cuts' = cuts
      /\ excess' = [excess EXCEPT ![t] = 0] /\ cuts \in Nat /\ excess[t] \in Nat
  BY <1>1 DEF DeleteExcess, TypeOK
<1>3. MaxEntries > 0 /\ excess[t] > 0
      /\ Cardinality(rows) <= MaxEntries + excess[t] + Cardinality(Others(t)) + cuts
  BY <1>1, <1>2 DEF StaleCounts
<1>4. Pending' = Others(t) /\ t \in Pending
  BY <1>1, <1>2 DEF Pending, Others, TypeOK
<1>5. PICK D \in SUBSET rows : IsOldest(D, excess[t]) /\ Remove(D)
  BY DEF DeleteExcess
<1>6. /\ Cardinality(rows') \in Nat
      /\ Cardinality(rows') =
           IF excess[t] < Cardinality(rows) THEN Cardinality(rows) - excess[t] ELSE 0
  BY <1>1, <1>2, <1>5, Pruned
<1>7. /\ Cardinality(rows) \in Nat
      /\ IsFiniteSet(Pending)
      /\ \A u : IsFiniteSet(Others(u)) /\ Cardinality(Others(u)) \in Nat
  BY <1>1, Sizes
<1>8. RetentionBound'
  BY <1>2, <1>3, <1>4, <1>6, <1>7, CapsAreInts DEF RetentionBound
<1>9. ASSUME NEW u \in Thread, pc'[u] = "delete"
      PROVE  /\ MaxEntries > 0 /\ excess'[u] > 0
             /\ Cardinality(rows') <=
                  MaxEntries + excess'[u] + Cardinality(Others(u)') + cuts'
  <2>1. u # t /\ pc[u] = "delete" /\ excess'[u] = excess[u] /\ excess[u] \in Nat
    BY <1>1, <1>2, <1>9 DEF TypeOK
  <2>2. excess[u] > 0
        /\ Cardinality(rows) <= MaxEntries + excess[u] + Cardinality(Others(u)) + cuts
    BY <1>1, <2>1 DEF StaleCounts
  <2>3. t \in Others(u) /\ Others(u)' = Others(u) \ {t}
    BY <1>4, <2>1 DEF Others
  <2>4. Cardinality(Others(u)) = Cardinality(Others(u)') + 1 /\ Cardinality(Others(u)') \in Nat
    BY <1>7, <2>3, OneFewer
  <2> QED
    BY <1>2, <1>3, <1>6, <1>7, <2>1, <2>2, <2>4, CapsAreInts
<1> QED
  BY <1>8, <1>9 DEF StaleCounts

(***************************************************************************)
(* Steps that take rows away or none, and leave who is pending.            *)
(***************************************************************************)
LEMMA ShrinkBound ==
  ASSUME StoreInv, TypeOK', rows' \subseteq rows, Pending' = Pending, cuts' = cuts,
         \A u \in Thread : pc'[u] = "delete" => pc[u] = "delete" /\ excess'[u] = excess[u]
  PROVE  StaleCounts' /\ RetentionBound'
<1>1. TypeOK /\ StaleCounts /\ RetentionBound
  BY DEF StoreInv
<1>2. Cardinality(rows') <= Cardinality(rows) /\ Cardinality(rows') \in Nat
      /\ Cardinality(rows) \in Nat /\ Cardinality(Pending) \in Nat /\ cuts \in Nat
  BY <1>1, Sizes, Smaller DEF TypeOK
<1>3. \A u : Others(u)' = Others(u) /\ Cardinality(Others(u)) \in Nat
  BY <1>1, Sizes DEF Others
<1>4. RetentionBound'
  BY <1>1, <1>2, CapsAreInts DEF RetentionBound
<1>5. ASSUME NEW u \in Thread, pc'[u] = "delete"
      PROVE  /\ MaxEntries > 0 /\ excess'[u] > 0
             /\ Cardinality(rows') <=
                  MaxEntries + excess'[u] + Cardinality(Others(u)') + cuts'
  <2>1. pc[u] = "delete" /\ excess'[u] = excess[u] /\ excess[u] \in Nat
    BY <1>1, <1>5 DEF TypeOK
  <2>2. MaxEntries > 0 /\ excess[u] > 0
        /\ Cardinality(rows) <= MaxEntries + excess[u] + Cardinality(Others(u)) + cuts
    BY <1>1, <2>1 DEF StaleCounts
  <2> QED
    BY <1>2, <1>3, <2>1, <2>2, CapsAreInts
<1> QED
  BY <1>4, <1>5 DEF StaleCounts

(***************************************************************************)
(* Whatever cuts writes short, it costs one row as long as at most one of  *)
(* them was pending.                                                       *)
(***************************************************************************)
LEMMA CutBound ==
  ASSUME StoreInv, NEW mine \in SUBSET Thread,
         \E x : Pending \intersect mine \subseteq {x},
         table' = table, cuts' = cuts + 1,
         pc' = [t \in Thread |-> IF t \in mine THEN "idle" ELSE pc[t]],
         excess' = [t \in Thread |-> IF t \in mine THEN 0 ELSE excess[t]]
  PROVE  StaleCounts' /\ RetentionBound'
<1>1. TypeOK /\ Exclusive /\ StaleCounts /\ RetentionBound
  BY DEF StoreInv
<1>2. /\ rows' = rows /\ cuts' = cuts + 1 /\ cuts \in Nat
      /\ pc' = [t \in Thread |-> IF t \in mine THEN "idle" ELSE pc[t]]
      /\ excess' = [t \in Thread |-> IF t \in mine THEN 0 ELSE excess[t]]
  BY <1>1 DEF TypeOK
<1>3. Pending' = Pending \ mine
  BY <1>1, <1>2 DEF Pending, TypeOK
<1>4. PICK x : Pending \intersect mine \subseteq {x}
  OBVIOUS
<1>5. ASSUME NEW S \in SUBSET Pending
      PROVE  /\ Cardinality(S) \in Nat /\ Cardinality(S \ mine) \in Nat
             /\ Cardinality(S) <= Cardinality(S \ mine) + 1
  <2>1. IsFiniteSet(S)
    BY <1>1, Sizes, FS_Subset
  <2>2. S \ {x} \in SUBSET (S \ mine) /\ IsFiniteSet(S \ mine)
    BY <1>4, <2>1, FS_Subset
  <2>3. Cardinality(S \ {x}) <= Cardinality(S \ mine)
        /\ Cardinality(S \ {x}) \in Nat /\ Cardinality(S \ mine) \in Nat
    BY <2>2, Smaller
  <2>4. Cardinality(S) <= Cardinality(S \ {x}) + 1 /\ Cardinality(S) \in Nat
    <3>1. Cardinality(S) \in Nat
      BY <2>1, FS_CardinalityType
    <3>2. Cardinality(S \ {x}) = IF x \in S THEN Cardinality(S) - 1 ELSE Cardinality(S)
      BY <2>1, FS_RemoveElement
    <3> QED
      BY <3>1, <3>2
  <2> QED
    BY <2>3, <2>4
<1>6. Cardinality(rows) \in Nat
  BY <1>1, Sizes
<1>7. RetentionBound'
  <2>1. /\ Cardinality(Pending) \in Nat /\ Cardinality(Pending') \in Nat
        /\ Cardinality(Pending) <= Cardinality(Pending') + 1
    BY <1>3, <1>5
  <2> QED
    BY <1>1, <1>2, <1>6, <2>1, CapsAreInts DEF RetentionBound
<1>8. ASSUME NEW u \in Thread, pc'[u] = "delete"
      PROVE  /\ MaxEntries > 0 /\ excess'[u] > 0
             /\ Cardinality(rows') <=
                  MaxEntries + excess'[u] + Cardinality(Others(u)') + cuts'
  <2>1. pc[u] = "delete" /\ excess'[u] = excess[u] /\ excess[u] \in Nat
    BY <1>1, <1>2, <1>8 DEF TypeOK
  <2>2. MaxEntries > 0 /\ excess[u] > 0
        /\ Cardinality(rows) <= MaxEntries + excess[u] + Cardinality(Others(u)) + cuts
    BY <1>1, <2>1 DEF StaleCounts
  <2>3. Others(u)' = Others(u) \ mine /\ Others(u) \in SUBSET Pending
    BY <1>3 DEF Others
  <2>4. /\ Cardinality(Others(u)) \in Nat /\ Cardinality(Others(u)') \in Nat
        /\ Cardinality(Others(u)) <= Cardinality(Others(u)') + 1
    BY <1>5, <2>3
  <2> QED
    BY <1>2, <1>6, <2>1, <2>2, <2>4, CapsAreInts
<1> QED
  BY <1>7, <1>8 DEF StaleCounts

(***************************************************************************)
(* A kill takes at most one pending writer with it: the lock.              *)
(***************************************************************************)
LEMMA KillBound ==
  ASSUME StoreInv, NEW p \in Process, Kill(p)
  PROVE  StaleCounts' /\ RetentionBound'
<1> DEFINE mine == {t \in Thread : ProcessOf[t] = p}
<1>1. \E x : Pending \intersect mine \subseteq {x}
  BY DEF StoreInv, Exclusive, Pending
<1>2. /\ table' = table /\ cuts' = cuts + 1 /\ mine \in SUBSET Thread
      /\ pc' = [t \in Thread |-> IF t \in mine THEN "idle" ELSE pc[t]]
      /\ excess' = [t \in Thread |-> IF t \in mine THEN 0 ELSE excess[t]]
  BY DEF Kill
<1> HIDE DEF mine
<1> QED
  BY <1>1, <1>2, CutBound

LEMMA StatementBound ==
  ASSUME StoreInv, NEW u \in Thread, StatementFails(u)
  PROVE  StaleCounts' /\ RetentionBound'
<1>1. \E x : Pending \intersect {u} \subseteq {x}
  OBVIOUS
<1>2. /\ table' = table /\ cuts' = cuts + 1
      /\ pc' = [t \in Thread |-> IF t \in {u} THEN "idle" ELSE pc[t]]
      /\ excess' = [t \in Thread |-> IF t \in {u} THEN 0 ELSE excess[t]]
  BY DEF StatementFails, StoreInv, TypeOK
<1> QED
  BY <1>1, <1>2, CutBound

LEMMA NextStoreInv ==
  ASSUME StoreInv, [StoreNext]_storeVars
  PROVE  StoreInv'
<1>1. TypeOK' /\ Exclusive'
  BY NextTypeOK, NextExclusive DEF StoreInv
<1>2. TypeOK /\ StaleCounts /\ RetentionBound
  BY DEF StoreInv
<1>3. ASSUME NEW t \in Thread, NEW e \in Entry, Insert(t, e)
      PROVE  StaleCounts' /\ RetentionBound'
  BY <1>3, InsertBound
<1>4. ASSUME NEW t \in Thread, WriteStep(t) PROVE StaleCounts' /\ RetentionBound'
  <2>1. CASE CountRows(t) \/ DeleteExcess(t)
    BY <2>1, CountBound, DeleteExcessBound
  <2>2. CASE CheckSize(t) \/ CheckLoop(t) \/ DeleteBatch(t) \/ Checkpoint(t)
    <3>1. rows' \subseteq rows
      BY <2>2 DEF CheckSize, CheckLoop, DeleteBatch, Checkpoint, Remove
    <3>2. /\ \A u \in Thread : u # t => pc'[u] = pc[u]
          /\ pc[t] \notin {"count", "delete"} /\ pc'[t] \notin {"count", "delete"}
          /\ cuts' = cuts /\ excess' = excess
      BY <1>2, <2>2 DEF TypeOK, CheckSize, CheckLoop, DeleteBatch, Checkpoint
    <3>3. Pending' = Pending
      BY <3>2 DEF Pending
    <3> QED
      BY <1>1, <3>1, <3>2, <3>3, ShrinkBound
  <2> QED
    BY <1>4, <2>1, <2>2 DEF WriteStep
<1>5. ASSUME NEW p \in Process, Kill(p) PROVE StaleCounts' /\ RetentionBound'
  BY <1>5, KillBound
<1>6. ASSUME LastClose \/ UNCHANGED storeVars PROVE StaleCounts' /\ RetentionBound'
  <2>1. rows' = rows /\ Pending' = Pending /\ cuts' = cuts /\ pc' = pc /\ excess' = excess
    BY <1>6 DEF LastClose, storeVars, Pending
  <2>2. /\ rows' \subseteq rows
        /\ \A u \in Thread : pc'[u] = "delete" => pc[u] = "delete" /\ excess'[u] = excess[u]
    BY <2>1
  <2>3. Pending' = Pending /\ cuts' = cuts
    BY <2>1
  <2> QED
    BY <1>1, <2>2, <2>3, ShrinkBound
<1>7. ASSUME NEW t \in Thread, StatementFails(t) PROVE StaleCounts' /\ RetentionBound'
  BY <1>7, StatementBound
<1> QED
  BY <1>1, <1>3, <1>4, <1>5, <1>6, <1>7 DEF StoreNext, StoreInv

-----------------------------------------------------------------------------
(* The newest rows *)

AboveKey(e) == {f \in rows : Key(e) <= Key(f)}

LEMMA KeysAreInts == \A e \in Entry : Key(e) \in Int
  BY EntriesTyped, SecondIsNat DEF Key, TextOf

(***************************************************************************)
(* A prune that leaves max_entries rows leaves them above what it took and *)
(* above what had been taken before.                                       *)
(***************************************************************************)
LEMMA PruneKeepsNewest ==
  ASSUME TypeOK, TypeOK', written' = written, NEW D \in SUBSET rows, NEW n \in Nat,
         IsOldest(D, n), Remove(D),
         Cardinality(rows') >= MaxEntries, MaxEntries > 0,
         \A e \in written \ rows : Cardinality(AboveKey(e)) >= MaxEntries
  PROVE  \A e \in written' \ rows' : Cardinality(AboveKey(e)') >= MaxEntries
<1> SUFFICES ASSUME NEW e \in written' \ rows' PROVE Cardinality(AboveKey(e)') >= MaxEntries
  OBVIOUS
<1>1. rows' = rows \ D /\ rows \in SUBSET Entry /\ e \in Entry
  BY DEF TypeOK, Remove
<1>2. AboveKey(e)' = {f \in rows \ D : Key(e) <= Key(f)}
  BY <1>1 DEF AboveKey, Key, TextOf
<1>3. \A d \in D, k \in rows \ D : Key(d) <= Key(k)
  BY <1>1, KeysAreInts DEF IsOldest, Older
<1>4. CASE \E d \in D : Key(e) <= Key(d)
  <2>1. PICK d \in D : Key(e) <= Key(d)
    BY <1>4
  <2>2. \A k \in rows \ D : Key(e) <= Key(k)
    BY <1>1, <1>3, <2>1, KeysAreInts
  <2>3. AboveKey(e)' = rows'
    BY <1>1, <1>2, <2>2
  <2> QED
    BY <2>3
<1>5. CASE \A d \in D : ~(Key(e) <= Key(d))
  <2>1. e \notin D
    BY <1>1, <1>5, KeysAreInts
  <2>2. e \in written \ rows
    BY <1>1, <2>1
  <2>3. AboveKey(e)' = AboveKey(e)
    BY <1>2, <1>5 DEF AboveKey
  <2> QED
    BY <2>2, <2>3
<1> QED
  BY <1>4, <1>5

(***************************************************************************)
(* Steps that take nothing away.                                           *)
(***************************************************************************)
LEMMA KeepKeepsNewest ==
  ASSUME TypeOK, TypeOK', KeepsNewest, rows \subseteq rows', raced' = raced, shrunk' = shrunk,
         written' \ rows' \subseteq written \ rows
  PROVE  KeepsNewest'
<1> SUFFICES ASSUME MaxEntries > 0, ~raced', ~shrunk', NEW e \in written' \ rows'
             PROVE  Cardinality({f \in rows : Key(e) <= Key(f)}') >= MaxEntries
  BY DEF KeepsNewest
<1>1. Cardinality({f \in rows : Key(e) <= Key(f)}) >= MaxEntries
  BY DEF KeepsNewest
<1>2. {f \in rows : Key(e) <= Key(f)} \in SUBSET ({f \in rows : Key(e) <= Key(f)}')
  BY DEF Key, TextOf
<1>3. IsFiniteSet({f \in rows : Key(e) <= Key(f)}')
  <2>1. IsFiniteSet(rows')
    BY FS_Subset DEF TypeOK
  <2> QED
    BY <2>1, FS_Subset
<1> QED
  BY <1>1, <1>2, <1>3, Smaller, CapsAreInts

LEMMA NextNewestInv ==
  ASSUME NewestInv, [StoreNext]_storeVars
  PROVE  NewestInv'
<1>1. StoreInv /\ StoreInv' /\ TypeOK /\ TypeOK' /\ FreshCounts /\ KeepsNewest /\ StaleCounts
  BY NextStoreInv DEF NewestInv, StoreInv
<1>2. Cardinality(rows) \in Nat
  BY <1>1, Sizes
<1>3. ASSUME NEW t \in Thread, NEW e \in Entry, Insert(t, e)
      PROVE  FreshCounts' /\ KeepsNewest'
  <2>1. /\ rows' = rows \union {e} /\ written' = written \union {e}
        /\ Cardinality(rows') = Cardinality(rows) + 1
        /\ pc[t] = "idle" /\ pc' = [pc EXCEPT ![t] = "count"]
    BY <1>1, <1>3, InsertFacts
  <2>2. excess' = excess /\ raced' = raced /\ shrunk' = shrunk
    BY <1>3 DEF Insert
  <2>3. KeepsNewest'
    BY <1>1, <2>1, <2>2, KeepKeepsNewest
  <2>4. FreshCounts'
    BY <1>1, <1>2, <2>1, <2>2, CapsAreInts DEF FreshCounts, TypeOK
  <2> QED
    BY <2>3, <2>4
<1>4. ASSUME NEW t \in Thread, CountRows(t) PROVE FreshCounts' /\ KeepsNewest'
  <2>1. table' = table /\ written' = written /\ raced' = raced /\ shrunk' = shrunk
    BY <1>4 DEF CountRows
  <2>2. KeepsNewest'
    BY <1>1, <2>1, KeepKeepsNewest
  <2>3. ASSUME NEW u \in Thread, pc'[u] = "delete", ~raced
        PROVE  Cardinality(rows') >= MaxEntries + excess'[u] \/ shrunk'
    <3>1. CASE u = t
      <4>1. excess'[u] = Cardinality(rows) - MaxEntries
        BY <1>1, <1>4, <2>3, <3>1 DEF CountRows, TypeOK, Excess
      <4> QED
        BY <1>2, <2>1, <4>1, CapsAreInts
    <3>2. CASE u # t
      <4>1. pc[u] = "delete" /\ excess'[u] = excess[u]
        BY <1>1, <1>4, <2>3, <3>2 DEF CountRows, TypeOK
      <4> QED
        BY <1>1, <2>1, <2>3, <4>1 DEF FreshCounts
    <3> QED
      BY <3>1, <3>2
  <2> QED
    BY <2>1, <2>2, <2>3 DEF FreshCounts
<1>5. ASSUME NEW t \in Thread, DeleteExcess(t) PROVE FreshCounts' /\ KeepsNewest'
  <2>1. PICK D \in SUBSET rows : IsOldest(D, excess[t]) /\ Remove(D)
    BY <1>5 DEF DeleteExcess
  <2>2. /\ pc[t] = "delete" /\ pc' = [pc EXCEPT ![t] = "size"]
        /\ raced' = (raced \/ Overlaps(t)) /\ shrunk' = shrunk /\ written' = written
        /\ excess[t] \in Nat
    BY <1>1, <1>5 DEF DeleteExcess, TypeOK
  <2>3. FreshCounts'
    BY <1>1, <2>2 DEF FreshCounts, Overlaps, TypeOK
  <2>4. ASSUME MaxEntries > 0, ~raced', ~shrunk'
        PROVE  \A e \in written' \ rows' : Cardinality(AboveKey(e)') >= MaxEntries
    <3>1. Cardinality(rows) >= MaxEntries + excess[t]
      BY <1>1, <2>2, <2>4 DEF FreshCounts
    <3>2. Cardinality(rows') =
            IF excess[t] < Cardinality(rows) THEN Cardinality(rows) - excess[t] ELSE 0
      BY <1>1, <2>1, <2>2, Pruned
    <3>3. Cardinality(rows') >= MaxEntries
      BY <1>2, <2>2, <2>4, <3>1, <3>2, CapsAreInts
    <3>4. \A e \in written \ rows : Cardinality(AboveKey(e)) >= MaxEntries
      BY <1>1, <2>2, <2>4 DEF KeepsNewest, AboveKey
    <3> QED
      BY <1>1, <2>1, <2>2, <2>4, <3>3, <3>4, PruneKeepsNewest
  <2> QED
    BY <2>3, <2>4 DEF KeepsNewest, AboveKey
<1>6. ASSUME NEW t \in Thread, DeleteBatch(t) PROVE FreshCounts' /\ KeepsNewest'
  <2>1. shrunk' = TRUE
    BY <1>6 DEF DeleteBatch
  <2> QED
    BY <2>1 DEF FreshCounts, KeepsNewest
<1>7. ASSUME \/ \E t \in Thread : CheckSize(t) \/ CheckLoop(t) \/ Checkpoint(t) \/ StatementFails(t)
             \/ \E p \in Process : Kill(p)
             \/ LastClose \/ UNCHANGED storeVars
      PROVE  FreshCounts' /\ KeepsNewest'
  <2>1. table' = table /\ written' = written /\ raced' = raced /\ shrunk' = shrunk
    BY <1>7 DEF CheckSize, CheckLoop, Checkpoint, StatementFails, Kill, LastClose, storeVars
  <2>2. \A u \in Thread : pc'[u] = "delete" => pc[u] = "delete" /\ excess'[u] = excess[u]
    BY <1>1, <1>7 DEF TypeOK, CheckSize, CheckLoop, Checkpoint, StatementFails, Kill, LastClose,
                      storeVars
  <2>3. KeepsNewest'
    BY <1>1, <2>1, KeepKeepsNewest
  <2>4. rows' = rows
    BY <2>1
  <2>5. ASSUME ~raced', NEW u \in Thread, pc'[u] = "delete"
        PROVE  Cardinality(rows') >= MaxEntries + excess'[u] \/ shrunk'
    <3>1. Cardinality(rows) >= MaxEntries + excess[u] \/ shrunk
      BY <1>1, <2>1, <2>2, <2>5 DEF FreshCounts
    <3> QED
      BY <2>1, <2>2, <2>4, <2>5, <3>1
  <2>6. FreshCounts'
    BY <2>5 DEF FreshCounts
  <2> QED
    BY <2>3, <2>6
<1> QED
  BY <1>1, <1>3, <1>4, <1>5, <1>6, <1>7 DEF StoreNext, WriteStep, NewestInv

-----------------------------------------------------------------------------
(* The theorems *)

LEMMA StoreInvariance == StoreSpec => []NewestInv
  BY StoreInitInv, NextNewestInv, PTL DEF StoreSpec

\* Every variable keeps its type.
THEOREM TypeCorrect == StoreSpec => []TypeOK
<1>1. NewestInv => TypeOK
  BY DEF NewestInv, StoreInv
<1> QED
  BY <1>1, StoreInvariance, PTL

\* The log holds at most max_entries rows and those not yet pruned.
THEOREM RetentionHolds == StoreSpec => []RetentionBound
<1>1. NewestInv => RetentionBound
  BY DEF NewestInv, StoreInv
<1> QED
  BY <1>1, StoreInvariance, PTL

\* At most one writer of each process is pending.
THEOREM WritersAreExclusive == StoreSpec => []OneWriterPerProcess
<1>1. NewestInv => OneWriterPerProcess
  <2> SUFFICES ASSUME NewestInv PROVE OneWriterPerProcess
    OBVIOUS
  <2> DEFINE f == [t \in Pending |-> ProcessOf[t]]
  <2>1. f \in [Pending -> Process]
    BY ThreadsHaveProcess DEF Pending
  <2>2. \A t, u \in Pending : f[t] = f[u] => t = u
    BY DEF NewestInv, StoreInv, Exclusive, Pending
  <2>3. f \in Injection(Pending, Process)
    BY <2>1, <2>2 DEF Injection, IsInjective
  <2> QED
    BY <2>3, FS_Injection, ProcessFinite DEF OneWriterPerProcess
<1> QED
  BY <1>1, StoreInvariance, PTL

\* Retention by count never takes one of the newest max_entries rows.
THEOREM NewestAreKept == StoreSpec => []KeepsNewest
<1>1. NewestInv => KeepsNewest
  BY DEF NewestInv
<1> QED
  BY <1>1, StoreInvariance, PTL

-----------------------------------------------------------------------------
(* One process on the file *)

\* The deployment the store is written for: one process opens the file.
OneProcess == \A p, q \in Process : p = q

\* In it the lock leaves one thread inside write_entry.
LEMMA OneWriter ==
  ASSUME OneProcess, Exclusive
  PROVE  \A t, u \in Thread : pc[t] # "idle" /\ pc[u] # "idle" => t = u
  BY ThreadsHaveProcess DEF OneProcess, Exclusive

\* What is true while the file has never been over its size.
NeverOver ==
  /\ ~raced /\ ~shrunk
  /\ \A t \in Thread : pc[t] \notin {"loop", "batch", "checkpoint"}
  /\ MaxEntries <= 0 => rows = written

LEMMA NextNeverOver ==
  ASSUME OneProcess, StoreInv, NeverOver, ~OverSize, [StoreNext]_storeVars
  PROVE  NeverOver'
<1> USE DEF NeverOver
<1>0. TypeOK /\ Exclusive /\ StaleCounts
  BY DEF StoreInv
<1>1. ASSUME NEW t \in Thread, NEW e \in Entry, Insert(t, e) PROVE NeverOver'
  <2>1. rows' = rows \union {e} /\ written' = written \union {e}
        /\ pc' = [pc EXCEPT ![t] = "count"]
    BY <1>0, <1>1, InsertFacts
  <2> QED
    BY <1>0, <1>1, <2>1 DEF Insert, TypeOK
<1>2. ASSUME NEW t \in Thread, DeleteExcess(t) PROVE NeverOver'
  <2>1. MaxEntries > 0
    BY <1>0, <1>2 DEF DeleteExcess, StaleCounts
  <2>2. ~Overlaps(t)
    BY <1>0, <1>2, OneWriter DEF DeleteExcess, Overlaps
  <2> QED
    BY <1>0, <1>2, <2>1, <2>2, CapsAreInts DEF DeleteExcess, TypeOK
<1>3. ASSUME NEW t \in Thread, CountRows(t) \/ CheckSize(t) PROVE NeverOver'
  BY <1>0, <1>3 DEF CountRows, CheckSize, TypeOK
<1>4. ASSUME NEW t \in Thread, CheckLoop(t) \/ DeleteBatch(t) \/ Checkpoint(t) PROVE FALSE
  BY <1>4 DEF CheckLoop, DeleteBatch, Checkpoint
<1>5. ASSUME NEW p \in Process, Kill(p) PROVE NeverOver'
  BY <1>5 DEF Kill
<1>6. CASE LastClose \/ UNCHANGED storeVars
  BY <1>6 DEF LastClose, storeVars
<1>7. ASSUME NEW t \in Thread, StatementFails(t) PROVE NeverOver'
  BY <1>0, <1>7 DEF StatementFails, TypeOK
<1> QED
  BY <1>1, <1>2, <1>3, <1>4, <1>5, <1>6, <1>7 DEF StoreNext, WriteStep

(***************************************************************************)
(* As long as the file is never over max_bytes, a log written to by one    *)
(* process is never left empty, whenever that process is killed or a       *)
(* statement raises: it is the byte cap alone that empties it.             *)
(***************************************************************************)
THEOREM LogKeptUnderCap ==
  ASSUME OneProcess
  PROVE  StoreSpec /\ []~OverSize => []LogIsKept
<1>1. StoreInit => NeverOver
  BY DEF StoreInit, NeverOver
<1>2. NewestInv /\ NeverOver /\ ~OverSize /\ [StoreNext]_storeVars => NeverOver'
  BY OneProcess, NextNeverOver DEF NewestInv
<1>3. ASSUME NewestInv, NeverOver PROVE LogIsKept
  <2> SUFFICES ASSUME written # {}, rows = {} PROVE FALSE
    BY DEF LogIsKept
  <2>1. PICK e : e \in written \ rows
    OBVIOUS
  <2>2. {f \in rows : Key(e) <= Key(f)} = {}
    OBVIOUS
  <2>3. MaxEntries > 0 => Cardinality({}) >= MaxEntries
    BY <1>3, <2>1, <2>2 DEF NewestInv, KeepsNewest, NeverOver
  <2> QED
    BY <1>3, <2>1, <2>3, FS_EmptySet, CapsAreInts DEF NeverOver
<1> QED
  BY <1>1, <1>2, <1>3, StoreInvariance, PTL DEF StoreSpec

(***************************************************************************)
(* Inside the loop of the byte cap the file stays over its size, because   *)
(* a DELETE does not shrink it; the loop is left at an empty table only.   *)
(***************************************************************************)
LoopRunsOut ==
  /\ \A t \in Thread : pc[t] \in {"loop", "batch"} => OverSize
  /\ \A t \in Thread : pc[t] = "checkpoint" => rows = {}

LEMMA NextLoopRunsOut ==
  ASSUME OneProcess, StoreInv, LoopRunsOut, [StoreNext]_storeVars
  PROVE  LoopRunsOut'
<1>0. TypeOK /\ Exclusive /\ \A t, u \in Thread : pc[t] # "idle" /\ pc[u] # "idle" => t = u
  BY OneWriter DEF StoreInv
<1> USE <1>0 DEF LoopRunsOut
<1>1. ASSUME NEW t \in Thread, NEW e \in Entry, Insert(t, e) PROVE LoopRunsOut'
  <2>1. \A u \in Thread : pc[u] = "idle"
    BY <1>1, ThreadsHaveProcess DEF OneProcess, Insert, LockFree
  <2> QED
    BY <1>1, <2>1 DEF Insert, TypeOK
<1>2. ASSUME NEW t \in Thread, CountRows(t) \/ DeleteExcess(t) PROVE LoopRunsOut'
  BY <1>2 DEF CountRows, DeleteExcess, TypeOK
<1>3. ASSUME NEW t \in Thread, CheckSize(t) \/ CheckLoop(t) PROVE LoopRunsOut'
  BY <1>3 DEF CheckSize, CheckLoop, OverSize, Bytes, fileVars, TypeOK
<1>4. ASSUME NEW t \in Thread, DeleteBatch(t) PROVE LoopRunsOut'
  <2>1. PICK D \in SUBSET rows :
          /\ IsOldest(D, Batch) /\ Remove(D)
          /\ pc' = [pc EXCEPT ![t] = IF D = {} THEN "checkpoint" ELSE "loop"]
    BY <1>4 DEF DeleteBatch
  <2>2. pc[t] = "batch" /\ \A u \in Thread : u # t => pc[u] = "idle"
    BY <1>4 DEF DeleteBatch
  <2>3. OverSize'
    <3>1. OverSize /\ slots' = slots
      BY <1>4, <2>2 DEF DeleteBatch
    <3>2. wal' \in Nat /\ wal' >= wal
      BY <2>1 DEF Remove, FrameAdded, TypeOK
    <3> QED
      BY <3>1, <3>2, CapsAreInts DEF OverSize, Bytes, TypeOK
  <2>4. D = {} => rows' = {}
    <3>1. Cardinality({}) = 0 /\ Cardinality(rows) \in Nat /\ IsFiniteSet(rows)
      BY Sizes, FS_EmptySet
    <3>2. D = {} => Cardinality(rows) = 0
      BY <2>1, <3>1, BatchIsNat DEF IsOldest
    <3>3. rows' = rows \ D
      BY <2>1 DEF Remove
    <3> QED
      BY <3>1, <3>2, <3>3, FS_EmptySet
  <2> QED
    BY <2>1, <2>2, <2>3, <2>4 DEF TypeOK
<1>5. ASSUME NEW t \in Thread, Checkpoint(t) PROVE LoopRunsOut'
  BY <1>5 DEF Checkpoint, TypeOK
<1>6. ASSUME NEW p \in Process, Kill(p) PROVE LoopRunsOut'
  BY <1>6 DEF Kill, OverSize, Bytes, fileVars, TypeOK
<1>7. CASE LastClose
  BY <1>7 DEF LastClose
<1>8. CASE UNCHANGED storeVars
  BY <1>8 DEF storeVars, fileVars, OverSize, Bytes
<1>9. ASSUME NEW t \in Thread, StatementFails(t) PROVE LoopRunsOut'
  BY <1>9 DEF StatementFails, OverSize, Bytes, fileVars, TypeOK
<1> QED
  BY <1>1, <1>2, <1>3, <1>4, <1>5, <1>6, <1>7, <1>8, <1>9 DEF StoreNext, WriteStep

(***************************************************************************)
(* Once a write finds the file over max_bytes it deletes every row, the    *)
(* one it has just inserted included, however small the excess was.        *)
(***************************************************************************)
THEOREM ByteCapTakesAll ==
  ASSUME OneProcess
  PROVE  StoreSpec => [](\A t \in Thread : pc[t] = "checkpoint" => rows = {})
<1>1. StoreInit => LoopRunsOut
  BY DEF StoreInit, LoopRunsOut
<1>2. NewestInv /\ LoopRunsOut /\ [StoreNext]_storeVars => LoopRunsOut'
  BY OneProcess, NextLoopRunsOut DEF NewestInv
<1>3. LoopRunsOut => \A t \in Thread : pc[t] = "checkpoint" => rows = {}
  BY DEF LoopRunsOut
<1> QED
  BY <1>1, <1>2, <1>3, StoreInvariance, PTL DEF StoreSpec

-----------------------------------------------------------------------------
(* Writes run out *)

\* Statements a write has to come, the turns of its loop not counted.
Left(point) == CASE point = "count" -> 6
                 [] point = "delete" -> 5
                 [] point = "size" -> 4
                 [] point = "loop" -> 3
                 [] point = "batch" -> 2
                 [] OTHER -> 1

\* A turn of the byte cap's loop takes two statements and a row at least.
Fuel(t) == IF pc[t] = "idle" THEN 0 ELSE Left(pc[t]) + 2 * Cardinality(rows)

LEMMA Lefts ==
  /\ Left("count") = 6 /\ Left("delete") = 5 /\ Left("size") = 4 /\ Left("loop") = 3
  /\ Left("batch") = 2 /\ Left("checkpoint") = 1
  BY DEF Left

LEMMA FuelIsNat == ASSUME TypeOK, NEW t \in Thread PROVE Fuel(t) \in Nat
<1>1. pc[t] \in Points /\ Cardinality(rows) \in Nat
  BY Sizes DEF TypeOK
<1>2. pc[t] # "idle" => Left(pc[t]) \in 1..6
  BY <1>1, Lefts DEF Points
<1> HIDE DEF Left
<1> QED
  BY <1>1, <1>2 DEF Fuel

\* What a statement of a write does to its place and to the rows.
LEMMA WriteMoves ==
  ASSUME TypeOK, NEW t \in Thread, WriteStep(t)
  PROVE  /\ \A u \in Thread \ {t} : pc'[u] = pc[u]
         /\ Cardinality(rows') \in Nat /\ Cardinality(rows') <= Cardinality(rows)
         /\ pc[t] # "idle"
         /\ \/ pc'[t] = "idle"
            \/ pc'[t] # "idle" /\ Left(pc'[t]) < Left(pc[t])
            \/ /\ pc[t] = "batch" /\ pc'[t] = "loop"
               /\ Cardinality(rows') < Cardinality(rows)
<1>1. pc \in [Thread -> Points] /\ Cardinality(rows) \in Nat
  BY Sizes DEF TypeOK
<1>2. CASE CountRows(t) \/ CheckSize(t) \/ CheckLoop(t) \/ Checkpoint(t)
  <2>1. table' = table
    BY <1>2 DEF CountRows, CheckSize, CheckLoop, Checkpoint
  <2>2. /\ \A u \in Thread \ {t} : pc'[u] = pc[u]
        /\ \/ pc[t] = "count" /\ pc'[t] \in {"delete", "size"}
           \/ pc[t] = "size" /\ pc'[t] \in {"loop", "idle"}
           \/ pc[t] = "loop" /\ pc'[t] \in {"batch", "checkpoint"}
           \/ pc[t] = "checkpoint" /\ pc'[t] = "idle"
    BY <1>1, <1>2 DEF CountRows, CheckSize, CheckLoop, Checkpoint
  <2> QED
    BY <1>1, <2>1, <2>2, Lefts
<1>3. CASE DeleteExcess(t)
  <2>1. PICK D \in SUBSET rows : IsOldest(D, excess[t]) /\ Remove(D)
    BY <1>3 DEF DeleteExcess
  <2>2. rows' = rows \ D
    BY <2>1 DEF Remove
  <2>3. Cardinality(rows') \in Nat /\ Cardinality(rows') <= Cardinality(rows)
    BY <2>2, Sizes, Smaller
  <2>4. pc[t] = "delete" /\ pc'[t] = "size" /\ \A u \in Thread \ {t} : pc'[u] = pc[u]
    BY <1>1, <1>3 DEF DeleteExcess
  <2> QED
    BY <2>3, <2>4, Lefts
<1>4. CASE DeleteBatch(t)
  <2>1. PICK D \in SUBSET rows :
          /\ IsOldest(D, Batch) /\ Remove(D)
          /\ pc' = [pc EXCEPT ![t] = IF D = {} THEN "checkpoint" ELSE "loop"]
    BY <1>4 DEF DeleteBatch
  <2>2. /\ rows' = rows \ D /\ Cardinality(rows') \in Nat
        /\ Cardinality(rows') =
             IF Batch < Cardinality(rows) THEN Cardinality(rows) - Batch ELSE 0
    BY <2>1, BatchIsNat, Pruned
  <2>3. D # {} => Cardinality(rows) # 0
    BY Sizes, FS_EmptySet
  <2>4. /\ Cardinality(rows') <= Cardinality(rows)
        /\ D # {} => Cardinality(rows') < Cardinality(rows)
    BY <1>1, <2>2, <2>3, BatchIsNat
  <2>5. /\ pc[t] = "batch" /\ \A u \in Thread \ {t} : pc'[u] = pc[u]
        /\ pc'[t] = IF D = {} THEN "checkpoint" ELSE "loop"
    BY <1>1, <1>4, <2>1 DEF DeleteBatch
  <2> QED
    BY <2>2, <2>4, <2>5, Lefts
<1> QED
  BY <1>2, <1>3, <1>4 DEF WriteStep

LEMMA WriteBurns ==
  ASSUME TypeOK, TypeOK', NEW t \in Thread, WriteStep(t), NEW u \in Thread
  PROVE  /\ u = t => Fuel(u)' < Fuel(u)
         /\ Fuel(u)' <= Fuel(u)
<1>1. /\ Cardinality(rows) \in Nat /\ Cardinality(rows') \in Nat
      /\ Cardinality(rows') <= Cardinality(rows)
  BY Sizes, WriteMoves
<1>2. /\ pc[u] # "idle" => Left(pc[u]) \in 1..6
      /\ pc'[u] # "idle" => Left(pc'[u]) \in 1..6
  BY Lefts DEF TypeOK, Points
<1>3. /\ Fuel(u) = IF pc[u] = "idle" THEN 0 ELSE Left(pc[u]) + 2 * Cardinality(rows)
      /\ Fuel(u)' = IF pc'[u] = "idle" THEN 0 ELSE Left(pc'[u]) + 2 * Cardinality(rows')
  BY DEF Fuel
<1>4. CASE u # t
  <2>1. pc'[u] = pc[u]
    BY <1>4, WriteMoves
  <2> HIDE DEF Left, rows
  <2> QED
    BY <1>1, <1>2, <1>3, <1>4, <2>1
<1>5. CASE u = t
  <2>1. /\ pc[u] # "idle"
        /\ \/ pc'[u] = "idle"
           \/ pc'[u] # "idle" /\ Left(pc'[u]) < Left(pc[u])
           \/ /\ pc[u] = "batch" /\ pc'[u] = "loop"
              /\ Cardinality(rows') < Cardinality(rows)
    BY <1>5, WriteMoves
  <2>2. Left("batch") = 2 /\ Left("loop") = 3
    BY Lefts
  <2> HIDE DEF Left, rows
  <2> QED
    BY <1>1, <1>2, <1>3, <2>1, <2>2
<1> QED
  BY <1>4, <1>5

SomeInsert == \E t \in Thread, e \in Entry : Insert(t, e)

Burns(t) == /\ WriteStep(t) => Fuel(t)' < Fuel(t)
            /\ SomeInsert \/ Fuel(t)' <= Fuel(t)

(***************************************************************************)
(* Every statement of a write burns of a supply that only new rows refill, *)
(* and a turn of the byte cap's loop, though it frees nothing, burns a row *)
(* at least: a write is over after a number of statements that the rows in *)
(* the table bound, as long as nobody inserts (_enforce_retention).  This  *)
(* is what WriteEnds needs besides fairness.                               *)
(***************************************************************************)
THEOREM WritesRunOut ==
  StoreSpec => /\ [](\A t \in Thread : Fuel(t) \in Nat)
               /\ [][\A t \in Thread : Burns(t)]_storeVars
<1>1. TypeOK => \A t \in Thread : Fuel(t) \in Nat
  BY FuelIsNat
<1>2. TypeOK /\ TypeOK' /\ [StoreNext]_storeVars => [\A t \in Thread : Burns(t)]_storeVars
  <2> SUFFICES ASSUME TypeOK, TypeOK', StoreNext, NEW u \in Thread
               PROVE  Burns(u)
    OBVIOUS
  <2>1. WriteStep(u) => Fuel(u)' < Fuel(u)
    BY WriteBurns
  <2>2. ASSUME NEW t \in Thread, WriteStep(t) PROVE Fuel(u)' <= Fuel(u)
    BY <2>2, WriteBurns
  <2>3. Fuel(u) \in Nat
    BY FuelIsNat
  <2>4. ASSUME NEW p \in Process, Kill(p) PROVE Fuel(u)' <= Fuel(u)
    <3>1. pc'[u] \in {"idle", pc[u]} /\ table' = table
      BY <2>4 DEF Kill
    <3>2. Fuel(u)' \in {0, Fuel(u)}
      BY <3>1 DEF Fuel
    <3> QED
      BY <2>3, <3>2
  <2>5. ASSUME LastClose PROVE Fuel(u)' <= Fuel(u)
    <3>1. Fuel(u)' \in {0, Fuel(u)}
      BY <2>5 DEF LastClose, Fuel
    <3> QED
      BY <2>3, <3>1
  <2>6. ASSUME NEW t \in Thread, StatementFails(t) PROVE Fuel(u)' <= Fuel(u)
    <3>1. pc'[u] \in {"idle", pc[u]} /\ table' = table
      BY <2>6 DEF StatementFails, TypeOK
    <3>2. Fuel(u)' \in {0, Fuel(u)}
      BY <3>1 DEF Fuel
    <3> QED
      BY <2>3, <3>2
  <2> QED
    BY <2>1, <2>2, <2>4, <2>5, <2>6 DEF StoreNext, Burns, SomeInsert
<1>3. StoreSpec => []TypeOK
  BY TypeCorrect
<1> QED
  BY <1>1, <1>2, <1>3, PTL DEF StoreSpec
=============================================================================
