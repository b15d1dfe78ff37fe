-------------------------- MODULE PassingStoreProofs --------------------------
(***************************************************************************)
(* Lemmas about the operations of PassingStore, for the proofs about the   *)
(* modules that extend it: what an insert and a delete do to a table whose *)
(* passings and sequence numbers are unique.                               *)
(***************************************************************************)
EXTENDS PassingStore, FiniteSetTheorems, WellFoundedInduction, TLAPS

(* No row has a number that was not handed out, and rows are unique both ways. *)
StoreInv ==
  /\ StoreTypeOK
  /\ \A r \in table : r.seq <= lastSeq
  /\ OneRowPerPassing

(* The offset of the number that position i of a batch gets. *)
Upto(batch, i) == {j \in Fresh(batch) : j <= i}

(* The fresh positions of a batch are finitely many of its positions. *)
LEMMA FreshFinite ==
  ASSUME NEW batch \in Seq(Passings)
  PROVE  /\ Fresh(batch) \subseteq 1 .. Len(batch)
         /\ IsFiniteSet(Fresh(batch))
         /\ Cardinality(Fresh(batch)) \in Nat
<1>1. Fresh(batch) \in SUBSET (1 .. Len(batch))
  BY DEF Fresh
<1>2. IsFiniteSet(1 .. Len(batch))
  BY FS_Interval
<1>3. IsFiniteSet(Fresh(batch))
  BY <1>1, <1>2, FS_Subset
<1> QED
  BY <1>1, <1>3, FS_CardinalityType

(* The numbers of one batch are consecutive and follow the order of the batch. *)
LEMMA Numbering ==
  ASSUME NEW batch \in Seq(Passings)
  PROVE  /\ \A i \in Fresh(batch) : Cardinality(Upto(batch, i)) \in 1 .. Cardinality(Fresh(batch))
         /\ \A i, k \in Fresh(batch) : i < k => Cardinality(Upto(batch, i)) < Cardinality(Upto(batch, k))
<1> DEFINE F == Fresh(batch)
<1>1. F \subseteq Nat /\ IsFiniteSet(F)
  BY FreshFinite
<1>2. ASSUME NEW i \in F
      PROVE  /\ Upto(batch, i) \in SUBSET F
             /\ IsFiniteSet(Upto(batch, i))
             /\ Cardinality(Upto(batch, i)) \in Nat
             /\ Cardinality(Upto(batch, i)) <= Cardinality(F)
             /\ Cardinality(Upto(batch, i)) # 0
  <2>1. Upto(batch, i) \in SUBSET F /\ i \in Upto(batch, i)
    BY <1>1, <1>2 DEF Upto
  <2>2. IsFiniteSet(Upto(batch, i)) /\ Cardinality(Upto(batch, i)) <= Cardinality(F)
    BY <1>1, <2>1, FS_Subset
  <2> QED
    BY <2>1, <2>2, FS_CardinalityType, FS_EmptySet
<1>3. ASSUME NEW i \in F, NEW k \in F, i < k
      PROVE  Cardinality(Upto(batch, i)) < Cardinality(Upto(batch, k))
  <2>1. Upto(batch, i) \cup {k} \in SUBSET Upto(batch, k) /\ k \notin Upto(batch, i)
    BY <1>1, <1>3 DEF Upto
  <2>2. Cardinality(Upto(batch, i) \cup {k}) = Cardinality(Upto(batch, i)) + 1
    BY <1>2, <2>1, FS_AddElement
  <2>3. Cardinality(Upto(batch, i) \cup {k}) <= Cardinality(Upto(batch, k))
    BY <1>2, <2>1, FS_Subset
  <2> QED
    BY <1>2, <2>2, <2>3
<1>4. Cardinality(F) \in Nat
  BY FreshFinite
<1> QED
  BY <1>2, <1>3, <1>4

(* Every passing of a batch that is not stored has a first position in the batch, a fresh one. *)
LEMMA FirstPosition ==
  ASSUME NEW batch \in Seq(Passings), NEW i \in 1 .. Len(batch), batch[i] \notin Stored
  PROVE  \E k \in Fresh(batch) : batch[k] = batch[i]
<1> DEFINE T == {j \in 1 .. Len(batch) : batch[j] = batch[i]}
<1>1. T \subseteq Nat /\ T # {}
  OBVIOUS
<1>2. PICK k \in T : \A j \in T : ~ (<<j, k>> \in OpToRel(<, Nat))
  BY <1>1, NatLessThanWellFounded, WFMin
<1>3. \A j \in T : ~ (j < k)
  BY <1>1, <1>2 DEF OpToRel
<1>4. k \in 1 .. Len(batch) /\ batch[k] = batch[i]
  BY <1>2
<1>5. \A j \in 1 .. k - 1 : batch[j] # batch[k]
  BY <1>3, <1>4
<1> QED
  BY <1>4, <1>5 DEF Fresh

-----------------------------------------------------------------------------
(* The rows an insert adds are new in passing and number, and differ from each other in both. *)
LEMMA NewRowsFacts ==
  ASSUME StoreTypeOK, NEW batch \in Seq(Passings)
  PROVE  /\ \A r \in NewRows(batch) :
              /\ r \in Row
              /\ r.seq > lastSeq /\ r.seq <= lastSeq + Cardinality(Fresh(batch))
              /\ r.passing \notin Stored
         /\ \A r, s \in NewRows(batch) : (r.passing = s.passing \/ r.seq = s.seq) => r = s
<1> DEFINE F == Fresh(batch)
           N(i) == Cardinality(Upto(batch, i))
           R(i) == [seq |-> lastSeq + N(i), passing |-> batch[i]]
<1>1. /\ F \subseteq 1 .. Len(batch)
      /\ Cardinality(F) \in Nat
      /\ \A i \in F : N(i) \in 1 .. Cardinality(F)
      /\ \A i, k \in F : i < k => N(i) < N(k)
  BY FreshFinite, Numbering
<1>2. lastSeq \in Nat
  BY DEF StoreTypeOK
<1>3. NewRows(batch) = {R(i) : i \in F}
  BY DEF NewRows, Upto
<1>4. ASSUME NEW i \in F
      PROVE  /\ R(i) \in Row
             /\ R(i).seq > lastSeq /\ R(i).seq <= lastSeq + Cardinality(F)
             /\ R(i).passing \notin Stored
  <2>1. N(i) \in 1 .. Cardinality(F) /\ batch[i] \in Passings
    BY <1>1, <1>4
  <2>2. batch[i] \notin Stored
    BY <1>4 DEF Fresh
  <2> HIDE DEF N, F
  <2> QED
    BY <1>1, <1>2, <2>1, <2>2 DEF Row
<1>5. ASSUME NEW i \in F, NEW k \in F, R(i).passing = R(k).passing \/ R(i).seq = R(k).seq
      PROVE  i = k
  <2>1. batch[i] = batch[k] => i = k
    BY <1>1, <1>5 DEF Fresh
  <2>2. i \in Nat /\ k \in Nat /\ N(i) \in Nat /\ N(k) \in Nat
    BY <1>1, <1>5
  <2>3. i < k => N(i) < N(k)
    BY <1>1
  <2>4. k < i => N(k) < N(i)
    BY <1>1
  <2> HIDE DEF N, F
  <2>5. lastSeq + N(i) = lastSeq + N(k) => i = k
    BY <1>2, <2>2, <2>3, <2>4
  <2> QED
    BY <1>5, <2>1, <2>5
<1> HIDE DEF R, F
<1> QED
  BY <1>3, <1>4, <1>5 DEF F

(* An insert keeps rows unique, numbers the new ones above every number handed out before, and
   leaves every passing of the batch in the table. *)
LEMMA InsertKeeps ==
  ASSUME StoreInv, NEW batch \in Seq(Passings), Insert(batch)
  PROVE  /\ StoreInv'
         /\ \A r \in table' \ table : r.seq > lastSeq /\ r.seq <= lastSeq'
         /\ Stored' = Stored \cup {batch[i] : i \in 1 .. Len(batch)}
<1> DEFINE New == NewRows(batch)
           n == Cardinality(Fresh(batch))
<1>1. /\ \A r \in New : r \in Row /\ r.seq > lastSeq /\ r.seq <= lastSeq + n /\ r.passing \notin Stored
      /\ \A r, s \in New : (r.passing = s.passing \/ r.seq = s.seq) => r = s
  BY NewRowsFacts DEF StoreInv
<1>2. /\ table \subseteq Row /\ lastSeq \in Nat
      /\ \A r \in table : r.seq \in Nat /\ r.seq <= lastSeq /\ r.passing \in Stored
      /\ \A r, s \in table : (r.passing = s.passing \/ r.seq = s.seq) => r = s
  BY DEF StoreInv, StoreTypeOK, OneRowPerPassing, Row, Stored
<1>3. table' = table \cup New /\ lastSeq' = lastSeq + n /\ n \in Nat
  BY FreshFinite DEF Insert
<1>4. Stored' = Stored \cup {batch[i] : i \in 1 .. Len(batch)}
  <2>1. Stored' = {r.passing : r \in table'} /\ Stored = {r.passing : r \in table}
    BY DEF Stored
  <2>2. ASSUME NEW r \in New
        PROVE  \E i \in 1 .. Len(batch) : r.passing = batch[i]
    <3>1. PICK i \in Fresh(batch) :
            r = [seq |-> lastSeq + Cardinality({j \in Fresh(batch) : j <= i}), passing |-> batch[i]]
      BY <2>2 DEF NewRows
    <3>2. i \in 1 .. Len(batch)
      BY FreshFinite
    <3> QED
      BY <3>1, <3>2
  <2>3. ASSUME NEW i \in 1 .. Len(batch), batch[i] \notin Stored
        PROVE  \E r \in New : r.passing = batch[i]
    <3>1. PICK k \in Fresh(batch) : batch[k] = batch[i]
      BY <2>3, FirstPosition
    <3>2. [seq |-> lastSeq + Cardinality({j \in Fresh(batch) : j <= k}), passing |-> batch[k]] \in New
      BY DEF NewRows
    <3> QED
      BY <3>1, <3>2
  <2> HIDE DEF New
  <2> QED
    BY <1>3, <2>1, <2>2, <2>3
<1> HIDE DEF New, n
<1>5. \A r \in New : r.seq \in Nat
  BY <1>1 DEF Row
<1>6. \A r \in table, s \in New : r.seq # s.seq /\ r.passing # s.passing
  BY <1>1, <1>2, <1>5
<1>7. StoreTypeOK' /\ \A r \in table' : r.seq <= lastSeq'
  BY <1>1, <1>2, <1>3, <1>5 DEF StoreTypeOK
<1>8. OneRowPerPassing'
  BY <1>1, <1>2, <1>3, <1>6 DEF OneRowPerPassing
<1>9. \A r \in table' \ table : r.seq > lastSeq /\ r.seq <= lastSeq'
  BY <1>1, <1>3
<1> QED
  BY <1>4, <1>7, <1>8, <1>9 DEF StoreInv

(* A delete takes rows away and nothing else. *)
LEMMA DeleteKeeps ==
  ASSUME StoreInv, NEW rows, Delete(rows)
  PROVE  /\ StoreInv'
         /\ table' \subseteq table
         /\ Stored \subseteq Stored' \cup {r.passing : r \in rows}
<1>1. table' = table \ rows /\ lastSeq' = lastSeq
  BY DEF Delete
<1>2. Stored \subseteq Stored' \cup {r.passing : r \in rows}
  BY <1>1 DEF Stored
<1> QED
  BY <1>1, <1>2 DEF StoreInv, StoreTypeOK, OneRowPerPassing
=============================================================================
