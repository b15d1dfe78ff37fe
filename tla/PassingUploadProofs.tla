------------------------- MODULE PassingUploadProofs -------------------------
(***************************************************************************)
(* Proofs about PassingUpload: for every set of passings, every batch and  *)
(* queue size and every number of passings and faults, the store keeps one *)
(* row per passing and never uses a number again, and the uploader loses   *)
(* nothing before its queue overflows.                                     *)
(***************************************************************************)
EXTENDS PassingUpload, PassingStoreProofs

(* What is left of a sequence without its first n elements. *)
LEMMA DropFacts ==
  ASSUME NEW S, NEW s \in Seq(S), NEW n \in Nat
  PROVE  /\ Drop(s, n) \in Seq(S)
         /\ Len(Drop(s, n)) = IF n <= Len(s) THEN Len(s) - n ELSE 0
         /\ \A i \in 1 .. Len(s) - n : Drop(s, n)[i] = s[i + n]
  BY DEF Drop

(* The elements of a sequence are those of its first part and those that are left when it is dropped. *)
LEMMA DropElements ==
  ASSUME NEW S, NEW s \in Seq(S), NEW n \in Nat, n <= Len(s)
  PROVE  Elements(s) \subseteq {s[i] : i \in 1 .. n} \cup Elements(Drop(s, n))
<1> SUFFICES ASSUME NEW i \in 1 .. Len(s), i > n
             PROVE  s[i] \in Elements(Drop(s, n))
  BY DEF Elements
<1>1. i - n \in 1 .. Len(s) - n /\ (i - n) + n = i
  OBVIOUS
<1>2. Drop(s, n)[i - n] = s[i]
  BY <1>1, DropFacts
<1>3. i - n \in 1 .. Len(Drop(s, n))
  BY <1>1, DropFacts
<1> QED
  BY <1>2, <1>3 DEF Elements

(* A batch is the front of the queue. *)
LEMMA FrontFacts ==
  ASSUME NEW S, NEW s \in Seq(S), NEW n \in Nat, n <= Len(s)
  PROVE  /\ SubSeq(s, 1, n) \in Seq(S)
         /\ Len(SubSeq(s, 1, n)) = n
         /\ \A i \in 1 .. n : SubSeq(s, 1, n)[i] = s[i]
  OBVIOUS

-----------------------------------------------------------------------------
(* Type correctness *)

(* The initial state is typed. *)
LEMMA InitTypeOK == Init => TypeOK
<1> SUFFICES ASSUME Init
             PROVE  TypeOK
  OBVIOUS
<1>1. <<>> \in Seq(Passings) /\ Len(<<>>) = 0
  OBVIOUS
<1>2. queue \in Seq(Passings) /\ Len(queue) <= MaxQueue /\ batch \in Seq(Passings) /\ Len(batch) <= MaxBatch
  BY <1>1, UploadAssumption DEF Init
<1>3. adds \in 0 .. MaxAdds /\ faults \in 0 .. MaxFaults
  BY UploadAssumption DEF Init
<1> QED
  BY <1>2, <1>3 DEF Init, TypeOK, StoreInit, StoreTypeOK

(* What Add does to the queue. *)
LEMMA AddQueue ==
  ASSUME TypeOK, NEW p \in Passings, Add(p)
  PROVE  /\ queue' \in Seq(Passings) /\ Len(queue') <= MaxQueue
         /\ warned \subseteq warned' /\ warned' \subseteq Passings
         /\ warned' = {} => queue' = Append(queue, p)
<1> DEFINE full == Append(queue, p)
           dropped == IF Len(full) > MaxQueue THEN Len(full) - MaxQueue ELSE 0
<1>1. /\ full \in Seq(Passings) /\ Len(full) = Len(queue) + 1
      /\ Len(queue) \in Nat /\ Len(queue) <= MaxQueue /\ MaxQueue \in Nat
  BY UploadAssumption DEF TypeOK
<1>2. dropped \in Nat /\ dropped <= Len(full) /\ Len(full) - dropped <= MaxQueue
  BY <1>1
<1>3. queue' = Drop(full, dropped) /\ warned' = warned \cup Elements(SubSeq(full, 1, dropped))
  BY DEF Add
<1> HIDE DEF full
<1>4. queue' \in Seq(Passings) /\ Len(queue') <= MaxQueue
  <2> HIDE DEF dropped
  <2> QED
    BY <1>1, <1>2, <1>3, DropFacts
<1>5. Elements(SubSeq(full, 1, dropped)) = {full[i] : i \in 1 .. dropped}
  <2> HIDE DEF dropped
  <2> QED
    BY <1>1, <1>2, FrontFacts DEF Elements
<1>6. warned \subseteq warned' /\ warned' \subseteq Passings
  <2>1. \A i \in 1 .. dropped : full[i] \in Passings
    BY <1>1, <1>2
  <2> QED
    BY <1>3, <1>5, <2>1 DEF TypeOK
<1>7. warned' = {} => queue' = Append(queue, p)
  <2> SUFFICES ASSUME warned' = {}
               PROVE  queue' = full
    BY DEF full
  <2>1. dropped = 0
    <3>1. ~ (1 \in 1 .. dropped)
      BY <1>3, <1>5
    <3> QED
      BY <1>2, <3>1
  <2>2. Drop(full, 0) = full
    BY <1>1 DEF Drop
  <2> QED
    BY <1>3, <2>1, <2>2
<1> QED
  BY <1>4, <1>6, <1>7

(* What Flush and FlushDone do to queue and batch. *)
LEMMA FlushBatch ==
  ASSUME TypeOK, Flush
  PROVE  /\ queue' = queue
         /\ \/ UNCHANGED <<inFlight, batch, http>>
            \/ /\ inFlight' = TRUE /\ http' = "sent"
               /\ batch' \in Seq(Passings) /\ Len(batch') <= MaxBatch /\ Len(batch') <= Len(queue)
               /\ \A i \in 1 .. Len(batch') : batch'[i] = queue[i]
<1> DEFINE n == Smaller(MaxBatch, Len(queue))
<1>1. n \in Nat /\ n <= MaxBatch /\ n <= Len(queue) /\ queue \in Seq(Passings)
  BY UploadAssumption DEF TypeOK, Smaller
<1>2. \/ UNCHANGED <<inFlight, batch, http>>
      \/ inFlight' = TRUE /\ http' = "sent" /\ batch' = SubSeq(queue, 1, n)
  BY DEF Flush
<1>3. queue' = queue
  BY DEF Flush
<1> HIDE DEF n
<1> QED
  BY <1>1, <1>2, <1>3, FrontFacts

(* The end of a flush leaves a queue within its limit, whatever the batch was. *)
LEMMA FlushDoneQueue ==
  ASSUME TypeOK, FlushDone
  PROVE  /\ queue' \in Seq(Passings) /\ Len(queue') <= MaxQueue
         /\ batch' \in Seq(Passings) /\ Len(batch') <= MaxBatch
<1>1. queue \in Seq(Passings) /\ Len(queue) <= MaxQueue /\ Len(batch) \in Nat
  BY DEF TypeOK
<1>2. queue' = queue \/ queue' = Drop(queue, Len(batch))
  BY DEF FlushDone, Answered
<1>3. batch' = <<>>
  BY DEF FlushDone, Answered
<1>4. Drop(queue, Len(batch)) \in Seq(Passings) /\ Len(Drop(queue, Len(batch))) <= MaxQueue
  <2>1. /\ Drop(queue, Len(batch)) \in Seq(Passings)
        /\ Len(Drop(queue, Len(batch))) = IF Len(batch) <= Len(queue) THEN Len(queue) - Len(batch) ELSE 0
    BY <1>1, DropFacts
  <2>2. Len(queue) \in Nat /\ Len(batch) \in Nat /\ Len(queue) <= MaxQueue /\ MaxQueue \in Nat
    BY <1>1, UploadAssumption
  <2>3. (IF Len(batch) <= Len(queue) THEN Len(queue) - Len(batch) ELSE 0) <= MaxQueue
    BY <2>2
  <2> QED
    BY <2>1, <2>3
<1> QED
  BY <1>1, <1>2, <1>3, <1>4, UploadAssumption

(* The store's part: uniqueness of rows, and numbers that only grow, in every step. *)
NumbersGrow == \A r \in table' \ table : r.seq > lastSeq /\ r.seq <= lastSeq'

(* Every step keeps the store's invariant; only an insert adds rows, with numbers of its own. *)
LEMMA NextStore ==
  ASSUME TypeOK, StoreInv, [Next]_vars
  PROVE  StoreInv' /\ NumbersGrow
<1>1. ASSUME NEW b \in Seq(Passings), Insert(b)
      PROVE  StoreInv' /\ NumbersGrow
  BY <1>1, InsertKeeps DEF NumbersGrow
<1>2. ASSUME UNCHANGED storeVars
      PROVE  StoreInv' /\ NumbersGrow
  BY <1>2 DEF storeVars, StoreInv, StoreTypeOK, OneRowPerPassing, NumbersGrow
<1>3. CASE Receive
  BY <1>1, <1>3 DEF Receive, TypeOK
<1>4. CASE \E b \in orphans : ReceiveOrphan(b)
  BY <1>1, <1>4 DEF ReceiveOrphan, TypeOK
<1>5. CASE \E rows \in SUBSET table : DeletePassings(rows)
  <2>1. PICK rows : Delete(rows)
    BY <1>5 DEF DeletePassings
  <2> QED
    BY <2>1, DeleteKeeps DEF NumbersGrow
<1>6. CASE \/ \E p \in Passings : Add(p)
           \/ Flush \/ FlushDone \/ Exit \/ RequestFails \/ AnswerLost \/ UNCHANGED vars
  BY <1>2, <1>6 DEF Add, Flush, FlushDone, Exit, RequestFails, AnswerLost, vars, storeVars
<1> QED
  BY <1>3, <1>4, <1>5, <1>6 DEF Next

(* The rest of TypeOK, in two parts: queue and request, counters and ghosts. *)
QueueType ==
  /\ queue \in Seq(Passings) /\ Len(queue) <= MaxQueue
  /\ timer \in BOOLEAN /\ inFlight \in BOOLEAN
  /\ batch \in Seq(Passings) /\ Len(batch) <= MaxBatch
  /\ http \in {"idle", "sent", "ok", "failed"}
  /\ inFlight <=> http # "idle"
  /\ orphans \subseteq Seq(Passings)

GhostType ==
  /\ held \subseteq Passings /\ warned \subseteq Passings /\ deleted \subseteq Passings
  /\ adds \in 0 .. MaxAdds /\ faults \in 0 .. MaxFaults

(* Every step keeps queue, batch and request typed. *)
LEMMA NextQueueType ==
  ASSUME TypeOK, [Next]_vars
  PROVE  QueueType'
<1>1. QueueType
  BY DEF TypeOK, QueueType
<1>2. ASSUME NEW p \in Passings, Add(p)
      PROVE  QueueType'
  BY <1>1, <1>2, AddQueue DEF Add, QueueType
<1>3. CASE Flush
  <2>1. timer' = FALSE /\ orphans' = orphans /\ queue' = queue
    BY <1>3 DEF Flush
  <2>2. CASE inFlight' = inFlight /\ batch' = batch /\ http' = http
    BY <1>1, <2>1, <2>2 DEF QueueType
  <2>3. CASE /\ inFlight' = TRUE /\ http' = "sent"
             /\ batch' \in Seq(Passings) /\ Len(batch') <= MaxBatch
    BY <1>1, <2>1, <2>3 DEF QueueType
  <2> QED
    BY <1>3, <2>2, <2>3, FlushBatch
<1>4. CASE FlushDone
  <2>1. inFlight' = FALSE /\ http' = "idle" /\ orphans' = orphans
    BY <1>4 DEF FlushDone, Answered
  <2>2. timer' \in BOOLEAN
    BY <1>1, <1>4 DEF FlushDone, Rescheduled, QueueType
  <2> QED
    BY <1>1, <1>4, <2>1, <2>2, FlushDoneQueue DEF QueueType
<1>5. CASE Exit
  <2>1. /\ queue' = <<>> /\ batch' = <<>> /\ timer' = FALSE /\ inFlight' = FALSE /\ http' = "idle"
        /\ orphans' \subseteq orphans \cup {batch}
    BY <1>5 DEF Exit
  <2>2. <<>> \in Seq(Passings) /\ Len(<<>>) <= MaxQueue /\ Len(<<>>) <= MaxBatch
    BY UploadAssumption
  <2> QED
    BY <1>1, <2>1, <2>2 DEF QueueType
<1>6. CASE Receive \/ RequestFails \/ AnswerLost
  BY <1>1, <1>6 DEF Receive, RequestFails, AnswerLost, QueueType
<1>7. CASE \E b \in orphans : ReceiveOrphan(b)
  BY <1>1, <1>7 DEF ReceiveOrphan, uploader, QueueType
<1>8. CASE \E rows \in SUBSET table : DeletePassings(rows)
  BY <1>1, <1>8 DEF DeletePassings, uploader, QueueType
<1>9. CASE UNCHANGED vars
  BY <1>1, <1>9 DEF vars, QueueType
<1> QED
  BY <1>2, <1>3, <1>4, <1>5, <1>6, <1>7, <1>8, <1>9 DEF Next

(* Every step keeps ghosts and counters typed. *)
LEMMA NextGhostType ==
  ASSUME TypeOK, [Next]_vars
  PROVE  GhostType'
<1>1. GhostType /\ MaxAdds \in Nat /\ MaxFaults \in Nat
  BY UploadAssumption DEF TypeOK, GhostType
<1>2. ASSUME NEW p \in Passings, Add(p)
      PROVE  GhostType'
  BY <1>1, <1>2, AddQueue DEF Add, GhostType
<1>3. ASSUME Fault
      PROVE  faults' \in 0 .. MaxFaults
  BY <1>1, <1>3 DEF Fault, GhostType
<1>4. CASE Exit \/ RequestFails \/ AnswerLost
  BY <1>1, <1>3, <1>4 DEF Exit, RequestFails, AnswerLost, ghosts, GhostType
<1>5. CASE \E rows \in SUBSET table : DeletePassings(rows)
  <2>1. PICK rows \in SUBSET table : DeletePassings(rows)
    BY <1>5
  <2>2. {r.passing : r \in rows} \subseteq Passings
    BY DEF TypeOK, StoreTypeOK, Row
  <2> QED
    BY <1>1, <1>3, <2>1, <2>2 DEF DeletePassings, GhostType
<1>6. CASE Flush \/ FlushDone \/ Receive \/ (\E b \in orphans : ReceiveOrphan(b)) \/ UNCHANGED vars
  BY <1>1, <1>6 DEF Flush, FlushDone, Receive, ReceiveOrphan, ghosts, vars, GhostType
<1> QED
  BY <1>2, <1>4, <1>5, <1>6 DEF Next

(* The empty store satisfies its invariant. *)
LEMMA InitStoreInv == Init => StoreInv
  BY DEF Init, StoreInit, StoreInv, StoreTypeOK, OneRowPerPassing

(* Types and store invariant together are inductive. *)
LEMMA NextTypeOK ==
  ASSUME TypeOK, StoreInv, [Next]_vars
  PROVE  TypeOK' /\ StoreInv'
  BY NextStore, NextQueueType, NextGhostType DEF TypeOK, StoreInv, QueueType, GhostType

(* Types and store invariant hold in every reachable state. *)
LEMMA TypeAndStore == Spec => [](TypeOK /\ StoreInv)
  BY InitTypeOK, InitStoreInv, NextTypeOK, PTL DEF Spec

(* Type correctness of the uploader, its requests and the store. *)
THEOREM TypeCorrect == Spec => []TypeOK
  BY TypeAndStore, PTL

(* A passing that is uploaded again, after a lost answer, after a restart of the worker or because
   the decoder sent it twice, is stored once. *)
THEOREM StoredOnce == Spec => []OneRowPerPassing
  BY TypeAndStore, PTL DEF StoreInv

(* A seq is never handed out twice, not even after deletions. *)
THEOREM SeqsGrow == Spec => SeqNeverReused
<1>1. TypeOK /\ StoreInv /\ [Next]_vars => [NumbersGrow]_storeVars
  BY NextStore
<1> QED
  BY <1>1, TypeAndStore, PTL DEF Spec, SeqNeverReused, NumbersGrow

-----------------------------------------------------------------------------
(* Nothing is lost before the queue overflows.  For that the batch under way has to be the front of
   the queue, or its answer would remove other passings. *)

BatchIsFront ==
  inFlight => Len(batch) <= Len(queue) /\ \A i \in 1 .. Len(batch) : batch[i] = queue[i]

ConfirmedIsStored == http = "ok" => Elements(batch) \subseteq Stored \cup deleted

Lossless == warned = {} => BatchIsFront /\ ConfirmedIsStored /\ Missing = {}

(* Every step keeps Lossless: a step that drops something falsifies its premise, no other one loses. *)
LEMMA NextLossless ==
  ASSUME TypeOK, StoreInv, Lossless, [Next]_vars
  PROVE  Lossless'
<1> SUFFICES ASSUME warned' = {}
             PROVE  BatchIsFront' /\ ConfirmedIsStored' /\ Missing' = {}
  BY DEF Lossless
<1>t. /\ queue \in Seq(Passings) /\ batch \in Seq(Passings)
      /\ inFlight \in BOOLEAN /\ (inFlight <=> http # "idle")
  BY DEF TypeOK
<1>1. ASSUME NEW p \in Passings, Add(p)
      PROVE  BatchIsFront' /\ ConfirmedIsStored' /\ Missing' = {}
  <2>1. warned = {} /\ queue' = Append(queue, p)
    BY <1>1, AddQueue
  <2>2. BatchIsFront /\ ConfirmedIsStored /\ Missing = {}
    BY <2>1 DEF Lossless
  <2>3. UNCHANGED <<inFlight, batch, http, deleted, table>> /\ held' = held \cup {p}
    BY <1>1 DEF Add, storeVars
  <2>4. Elements(queue') = Elements(queue) \cup {p}
    BY <1>t, <2>1 DEF Elements
  <2>5. BatchIsFront'
    BY <1>t, <2>1, <2>2, <2>3 DEF BatchIsFront
  <2>6. ConfirmedIsStored'
    BY <2>2, <2>3 DEF ConfirmedIsStored, Elements, Stored
  <2>7. Missing' = {}
    BY <2>1, <2>2, <2>3, <2>4 DEF Missing, Stored
  <2> QED
    BY <2>5, <2>6, <2>7
<1>2. CASE Exit
  BY <1>2 DEF Exit, BatchIsFront, ConfirmedIsStored, Missing
(* No other step changes `warned`. *)
<1>3. ASSUME warned' = warned
      PROVE  BatchIsFront /\ ConfirmedIsStored /\ Missing = {}
  BY <1>3 DEF Lossless
<1>4. CASE Flush
  <2>1. warned' = warned /\ queue' = queue /\ table' = table /\ held' = held /\ deleted' = deleted
    BY <1>4 DEF Flush, ghosts, storeVars
  <2>2. BatchIsFront /\ ConfirmedIsStored /\ Missing = {}
    BY <1>3, <2>1
  <2>3. ASSUME inFlight' = inFlight /\ batch' = batch /\ http' = http
        PROVE  BatchIsFront' /\ ConfirmedIsStored'
    <3>1. BatchIsFront'
      BY <2>1, <2>2, <2>3 DEF BatchIsFront
    <3>2. ConfirmedIsStored'
      BY <2>1, <2>2, <2>3 DEF ConfirmedIsStored, Elements, Stored
    <3> QED
      BY <3>1, <3>2
  <2>4. ASSUME /\ inFlight' = TRUE /\ http' = "sent" /\ Len(batch') <= Len(queue)
               /\ \A i \in 1 .. Len(batch') : batch'[i] = queue[i]
        PROVE  BatchIsFront' /\ ConfirmedIsStored'
    <3>1. BatchIsFront'
      BY <2>1, <2>4 DEF BatchIsFront
    <3>2. ConfirmedIsStored'
      BY <2>4 DEF ConfirmedIsStored
    <3> QED
      BY <3>1, <3>2
  <2>5. BatchIsFront' /\ ConfirmedIsStored'
    BY <1>4, <2>3, <2>4, FlushBatch
  <2> QED
    BY <2>1, <2>2, <2>5 DEF Missing, Stored, Elements
<1>5. CASE FlushDone
  <2>1. /\ warned' = warned
        /\ UNCHANGED <<table, held, warned, deleted>>
        /\ inFlight' = FALSE /\ http' = "idle" /\ inFlight
        /\ queue' = IF http = "ok" THEN Drop(queue, Len(batch)) ELSE queue
    BY <1>t, <1>5 DEF FlushDone, Answered, ghosts, storeVars
  <2>2. BatchIsFront /\ ConfirmedIsStored /\ Missing = {}
    BY <1>3, <2>1
  <2>3. BatchIsFront' /\ ConfirmedIsStored'
    BY <2>1 DEF BatchIsFront, ConfirmedIsStored
  <2>4. Elements(queue) \subseteq Elements(queue') \cup Stored \cup deleted
    <3>1. CASE http # "ok"
      BY <2>1, <3>1
    <3>2. CASE http = "ok"
      <4>1. Len(batch) \in Nat /\ Len(batch) <= Len(queue)
        BY <1>t, <2>1, <2>2 DEF BatchIsFront
      <4>2. {queue[i] : i \in 1 .. Len(batch)} \subseteq Elements(batch)
        BY <2>1, <2>2 DEF BatchIsFront, Elements
      <4>3. Elements(batch) \subseteq Stored \cup deleted
        BY <2>2, <3>2 DEF ConfirmedIsStored
      <4>4. queue' = Drop(queue, Len(batch))
        BY <2>1, <3>2
      <4> QED
        BY <1>t, <4>1, <4>2, <4>3, <4>4, DropElements
    <3> QED
      BY <3>1, <3>2
  <2>5. Missing' = {}
    BY <2>1, <2>2, <2>4 DEF Missing, Stored
  <2> QED
    BY <2>3, <2>5
<1>6. ASSUME NEW b \in Seq(Passings), Insert(b), UNCHANGED <<queue, batch, inFlight, ghosts>>,
             http' = "ok" => Elements(batch) \subseteq Stored'  \/ http = "ok"
      PROVE  BatchIsFront' /\ ConfirmedIsStored' /\ Missing' = {}
  <2>1. Stored \subseteq Stored'
    BY <1>6, InsertKeeps
  <2>2. /\ BatchIsFront /\ ConfirmedIsStored /\ Missing = {}
        /\ UNCHANGED <<queue, batch, inFlight, held, warned, deleted>>
    BY <1>3, <1>6 DEF ghosts
  <2>3. Elements(batch)' = Elements(batch) /\ Elements(queue)' = Elements(queue)
    BY <2>2 DEF Elements
  <2>4. ConfirmedIsStored'
    BY <1>6, <2>1, <2>2, <2>3 DEF ConfirmedIsStored
  <2> QED
    BY <2>1, <2>2, <2>3, <2>4 DEF BatchIsFront, Missing
<1>7. CASE Receive
  <2>1. Elements(batch) \subseteq Stored'
    BY <1>t, <1>7, InsertKeeps DEF Receive, Elements
  <2> QED
    BY <1>t, <1>6, <1>7, <2>1 DEF Receive
<1>8. CASE \E b \in orphans : ReceiveOrphan(b)
  BY <1>6, <1>8 DEF ReceiveOrphan, uploader, TypeOK
<1>9. CASE RequestFails \/ AnswerLost
  <2>1. UNCHANGED <<table, queue, batch, inFlight, held, warned, deleted>> /\ http' = "failed"
    BY <1>9 DEF RequestFails, AnswerLost, ghosts, storeVars
  <2> QED
    BY <1>3, <2>1 DEF BatchIsFront, ConfirmedIsStored, Missing, Elements, Stored
<1>10. CASE \E rows \in SUBSET table : DeletePassings(rows)
  <2>1. PICK rows \in SUBSET table : DeletePassings(rows)
    BY <1>10
  <2>2. Stored \subseteq Stored' \cup {r.passing : r \in rows}
    BY <2>1, DeleteKeeps DEF DeletePassings
  <2>3. /\ UNCHANGED <<queue, batch, inFlight, http, held, warned>>
        /\ deleted' = deleted \cup {r.passing : r \in rows}
    BY <2>1 DEF DeletePassings, uploader
  <2>4. Stored \cup deleted \subseteq Stored' \cup deleted'
    BY <2>2, <2>3
  <2>5. BatchIsFront /\ ConfirmedIsStored /\ Missing = {}
    BY <1>3, <2>3
  <2>6. Elements(batch)' = Elements(batch) /\ Elements(queue)' = Elements(queue)
    BY <2>3 DEF Elements
  <2> QED
    BY <2>3, <2>4, <2>5, <2>6 DEF BatchIsFront, ConfirmedIsStored, Missing
<1>11. CASE UNCHANGED vars
  BY <1>3, <1>11 DEF vars, BatchIsFront, ConfirmedIsStored, Missing, Elements, Stored
<1> QED
  BY <1>1, <1>2, <1>4, <1>5, <1>7, <1>8, <1>9, <1>10, <1>11 DEF Next

(* As long as the queue never overflowed, failed requests, lost answers and passings added while a
   request is under way lose nothing the running worker was given. *)
THEOREM NothingLostUntilFull == Spec => []ReliableUntilFull
<1>1. Init => Lossless
  BY DEF Init, Lossless, BatchIsFront, ConfirmedIsStored, Missing
<1>2. TypeOK /\ StoreInv /\ Lossless /\ [Next]_vars => Lossless'
  BY NextLossless
<1>3. Lossless => ReliableUntilFull
  BY DEF Lossless, ReliableUntilFull
<1> QED
  BY <1>1, <1>2, <1>3, TypeAndStore, PTL DEF Spec
=============================================================================
