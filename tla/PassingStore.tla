---------------------------- MODULE PassingStore ----------------------------
(***************************************************************************)
(* The passing store (TimingPassingStore): one SQLite table of passings,   *)
(* keyed by a store sequence number and unique by passing id.  The modules *)
(* of its writers and readers extend this one; each of its operations is a *)
(* synchronous transaction of the server process.                          *)
(***************************************************************************)
EXTENDS Naturals, Sequences, FiniteSets

CONSTANT Passings  \* passings with distinct ids

VARIABLES
  table,    \* the rows: [seq, passing]
  lastSeq   \* sqlite_sequence: the highest seq ever handed out

storeVars == <<table, lastSeq>>

Row == [seq : Nat, passing : Passings]

Stored == {r.passing : r \in table}

(* The positions of a batch whose passing is new: not in the table, nor earlier in the batch. *)
Fresh(batch) ==
  {i \in 1 .. Len(batch) : batch[i] \notin Stored /\ \A j \in 1 .. i - 1 : batch[j] # batch[i]}

(* Mutant of NewRows: a known id is inserted again. *)
NewRowsUnchecked(batch) ==
  {[seq |-> lastSeq + i, passing |-> batch[i]] : i \in 1 .. Len(batch)}

(* Mutant of NewRows: without AUTOINCREMENT the next seq follows the highest row that is left. *)
NewRowsAfterMax(batch) ==
  LET top == IF table = {} THEN 0 ELSE CHOOSE n \in {r.seq : r \in table} : \A r \in table : r.seq <= n
  IN {[seq |-> top + Cardinality({j \in Fresh(batch) : j <= i}), passing |-> batch[i]] : i \in Fresh(batch)}

(* What insert() adds: the new passings in batch order, with consecutive seqs. *)
NewRows(batch) ==
  {[seq |-> lastSeq + Cardinality({j \in Fresh(batch) : j <= i}), passing |-> batch[i]] : i \in Fresh(batch)}

Insert(batch) ==
  /\ table' = table \cup NewRows(batch)
  /\ lastSeq' = lastSeq + Cardinality(Fresh(batch))

(* delete(filter), for whatever rows the filter selects. *)
Delete(rows) ==
  /\ table' = table \ rows
  /\ UNCHANGED lastSeq

StoreInit == table = {} /\ lastSeq = 0

-----------------------------------------------------------------------------
StoreTypeOK == table \subseteq Row /\ lastSeq \in Nat

(* A repeated upload duplicates nothing: a passing id has one row and a seq names one row. *)
OneRowPerPassing ==
  \A r, s \in table : (r.passing = s.passing \/ r.seq = s.seq) => r = s

(* A seq is never handed out twice, not even after the row that had it was deleted: a consumer
   that has read up to a seq finds everything new after it. *)
SeqNeverReused ==
  [][\A r \in table' \ table : r.seq > lastSeq /\ r.seq <= lastSeq']_storeVars
=============================================================================
