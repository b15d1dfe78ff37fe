---------------------------- MODULE PassingUpload ----------------------------
(***************************************************************************)
(* The upload of passings from the timing worker to the passing store:     *)
(* the queue of TimingPassingUploader, its one request at a time, and the  *)
(* server's POST /timing/passings.                                         *)
(*                                                                         *)
(* flush() awaits the answer of the server.  Between the request and the   *)
(* answer the worker goes on adding passings, the queue may overflow, the  *)
(* answer may get lost after the insert, and an operator may delete        *)
(* passings; the worker may exit with its queue.                           *)
(***************************************************************************)
EXTENDS PassingStore

CONSTANTS
  MaxBatch,   \* options.maxBatch
  MaxQueue,   \* options.maxQueue
  MaxAdds,    \* bound: calls of add()
  MaxFaults   \* bound: failed requests, lost answers, deletions, worker exits

ASSUME UploadAssumption ==
  /\ MaxBatch \in Nat \ {0} /\ MaxQueue \in Nat \ {0}
  /\ MaxAdds \in Nat /\ MaxFaults \in Nat

VARIABLES
  queue,     \* passings not yet confirmed by the server
  timer,     \* a flush is scheduled
  inFlight,  \* flush() is waiting for its answer
  batch,     \* the local `batch` of that flush()
  http,      \* its request: idle, sent (to the server), ok or failed (back from it)
  orphans,   \* batches of exited workers still on their way to the server
  held,      \* ghost: passings given to the running worker's add()
  warned,    \* ghost: passings reported as dropped
  deleted,   \* ghost: passings an operator deleted
  adds,      \* counts calls of add(), up to MaxAdds
  faults     \* counts faults, up to MaxFaults

uploader == <<queue, timer, inFlight, batch, http>>
ghosts == <<held, warned, deleted>>
vars == <<table, lastSeq, queue, timer, inFlight, batch, http, orphans, held, warned, deleted, adds, faults>>

Elements(s) == {s[i] : i \in 1 .. Len(s)}
Smaller(m, n) == IF m <= n THEN m ELSE n
Drop(s, n) == SubSeq(s, n + 1, Len(s))

Fault == faults < MaxFaults /\ faults' = faults + 1

-----------------------------------------------------------------------------
(* The worker *)

(* add(): the passing is queued, beyond maxQueue the oldest are dropped with a warning. *)
Add(p) ==
  /\ adds < MaxAdds
  /\ adds' = adds + 1
  /\ LET full == Append(queue, p)
         dropped == IF Len(full) > MaxQueue THEN Len(full) - MaxQueue ELSE 0
     IN /\ queue' = Drop(full, dropped)
        /\ warned' = warned \cup Elements(SubSeq(full, 1, dropped))
  /\ timer' = TRUE
  /\ held' = held \cup {p}
  /\ UNCHANGED <<storeVars, inFlight, batch, http, orphans, deleted, faults>>

(* Mutant of Flush: the batch leaves the queue when it is sent. *)
FlushAndForget ==
  /\ timer
  /\ timer' = FALSE
  /\ IF inFlight \/ queue = <<>>
     THEN UNCHANGED <<queue, inFlight, batch, http>>
     ELSE /\ inFlight' = TRUE
          /\ batch' = SubSeq(queue, 1, Smaller(MaxBatch, Len(queue)))
          /\ queue' = Drop(queue, Smaller(MaxBatch, Len(queue)))
          /\ http' = "sent"
  /\ UNCHANGED <<storeVars, orphans, ghosts, adds, faults>>

(* The timer fires: flush() up to its await. *)
Flush ==
  /\ timer
  /\ timer' = FALSE
  /\ IF inFlight \/ queue = <<>>
     THEN UNCHANGED <<inFlight, batch, http>>
     ELSE /\ inFlight' = TRUE
          /\ batch' = SubSeq(queue, 1, Smaller(MaxBatch, Len(queue)))
          /\ http' = "sent"
  /\ UNCHANGED <<storeVars, queue, orphans, ghosts, adds, faults>>

(* Mutant of Answered: no `finally`, a failed request leaves the flush in flight. *)
AnsweredWithoutFinally ==
  /\ http \in {"ok", "failed"}
  /\ queue' = IF http = "ok" THEN Drop(queue, Len(batch)) ELSE queue
  /\ inFlight' = (http = "failed")
  /\ batch' = <<>>
  /\ http' = "idle"

(* flush() after its await: on success the batch leaves the queue. *)
Answered ==
  /\ http \in {"ok", "failed"}
  /\ queue' = IF http = "ok" THEN Drop(queue, Len(batch)) ELSE queue
  /\ inFlight' = FALSE
  /\ batch' = <<>>
  /\ http' = "idle"

(* Mutant of Rescheduled: the next flush is left to the next add(). *)
RescheduledByAdd == UNCHANGED timer

(* The end of flush(): what is left in the queue gets another flush. *)
Rescheduled == timer' = (timer \/ queue' # <<>>)

FlushDone ==
  /\ Answered
  /\ Rescheduled
  /\ UNCHANGED <<storeVars, orphans, ghosts, adds, faults>>

(* The worker process exits, by a crash or by stop() and process.exit(): its queue is gone, the
   flush() of stop() has no turn of the event loop left to send anything.  A request already on
   its way may still arrive.  The next worker starts with an empty queue. *)
Exit ==
  /\ Fault
  /\ queue' = <<>> /\ timer' = FALSE /\ inFlight' = FALSE /\ batch' = <<>> /\ http' = "idle"
  /\ orphans' = IF http = "sent" THEN orphans \cup {batch} ELSE orphans
  /\ held' = {} /\ warned' = {}
  /\ UNCHANGED <<storeVars, deleted, adds>>

-----------------------------------------------------------------------------
(* The server *)

(* POST /timing/passings: one transaction, then the answer. *)
Receive ==
  /\ http = "sent"
  /\ Insert(batch)
  /\ http' = "ok"
  /\ UNCHANGED <<queue, timer, inFlight, batch, orphans, ghosts, adds, faults>>

ReceiveOrphan(b) ==
  /\ b \in orphans
  /\ orphans' = orphans \ {b}
  /\ Insert(b)
  /\ UNCHANGED <<uploader, ghosts, adds, faults>>

(* The request does not reach the server, or the server answers with an error and has inserted
   nothing. *)
RequestFails ==
  /\ Fault
  /\ http = "sent"
  /\ http' = "failed"
  /\ UNCHANGED <<storeVars, queue, timer, inFlight, batch, orphans, ghosts, adds>>

(* The answer gets lost on its way back. *)
AnswerLost ==
  /\ Fault
  /\ http = "ok"
  /\ http' = "failed"
  /\ UNCHANGED <<storeVars, queue, timer, inFlight, batch, orphans, ghosts, adds>>

(* POST /timing/passings/delete. *)
DeletePassings(rows) ==
  /\ Fault
  /\ rows # {}
  /\ Delete(rows)
  /\ deleted' = deleted \cup {r.passing : r \in rows}
  /\ UNCHANGED <<uploader, orphans, held, warned, adds>>

-----------------------------------------------------------------------------
Init ==
  /\ StoreInit
  /\ queue = <<>> /\ timer = FALSE /\ inFlight = FALSE /\ batch = <<>> /\ http = "idle"
  /\ orphans = {}
  /\ held = {} /\ warned = {} /\ deleted = {}
  /\ adds = 0 /\ faults = 0

Next ==
  \/ \E p \in Passings : Add(p)
  \/ Flush \/ FlushDone \/ Exit
  \/ Receive \/ RequestFails \/ AnswerLost
  \/ \E b \in orphans : ReceiveOrphan(b)
  \/ \E rows \in SUBSET table : DeletePassings(rows)

(* A due timer fires, a request the network does not lose is answered, an answer is handled. *)
Fairness == WF_vars(Flush) /\ WF_vars(Receive) /\ WF_vars(FlushDone)

Spec == Init /\ [][Next]_vars
FairSpec == Spec /\ Fairness

-----------------------------------------------------------------------------
(* Type invariant; the flags of a flush() agree with its request. *)
TypeOK ==
  /\ StoreTypeOK
  /\ queue \in Seq(Passings) /\ Len(queue) <= MaxQueue
  /\ timer \in BOOLEAN /\ inFlight \in BOOLEAN
  /\ batch \in Seq(Passings) /\ Len(batch) <= MaxBatch
  /\ http \in {"idle", "sent", "ok", "failed"}
  /\ inFlight <=> http # "idle"
  /\ orphans \subseteq Seq(Passings)
  /\ held \subseteq Passings /\ warned \subseteq Passings /\ deleted \subseteq Passings
  /\ adds \in 0 .. MaxAdds /\ faults \in 0 .. MaxFaults

(* The passings the running worker was given and has neither queued, stored nor reported. *)
Missing == held \ (Elements(queue) \cup Stored \cup warned \cup deleted)

(* Reliable: as long as the queue never overflowed, a failed request, a lost answer or a passing
   added while a request is under way loses nothing. *)
ReliableUntilFull == warned = {} => Missing = {}

(* Reliable and bounded, as the uploader's header has it: what is not stored stays queued, and
   what is dropped is dropped with a warning. *)
NoSilentLoss == Missing = {}

(* The queue is emptied once passings stop coming and faults cease, also if the last timer fired
   while a request was under way. *)
QueueDrains == <>[](queue = <<>> /\ ~inFlight)
=============================================================================
