------------------------------ MODULE P3CatchUp ------------------------------
(***************************************************************************)
(* Completeness of the passings of one P3 decoder: the decoder numbers its *)
(* passings, PassingSequenceTracker notices missing numbers, the P3        *)
(* adapter requests them again (RESEND) and asks for the last number after *)
(* every connect (SESSION), and the passing store tells a new worker where *)
(* to resume.                                                              *)
(*                                                                         *)
(* The connection breaks, records get lost, worker and decoder restart,    *)
(* and the resume point races the first records of the decoder.            *)
(***************************************************************************)
EXTENDS Naturals, Sequences, FiniteSets

CONSTANTS
  MaxAttempts,  \* options.maxAttempts
  MaxGap,       \* options.maxGap
  MaxCatchUp,   \* options.maxCatchUp
  None,         \* `null`
  MaxPassings,  \* bound: passings the decoder numbers
  MaxFaults     \* bound: breaks, lost records, restarts of worker and decoder

VARIABLES
  last,          \* the decoder's last passing index; its memory holds 1 .. last
  link,          \* the connection of worker and decoder is up
  wire,          \* records on their way to the worker
  requests,      \* requests on their way to the decoder
  highest,       \* the tracker
  pending,       \*   requested numbers, with the attempts made
  given,         \*   numbers given up
  hardwareId,    \* the adapter: the decoder has identified itself on this connection
  resumeKnown,
  sessionAsked,
  sessionTimer,
  resume,        \* the fetch of the resume point: asked, answered (or failed) with max, done
  queue,         \* numbers of passings the worker holds for upload
  stored,        \* numbers of passings in the store
  base,          \* ghost: where the tracker's present count started
  seen,          \* ghost: numbers that arrived since then
  since,         \* ghost: the highest stored number when the worker started; None after a reset
  skipped,       \* ghost: numbers left out for MaxGap or MaxCatchUp
  passings, faults

decoder == <<last, passings>>
tracker == <<highest, pending, given, base, seen, skipped>>
adapter == <<hardwareId, resumeKnown, sessionAsked, sessionTimer>>
store == <<queue, stored>>
vars == <<last, link, wire, requests, highest, pending, given, hardwareId, resumeKnown, sessionAsked,
          sessionTimer, resume, queue, stored, base, seen, since, skipped, passings, faults>>

Numbers == 1 .. MaxPassings

Record ==
  [kind : {"passing"}, number : Numbers] \cup [kind : {"session"}, last : Nat]
    \cup [kind : {"version", "status"}]

Passing(n) == [kind |-> "passing", number |-> n]

(* A SESSION request, or a RESEND for a set of numbers (its ranges). *)
SessionRequest == [kind |-> "session"]
Resend(S) == [kind |-> "resend", numbers |-> S]

Open == DOMAIN pending

ResumeAsked == [state |-> "asked", max |-> None]

Highest(S) == IF S = {} THEN None ELSE CHOOSE n \in S : \A m \in S : m <= n

Without(f, S) == [n \in DOMAIN f \ S |-> f[n]]

Fault == faults < MaxFaults /\ faults' = faults + 1

-----------------------------------------------------------------------------
(* The tracker.  request(from, to): numbers already pending are not requested twice. *)
Request(open, S) ==
  pending' = [n \in S \cup DOMAIN open |-> IF n \in DOMAIN open THEN open[n] ELSE 1]

(* What _requestAgain puts on the wire: only an identified decoder can be asked. *)
Send(queued, identified, S) ==
  IF S # {} /\ identified THEN Append(queued, Resend(S)) ELSE queued

(* Mutant of Missing: the first missing number is taken for the highest one. *)
MissingShort(n) == IF highest = None THEN {} ELSE highest + 2 .. n

(* The numbers after the highest one, up to n. *)
Missing(n) == IF highest = None THEN {} ELSE highest + 1 .. n

ResumeFrom(m) ==
  IF m # None /\ (highest = None \/ m > highest)
  THEN highest' = m /\ base' = m
  ELSE UNCHANGED <<highest, base>>

(* A passing arrived: forget its request, note the numbers it leaves out.  `queued` are the requests
   sent before in the same handler. *)
OnPassing(n, queued) ==
  LET open == Without(pending, {n})
      gap == Missing(n - 1)
      ask == IF Cardinality(gap) > MaxGap THEN {} ELSE gap
  IN /\ given' = IF n \in Open THEN given ELSE given \ {n}
     /\ IF highest = None \/ n > highest THEN highest' = n ELSE UNCHANGED highest
     /\ base' = IF highest = None THEN n ELSE base
     /\ seen' = seen \cup {n}
     /\ Request(open, ask)
     /\ skipped' = skipped \cup (gap \ ask)
     /\ requests' = Send(queued, TRUE, ask \ DOMAIN open)

(* The decoder reported its last passing index.  An index below the highest number means that its
   memory was reset: the count starts anew. *)
OnSession(l) ==
  LET ask == {n \in Missing(l) : n + MaxCatchUp > l}
      reset == highest # None /\ l < highest
  IN /\ highest' = l
     /\ base' = IF highest = None \/ reset THEN l ELSE base
     /\ seen' = IF reset THEN {} ELSE seen
     /\ skipped' = IF reset THEN {} ELSE skipped \cup (Missing(l) \ ask)
     /\ IF reset THEN pending' = [n \in {} |-> 0] ELSE Request(pending, ask)
     /\ requests' = Send(requests, hardwareId, ask \ Open)
     /\ UNCHANGED given

(* Mutant of Again: asked for once more than the limit. *)
AgainOneMore(S) == {n \in S : pending[n] <= MaxAttempts}

(* The numbers of S that may be requested once more. *)
Again(S) == {n \in S : pending[n] < MaxAttempts}

(* The resend timer: the numbers of S have waited for retryMs. *)
Due(S) ==
  /\ S # {} /\ S \subseteq Open
  /\ LET again == Again(S)
     IN /\ given' = given \cup (S \ again)
        /\ pending' = [n \in Open \ (S \ again) |-> IF n \in again THEN pending[n] + 1 ELSE pending[n]]
        /\ requests' = Send(requests, link /\ hardwareId, again)
  /\ UNCHANGED <<decoder, link, wire, highest, base, seen, skipped, adapter, resume, store, since, faults>>

-----------------------------------------------------------------------------
(* The adapter *)

(* _askSession, with the resume point known or not: the requests after it. *)
MayAsk(known, asked, identified) == known /\ ~asked /\ identified /\ link

(* Mutant of Identified: no timer for a resume point that does not come. *)
IdentifiedWithoutTimer ==
  /\ hardwareId' = TRUE
  /\ sessionTimer' = FALSE
  /\ sessionAsked' = MayAsk(resumeKnown, FALSE, TRUE)

(* _identified: SESSION is asked (again), at once or when the resume point is known. *)
Identified ==
  /\ hardwareId' = TRUE
  /\ sessionTimer' = ~resumeKnown
  /\ sessionAsked' = MayAsk(resumeKnown, FALSE, TRUE)

AfterIdentified ==
  IF MayAsk(resumeKnown, FALSE, TRUE) THEN Append(requests, SessionRequest) ELSE requests

TakePassing(r) ==
  /\ r.kind = "passing"
  /\ IF hardwareId
     THEN UNCHANGED <<hardwareId, sessionTimer, sessionAsked>> /\ OnPassing(r.number, requests)
     ELSE Identified /\ OnPassing(r.number, AfterIdentified)
  /\ queue' = queue \cup {r.number}

TakeSession(r) ==
  /\ r.kind = "session"
  /\ OnSession(r.last)
  /\ UNCHANGED <<hardwareId, sessionTimer, sessionAsked, queue>>

(* A VERSION record identifies the decoder in any case, a STATUS record an unknown one. *)
TakeVersionOrStatus(r) ==
  /\ r.kind \in {"version", "status"}
  /\ IF r.kind = "version" \/ ~hardwareId
     THEN Identified /\ requests' = AfterIdentified
     ELSE UNCHANGED <<hardwareId, sessionTimer, sessionAsked, requests>>
  /\ UNCHANGED <<tracker, queue>>

Deliver ==
  /\ wire # <<>>
  /\ wire' = Tail(wire)
  /\ LET r == Head(wire) IN TakePassing(r) \/ TakeSession(r) \/ TakeVersionOrStatus(r)
  /\ UNCHANGED <<decoder, link, resumeKnown, resume, stored, since, faults>>

(* The stats request of the connection manager: answered by the server, or failed; its answer
   reaches the adapter later. *)
FetchAnswered ==
  /\ resume.state = "asked"
  /\ resume' = [state |-> "answered", max |-> Highest(stored)]
  /\ UNCHANGED <<decoder, link, wire, requests, tracker, adapter, store, since, faults>>

FetchFailed ==
  /\ resume.state = "asked"
  /\ resume' = [state |-> "answered", max |-> None]
  /\ UNCHANGED <<decoder, link, wire, requests, tracker, adapter, store, since, faults>>

Resumed ==
  /\ resume.state = "answered"
  /\ ResumeFrom(resume.max)
  /\ resumeKnown' = TRUE
  /\ sessionAsked' = (sessionAsked \/ MayAsk(TRUE, sessionAsked, hardwareId))
  /\ requests' = IF MayAsk(TRUE, sessionAsked, hardwareId) THEN Append(requests, SessionRequest) ELSE requests
  /\ resume' = [resume EXCEPT !.state = "done"]
  /\ UNCHANGED <<decoder, link, wire, pending, given, seen, skipped, hardwareId, sessionTimer, store, since, faults>>

(* RESUME_WAIT_MS are over. *)
ResumeWaitOver ==
  /\ sessionTimer
  /\ sessionTimer' = FALSE
  /\ resumeKnown' = TRUE
  /\ sessionAsked' = (sessionAsked \/ MayAsk(TRUE, sessionAsked, hardwareId))
  /\ requests' = IF MayAsk(TRUE, sessionAsked, hardwareId) THEN Append(requests, SessionRequest) ELSE requests
  /\ UNCHANGED <<decoder, link, wire, tracker, hardwareId, resume, store, since, faults>>

(* The upload of what the worker holds (PassingUpload has its details). *)
Upload ==
  /\ queue # {}
  /\ stored' = stored \cup queue
  /\ queue' = {}
  /\ UNCHANGED <<decoder, link, wire, requests, tracker, adapter, resume, since, faults>>

-----------------------------------------------------------------------------
(* Connection, decoder and restarts *)

(* The socket opens; most decoders send a VERSION record. *)
Connect ==
  /\ ~link
  /\ link' = TRUE
  /\ wire' \in {<<>>, <<[kind |-> "version"]>>}
  /\ UNCHANGED <<decoder, requests, tracker, adapter, resume, store, since, faults>>

(* _onDisconnected; what was on its way is lost. *)
Disconnected ==
  /\ link' = FALSE
  /\ wire' = <<>> /\ requests' = <<>>

Break ==
  /\ Fault
  /\ link
  /\ Disconnected
  /\ hardwareId' = FALSE
  /\ UNCHANGED <<decoder, tracker, resumeKnown, sessionAsked, sessionTimer, resume, store, since>>

(* A record is lost, for example to a damaged frame. *)
RecordLost ==
  /\ Fault
  /\ wire # <<>>
  /\ wire' = Tail(wire)
  /\ UNCHANGED <<decoder, link, requests, tracker, adapter, resume, store, since>>

(* A transponder passes the decoder. *)
NewPassing ==
  /\ passings < MaxPassings
  /\ passings' = passings + 1
  /\ last' = last + 1
  /\ wire' = IF link THEN Append(wire, Passing(last + 1)) ELSE wire
  /\ UNCHANGED <<link, requests, tracker, adapter, resume, store, since, faults>>

(* The periodic STATUS record, modelled where it matters: the decoder is not identified yet. *)
Status ==
  /\ link /\ ~hardwareId /\ wire = <<>>
  /\ wire' = <<[kind |-> "status"]>>
  /\ UNCHANGED <<decoder, link, requests, tracker, adapter, resume, store, since, faults>>

(* The decoder answers the next request; of a RESEND it sends what it has. *)
Ascending(S) ==
  [i \in 1 .. Cardinality(S) |-> CHOOSE n \in S : Cardinality({m \in S : m <= n}) = i]

Answer ==
  /\ requests # <<>>
  /\ requests' = Tail(requests)
  /\ LET q == Head(requests) IN
       wire' = IF q.kind = "session"
               THEN Append(wire, [kind |-> "session", last |-> last])
               ELSE LET S == q.numbers \cap (1 .. last)
                    IN wire \o [i \in 1 .. Cardinality(S) |-> Passing(Ascending(S)[i])]
  /\ UNCHANGED <<decoder, link, tracker, adapter, resume, store, since, faults>>

(* The decoder restarts with an empty memory. *)
DecoderReset ==
  /\ Fault
  /\ last' = 0
  /\ Disconnected
  /\ hardwareId' = FALSE
  /\ since' = None
  /\ UNCHANGED <<passings, tracker, resumeKnown, sessionAsked, sessionTimer, resume, store>>

(* A new worker: nothing of the old one is left but the store. *)
WorkerStart ==
  /\ link' = FALSE /\ wire' = <<>> /\ requests' = <<>>
  /\ highest' = None /\ pending' = [n \in {} |-> 0] /\ given' = {} /\ base' = 0 /\ seen' = {} /\ skipped' = {}
  /\ hardwareId' = FALSE /\ resumeKnown' = FALSE /\ sessionAsked' = FALSE /\ sessionTimer' = FALSE
  /\ resume' = ResumeAsked
  /\ queue' = {}

WorkerRestart ==
  /\ Fault
  /\ WorkerStart
  /\ since' = Highest(stored)
  /\ UNCHANGED <<decoder, stored>>

-----------------------------------------------------------------------------
Init ==
  /\ last = 0 /\ passings = 0
  /\ link = FALSE /\ wire = <<>> /\ requests = <<>>
  /\ highest = None /\ pending = [n \in {} |-> 0] /\ given = {} /\ base = 0 /\ seen = {} /\ skipped = {}
  /\ hardwareId = FALSE /\ resumeKnown = FALSE /\ sessionAsked = FALSE /\ sessionTimer = FALSE
  /\ resume = ResumeAsked
  /\ queue = {} /\ stored = {}
  /\ since = None
  /\ faults = 0

Next ==
  \/ NewPassing \/ Status \/ Answer \/ DecoderReset
  \/ Connect \/ Break \/ RecordLost
  \/ Deliver \/ FetchAnswered \/ FetchFailed \/ Resumed \/ ResumeWaitOver
  \/ \E S \in SUBSET Open : Due(S)
  \/ Upload \/ WorkerRestart

(* Reconnect and timers run, the decoder answers and reports its status; the server need not answer
   the stats request. *)
Fairness ==
  /\ WF_vars(Connect) /\ WF_vars(Deliver) /\ WF_vars(Answer) /\ WF_vars(Status)
  /\ WF_vars(Resumed) /\ WF_vars(ResumeWaitOver)
  /\ WF_vars(Due(Open))

Spec == Init /\ [][Next]_vars
FairSpec == Spec /\ Fairness

-----------------------------------------------------------------------------
(* Type invariant. *)
TypeOK ==
  /\ last \in 0 .. MaxPassings /\ link \in BOOLEAN
  /\ wire \in Seq(Record)
  /\ \A i \in 1 .. Len(requests) :
       requests[i] = SessionRequest \/ requests[i] \in [kind : {"resend"}, numbers : SUBSET Numbers]
  /\ highest \in Nat \cup {None}
  /\ Open \subseteq Numbers /\ \A n \in Open : pending[n] \in 1 .. MaxAttempts
  /\ given \subseteq Numbers
  /\ hardwareId \in BOOLEAN /\ (hardwareId => link)
  /\ resumeKnown \in BOOLEAN /\ sessionAsked \in BOOLEAN /\ sessionTimer \in BOOLEAN
  /\ resume \in [state : {"asked", "answered", "done"}, max : Numbers \cup {None}]
  /\ queue \subseteq Numbers /\ stored \subseteq Numbers
  /\ base \in Nat /\ seen \subseteq Numbers /\ since \in Numbers \cup {None} /\ skipped \subseteq Numbers
  /\ passings \in 0 .. MaxPassings /\ faults \in 0 .. MaxFaults

(* Every number between the start of the tracker's count and the highest number it has seen was
   received, is requested, was given up (and is reported as open), or was left out for one of the
   two limits: breaks, lost records, double requests and late resends make none slip through. *)
Accounted ==
  highest # None => \A n \in base + 1 .. highest : n \in seen \cup Open \cup given \cup skipped

(* Every request for a missing number ends, because the passing arrives or the number is given up,
   and every connection gets its catch-up, also when the server does not tell the resume point. *)
CatchUpEnds ==
  /\ \A n \in Numbers : []<>(n \notin Open)
  /\ <>[](link /\ hardwareId /\ sessionAsked)

(* After a (re)connect everything from the highest stored number on is requested, as
   doc/timing-architecture.md, 5.4, has it: once the server has told the resume point, the catch-up
   is answered and no request is open, no number above the one the store ended with when the worker
   started is missing, given up and limits apart. *)
Settled ==
  /\ link /\ hardwareId /\ sessionAsked /\ resume.state = "done" /\ resume.max # None
  /\ wire = <<>> /\ requests = <<>> /\ Open = {}

OutageCaughtUp ==
  (Settled /\ since # None /\ highest # None)
    => \A n \in since + 1 .. highest : n \in queue \cup stored \cup given \cup skipped
=============================================================================
