--------------------------- MODULE SessionCommands ---------------------------
(***************************************************************************)
(* The command queue of the LiveTracking session: the operator enqueues    *)
(* start, stop and reset in the session document, the worker (SessionLoop) *)
(* takes one command at a time, asks the passing store for its last seq    *)
(* and writes the outcome, with the measurement window, back.              *)
(*                                                                         *)
(* Between the start of a command and its outcome the worker awaits the    *)
(* store; its writes are computed from a copy of the document that may be  *)
(* behind, and are rejected if it is, or lost with their connection.  The  *)
(* protocol is that of RealtimeDoc, here for one document and one client.  *)
(***************************************************************************)
EXTENDS Naturals, Sequences

CONSTANTS
  None,       \* `null`
  MaxCommands, \* bound: commands enqueued
  MaxSeq,     \* bound: passings stored
  MaxFaults   \* bound: broken connections, failed fetches, worker restarts

VARIABLES
  session,   \* the stored document: state, commandQueue (id, intent, status), measurement
  rev,       \*   and its revision
  lastSeq,   \* the last seq of the passing store
  link,      \* the worker's connection: open, closing (given up, not yet reopened)
  up,        \* its writes on their way to the server
  down,      \* frames on their way to the worker
  local,     \* its copy: [rev, session], or None before the first snapshot
  tick,      \* the command timer is set
  inFlight,  \* the command being executed: [id, intent, answer], or None
  executed,  \* executedCommandIds
  faults

server == <<session, rev>>
net == <<link, up, down>>
loop == <<tick, inFlight, executed>>
vars == <<session, rev, lastSeq, link, up, down, local, tick, inFlight, executed, faults>>

(* Commands are numbered in the order the server takes them. *)
Commands == 1 .. MaxCommands

Intents == {"start", "stop", "reset"}
Statuses == {"queued", "running", "completed", "failed"}

Fault == faults < MaxFaults /\ faults' = faults + 1

-----------------------------------------------------------------------------
(* The domain rules (session.ts) *)

CanIssue(state, intent) ==
  \/ intent = "start" /\ state \in {"idle", "error"}
  \/ intent = "stop" /\ state = "running"
  \/ intent = "reset"

WithStatus(s, status) == {i \in 1 .. Len(s.queue) : s.queue[i].status = status}

First(S) == CHOOSE i \in S : \A j \in S : i <= j

NextQueued(s) == {i \in WithStatus(s, "queued") : \A j \in WithStatus(s, "queued") : i <= j}

(* Mutant of StartNext: a running command does not hold the next one back. *)
StartNextAnyway(s) ==
  IF NextQueued(s) = {} THEN s
  ELSE [s EXCEPT !.queue[First(NextQueued(s))].status = "running"]

(* getNextQueuedLiveTrackingCommand and startLiveTrackingCommand. *)
StartNext(s) ==
  IF WithStatus(s, "running") # {} \/ NextQueued(s) = {} THEN s
  ELSE [s EXCEPT !.queue[First(NextQueued(s))].status = "running"]

(* The open segment of a measurement, closed at seq n. *)
Closed(segments, n) ==
  [i \in 1 .. Len(segments) |-> IF segments[i].toSeq = None THEN [segments[i] EXCEPT !.toSeq = n] ELSE segments[i]]

Segments(s) == IF s.measurement = <<>> THEN <<>> ELSE s.measurement[1]

(* Mutant of Measured: a second start leaves the open segment open. *)
MeasuredStartOnly(s, intent, n) ==
  CASE intent = "start" -> <<Append(Segments(s), [fromSeq |-> n, toSeq |-> None])>>
    [] intent = "stop" -> <<Closed(Segments(s), n)>>
    [] intent = "reset" -> IF s.state = "running" THEN <<<<[fromSeq |-> n, toSeq |-> None]>>>> ELSE <<>>

(* applyLiveTrackingMeasurementCommand; a measurement is <<segments>>, or <<>> for null. *)
Measured(s, intent, n) ==
  CASE intent = "start" -> <<Append(Closed(Segments(s), n), [fromSeq |-> n, toSeq |-> None])>>
    [] intent = "stop" -> <<Closed(Segments(s), n)>>
    [] intent = "reset" -> IF s.state = "running" THEN <<<<[fromSeq |-> n, toSeq |-> None]>>>> ELSE <<>>

NextState(s, intent) ==
  CASE intent = "start" -> "running"
    [] intent = "stop" -> "idle"
    [] intent = "reset" -> IF s.state = "running" THEN "running" ELSE "idle"

(* complete- and failLiveTrackingCommand: only a running command ends, and with it the state changes
   (every transition these commands ask for is in the table). *)
End(s, id, status, state) ==
  LET at == {i \in WithStatus(s, "running") : s.queue[i].id = id}
  IN IF at = {} THEN s
     ELSE [s EXCEPT !.queue[First(at)].status = status, !.state = state]

(* The outcome of a command, on the session the worker has before it.  The measurement is changed
   whether or not the command is running there. *)
Completed(s, id, intent, n) ==
  End([s EXCEPT !.measurement = Measured(s, intent, n)], id, "completed", NextState(s, intent))

Failed(s, id) == End(s, id, "failed", "error")

-----------------------------------------------------------------------------
(* The server *)

Version(r, s) == [type |-> "version", rev |-> r, session |-> s]

Commit(s) ==
  /\ session' = s
  /\ rev' = rev + 1

Broadcast(s) == IF link = "open" THEN Append(down, Version(rev + 1, s)) ELSE down

(* An operator enqueues a command; a write on an outdated copy is rejected and changes nothing. *)
Enqueue(intent) ==
  /\ CanIssue(session.state, intent)
  /\ Len(session.queue) < MaxCommands
  /\ LET c == Len(session.queue) + 1
         s == [session EXCEPT !.queue = Append(@, [id |-> c, intent |-> intent, status |-> "queued"])]
     IN Commit(s) /\ down' = Broadcast(s)
  /\ UNCHANGED <<lastSeq, link, up, local, loop, faults>>

Passing ==
  /\ lastSeq < MaxSeq
  /\ lastSeq' = lastSeq + 1
  /\ UNCHANGED <<server, net, local, loop, faults>>

(* handleClientMessage for the worker's next write; nobody reads the rejection of a write whose
   socket is gone. *)
HandleWrite ==
  /\ up # <<>>
  /\ up' = Tail(up)
  /\ LET w == Head(up) IN
       IF w.base = rev
       THEN Commit(w.session) /\ down' = Broadcast(w.session)
       ELSE /\ UNCHANGED server
            /\ down' = IF w.stray THEN down ELSE down \o <<[type |-> "rev_mismatch"], Version(rev, session)>>
  /\ UNCHANGED <<lastSeq, link, local, loop, faults>>

-----------------------------------------------------------------------------
(* The connection of the worker *)

Stray(writes) == [i \in 1 .. Len(writes) |-> [writes[i] EXCEPT !.stray = TRUE]]

(* The first writes on their way still arrive, the rest is lost. *)
Break ==
  /\ Fault
  /\ link = "open"
  /\ link' = "closing"
  /\ \E k \in 0 .. Len(up) : up' = Stray(SubSeq(up, 1, k))
  /\ UNCHANGED <<server, lastSeq, down, local, loop>>

Reconnect ==
  /\ link = "closing"
  /\ link' = "open"
  /\ up' = Stray(up)
  /\ down' = <<Version(rev, session)>>
  /\ UNCHANGED <<server, lastSeq, local, loop, faults>>

(* A frame: a version is the copy from now on, and schedules a tick; a rejection closes the socket. *)
Deliver ==
  /\ down # <<>>
  /\ down' = Tail(down)
  /\ LET f == Head(down) IN
       \/ /\ f.type = "version"
          /\ local' = [rev |-> f.rev, session |-> f.session]
          /\ tick' = TRUE
          /\ UNCHANGED link
       \/ /\ f.type = "rev_mismatch"
          /\ link' = "closing"
          /\ UNCHANGED <<local, tick>>
  /\ UNCHANGED <<server, lastSeq, up, inFlight, executed, faults>>

(* RealtimeDocClient.update: no write without a connection or a difference. *)
Update(s) ==
  up' = IF link = "open" /\ s # local.session
        THEN Append(up, [base |-> local.rev, session |-> s, stray |-> FALSE])
        ELSE up

-----------------------------------------------------------------------------
(* The command loop *)

(* Mutant of Begin: what has been executed is not remembered. *)
BeginForgetful(cmd) ==
  /\ UNCHANGED executed
  /\ inFlight' = [id |-> cmd.id, intent |-> cmd.intent, answer |-> "asked", seq |-> 0]

Begin(cmd) ==
  /\ executed' = executed \cup {cmd.id}
  /\ inFlight' = [id |-> cmd.id, intent |-> cmd.intent, answer |-> "asked", seq |-> 0]

(* tickCommands. *)
Tick ==
  /\ tick
  /\ tick' = FALSE
  /\ IF inFlight # None \/ local = None
     THEN UNCHANGED <<up, inFlight, executed>>
     ELSE LET s == StartNext(local.session)
              active == WithStatus(s, "running")
          IN /\ Update(s)
             /\ IF active = {} \/ s.queue[First(active)].id \in executed
                THEN UNCHANGED <<inFlight, executed>>
                ELSE Begin(s.queue[First(active)])
  /\ UNCHANGED <<server, lastSeq, link, down, local, faults>>

(* fetchLastSeq: the server answers, or the request fails. *)
FetchAnswered ==
  /\ inFlight # None /\ inFlight.answer = "asked"
  /\ inFlight' = [inFlight EXCEPT !.answer = "ok", !.seq = lastSeq]
  /\ UNCHANGED <<server, lastSeq, net, local, tick, executed, faults>>

FetchFailed ==
  /\ Fault
  /\ inFlight # None /\ inFlight.answer = "asked"
  /\ inFlight' = [inFlight EXCEPT !.answer = "failed"]
  /\ UNCHANGED <<server, lastSeq, net, local, tick, executed>>

(* Mutant of CommandDone: without `finally` a failed command stays in flight. *)
CommandDoneIfOk ==
  /\ inFlight' = IF inFlight.answer = "ok" THEN None ELSE inFlight
  /\ tick' = TRUE

CommandDone ==
  /\ inFlight' = None
  /\ tick' = TRUE

(* executeCommand after its await, on the copy the worker has now. *)
Execute ==
  /\ inFlight # None /\ inFlight.answer # "asked"
  /\ Update(IF inFlight.answer = "ok"
            THEN Completed(local.session, inFlight.id, inFlight.intent, inFlight.seq)
            ELSE Failed(local.session, inFlight.id))
  /\ CommandDone
  /\ UNCHANGED <<server, lastSeq, link, down, local, executed, faults>>

(* The worker dies and a new one starts; writes already sent may still arrive. *)
WorkerRestart ==
  /\ Fault
  /\ \E k \in 0 .. Len(up) : up' = Stray(SubSeq(up, 1, k))
  /\ link' = "closing" /\ down' = <<>> /\ local' = None
  /\ tick' = FALSE /\ inFlight' = None /\ executed' = {}
  /\ UNCHANGED <<server, lastSeq>>

-----------------------------------------------------------------------------
Init ==
  /\ session = [state |-> "idle", queue |-> <<>>, measurement |-> <<>>] /\ rev = 0
  /\ lastSeq = 0
  /\ link = "closing" /\ up = <<>> /\ down = <<>> /\ local = None
  /\ tick = FALSE /\ inFlight = None /\ executed = {}
  /\ faults = 0

Next ==
  \/ \E intent \in Intents : Enqueue(intent)
  \/ Passing \/ HandleWrite
  \/ Break \/ Reconnect \/ Deliver
  \/ Tick \/ FetchAnswered \/ FetchFailed \/ Execute \/ WorkerRestart

(* Timers fire, the server handles what reaches it, the worker reconnects and reads its frames. *)
Fairness ==
  /\ WF_vars(HandleWrite) /\ WF_vars(Reconnect) /\ WF_vars(Deliver)
  /\ WF_vars(Tick) /\ WF_vars(FetchAnswered) /\ WF_vars(Execute)

Spec == Init /\ [][Next]_vars
FairSpec == Spec /\ Fairness

-----------------------------------------------------------------------------
Segment == [fromSeq : Nat, toSeq : Nat \cup {None}]

Session(s) ==
  /\ s.state \in {"idle", "running", "error"}
  /\ s.queue \in Seq([id : Commands, intent : Intents, status : Statuses])
  /\ Len(s.measurement) <= 1 /\ Segments(s) \in Seq(Segment)

(* Type invariant. *)
TypeOK ==
  /\ Session(session) /\ rev \in Nat /\ lastSeq \in 0 .. MaxSeq
  /\ link \in {"open", "closing"}
  /\ \A i \in 1 .. Len(up) : up[i].base \in 0 .. rev /\ Session(up[i].session) /\ up[i].stray \in BOOLEAN
  /\ \A i \in 1 .. Len(down) : down[i].type = "version" => down[i].rev \in 0 .. rev /\ Session(down[i].session)
  /\ local # None => local.rev \in 0 .. rev /\ Session(local.session)
  /\ tick \in BOOLEAN
  /\ inFlight # None => inFlight.id \in executed /\ inFlight.answer \in {"asked", "ok", "failed"}
  /\ executed \subseteq Commands
  /\ faults \in 0 .. MaxFaults

(* One running command at most, and in queue order: no command starts or ends before the one in
   front of it has ended, whatever the worker's copy was when it wrote. *)
OneAtATime ==
  \A i, j \in 1 .. Len(session.queue) :
    (i < j /\ session.queue[j].status # "queued") => session.queue[i].status \in {"completed", "failed"}

(* The segments of the measurement are windows on the passing store in time order: none begins
   before the one before it has ended, so a passing counts once at most, and only the last is open. *)
WindowsOrdered ==
  LET segments == Segments(session) IN
  \A i \in 1 .. Len(segments) :
    /\ segments[i].fromSeq <= lastSeq
    /\ segments[i].toSeq # None => segments[i].fromSeq <= segments[i].toSeq /\ segments[i].toSeq <= lastSeq
    /\ i < Len(segments) =>
         segments[i].toSeq # None /\ segments[i].toSeq <= segments[i + 1].fromSeq

(* The queue is served: a queued command does not wait for nothing; it is started, or the command
   that is running keeps it waiting. *)
QueueServed ==
  \A c \in Commands :
    (\E i \in WithStatus(session, "queued") : session.queue[i].id = c)
      ~> \/ WithStatus(session, "running") # {}
         \/ \A i \in WithStatus(session, "queued") : session.queue[i].id # c

(* The session state says whether passings count: running with an open segment, idle without. *)
StateFitsMeasurement ==
  LET open == \E i \in 1 .. Len(Segments(session)) : Segments(session)[i].toSeq = None
  IN /\ session.state = "running" => open
     /\ session.state = "idle" => ~open
=============================================================================
