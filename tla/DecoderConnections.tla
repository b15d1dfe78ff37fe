-------------------------- MODULE DecoderConnections --------------------------
(***************************************************************************)
(* The decoder connections of the timing worker: TimingConnectionManager   *)
(* reconciles them with the decoders the operator wants; the AMMC adapter  *)
(* keeps a converter process and a WebSocket to it per decoder, restarts   *)
(* what exits and connects a second after a start; the P3 adapter keeps a  *)
(* TCP connection that reconnects by itself.                               *)
(*                                                                         *)
(* Left out: addresses and ports, the passings and the resume point (see   *)
(* P3CatchUp), "running" reports, which only run a further sync. Time: a   *)
(* sync asked for with setTimeout(0) precedes the end of the restart delay *)
(* (2 s), which precedes the sync 2.5 s after an exit; a socket that is    *)
(* being closed is closed before the next connection is up (at least 1 s   *)
(* for a converter, a later turn of the event loop for P3).                *)
(***************************************************************************)
EXTENDS FiniteSets, Naturals

CONSTANTS
  Decoders,
  MaxWishes,  \* bound: changes of timingConnection or the register
  MaxUpsets   \* bound: exits, error lines, refused or broken connections

VARIABLES
  wish,          \* wish[d]: "none", or the backend of a desired decoder
  shown,         \* shown[d]: status.connection
  converter,     \* decoders with a converter process that runs
  backoff,       \* decoders whose converter exited within restartDelayMs
  connectTimers, \* pendingConnectTimers
  ammSocket,     \* ammSocket[d]: "none", "opening" or "open" (ammConnections)
  p3Link,        \* p3Link[d]: "none", "opening", "open" or "waiting" for the reconnect
  late,          \* closed sockets whose "close" event has not run: <<decoder, backend>>
  syncSoon,      \* a _triggerSync is pending
  syncLater,     \* decoders whose 2.5 s sync is pending
  installed,     \* the converter binary exists
  wishes, upsets

adapterVars == <<converter, backoff, connectTimers, ammSocket, syncSoon, syncLater>>
connVars == <<wish, shown, adapterVars, p3Link, late, installed, wishes, upsets>>

Wanted(w, backend) == {d \in Decoders : w[d] = backend}
Registered == {d \in Decoders : ammSocket[d] # "none"}
Upset == upsets < MaxUpsets /\ upsets' = upsets + 1

(* handleHealth ignores decoders that are not desired. *)
Report(before, w, D, state) ==
  [d \in Decoders |-> IF d \in D /\ w[d] # "none" THEN state ELSE before[d]]

-----------------------------------------------------------------------------
(* The AMMC adapter: _sync with AmmcProcessManager.sync. *)

Startable(points) == points \ (converter \cup backoff)

Started(points) == IF installed THEN Startable(points) ELSE {}

Missing(points) == IF installed THEN {} ELSE Startable(points)

Running(points) == (converter \cap points) \cup Started(points)

DroppedUnwanted(points) == Registered \ points \* mutant: a socket outlives its converter

Dropped(points) == Registered \ Running(points)

(* Extra processes stop and missing ones start, timers and sockets without a process go, and what
   runs without a socket is connected in a second. Without points the adapter stops: nothing of it
   stays, its timers find it stopped. *)
AmmcSync(w, before, closing, pending) ==
  LET points == Wanted(w, "ammc")
      stopped == converter \ points
      processes == Report(Report(Report(before, w, stopped, "disconnected"),
                                 w, Started(points), "connecting"), w, Missing(points), "error")
  IN /\ converter' = Running(points)
     /\ ammSocket' = [d \in Decoders |-> IF d \in Dropped(points) THEN "none" ELSE ammSocket[d]]
     /\ connectTimers' = {d \in Running(points) : ammSocket[d] = "none"}
     /\ backoff' = IF points = {} THEN {} ELSE backoff
     /\ shown' = Report(processes, w, Dropped(points), "disconnected")
     /\ late' = late \cup closing \cup (Dropped(points) \X {"ammc"})
     /\ syncSoon' = (points # {} /\ (pending \/ stopped \cup Startable(points) # {}))
     /\ syncLater' = IF points = {} THEN {} ELSE syncLater \cup stopped \cup Missing(points)

SyncSoon ==
  /\ syncSoon
  /\ AmmcSync(wish, shown, {}, FALSE)
  /\ UNCHANGED <<wish, p3Link, installed, wishes, upsets>>

SyncLater(d) ==
  /\ d \in syncLater \ backoff
  /\ syncLater' = syncLater \ {d}
  /\ syncSoon' = TRUE
  /\ UNCHANGED <<wish, shown, converter, backoff, connectTimers, ammSocket, p3Link, late, installed,
                 wishes, upsets>>

BackoffEnd(d) ==
  /\ d \in backoff /\ ~syncSoon
  /\ backoff' = backoff \ {d}
  /\ UNCHANGED <<wish, shown, converter, connectTimers, ammSocket, syncSoon, syncLater, p3Link, late,
                 installed, wishes, upsets>>

(* Mutant: no sync after the restart delay. *)
ProcessReportNow(d, state) ==
  /\ shown' = Report(shown, wish, {d}, state)
  /\ syncSoon' = TRUE
  /\ UNCHANGED syncLater

(* The process manager reports an exit or an error of d; both ask for a sync now and one later. *)
ProcessReport(d, state) ==
  /\ shown' = Report(shown, wish, {d}, state)
  /\ syncSoon' = TRUE
  /\ syncLater' = syncLater \cup {d}

(* The converter exits, with or without an error, or its spawn failed. *)
ConverterExit(d) ==
  /\ d \in converter
  /\ Upset
  /\ converter' = converter \ {d}
  /\ backoff' = backoff \cup {d}
  /\ \E state \in {"error", "disconnected"} : ProcessReport(d, state)
  /\ UNCHANGED <<wish, connectTimers, ammSocket, p3Link, late, installed, wishes>>

(* A line on stderr that looks like an error. *)
ErrorLine(d) ==
  /\ d \in converter
  /\ Upset
  /\ ProcessReport(d, "error")
  /\ UNCHANGED <<wish, converter, backoff, connectTimers, ammSocket, p3Link, late, installed, wishes>>

-----------------------------------------------------------------------------
(* Sockets. *)

Settled(d) == \A backend \in {"ammc", "p3"} : <<d, backend>> \notin late

ConnectTimer(d) ==
  /\ d \in connectTimers /\ Settled(d)
  /\ connectTimers' = connectTimers \ {d}
  /\ IF d \in converter /\ ammSocket[d] = "none"
     THEN /\ ammSocket' = [ammSocket EXCEPT ![d] = "opening"]
          /\ shown' = Report(shown, wish, {d}, "connecting")
     ELSE UNCHANGED <<ammSocket, shown>>
  /\ UNCHANGED <<wish, converter, backoff, syncSoon, syncLater, p3Link, late, installed, wishes, upsets>>

SocketOpen(d) ==
  /\ ammSocket[d] = "opening" /\ d \in converter
  /\ ammSocket' = [ammSocket EXCEPT ![d] = "open"]
  /\ shown' = Report(shown, wish, {d}, "connected")
  /\ UNCHANGED <<wish, converter, backoff, connectTimers, syncSoon, syncLater, p3Link, late, installed,
                 wishes, upsets>>

(* "close" (after "error" when it was refused): the converter is gone, or refuses or closes. *)
SocketClose(d) ==
  /\ ammSocket[d] # "none"
  /\ \/ d \notin converter /\ UNCHANGED upsets
     \/ Upset
  /\ ammSocket' = [ammSocket EXCEPT ![d] = "none"]
  /\ shown' = Report(shown, wish, {d}, "disconnected")
  /\ syncLater' = syncLater \cup {d}
  /\ UNCHANGED <<wish, converter, backoff, connectTimers, syncSoon, p3Link, late, installed, wishes>>

(* The "close" event of a socket that was closed: the handlers know the decoder only. *)
LateClose(d, backend) ==
  /\ <<d, backend>> \in late
  /\ late' = late \ {<<d, backend>>}
  /\ shown' = Report(shown, wish, {d}, "disconnected")
  /\ IF backend = "ammc" /\ Wanted(wish, "ammc") # {}
     THEN /\ ammSocket' = [ammSocket EXCEPT ![d] = "none"]
          /\ syncLater' = syncLater \cup {d}
     ELSE UNCHANGED <<ammSocket, syncLater>>
  /\ UNCHANGED <<wish, converter, backoff, connectTimers, syncSoon, p3Link, installed, wishes, upsets>>

(* The decoder has answered: _identified. *)
P3Identified(d) ==
  /\ p3Link[d] = "opening" /\ Settled(d)
  /\ p3Link' = [p3Link EXCEPT ![d] = "open"]
  /\ shown' = Report(shown, wish, {d}, "connected")
  /\ UNCHANGED <<wish, adapterVars, late, installed, wishes, upsets>>

P3Lost(d) ==
  /\ p3Link[d] \in {"opening", "open"}
  /\ Upset
  /\ p3Link' = [p3Link EXCEPT ![d] = "waiting"]
  /\ shown' = Report(shown, wish, {d}, "disconnected")
  /\ UNCHANGED <<wish, adapterVars, late, installed, wishes>>

P3Reconnect(d) ==
  /\ p3Link[d] = "waiting"
  /\ p3Link' = [p3Link EXCEPT ![d] = "opening"]
  /\ UNCHANGED <<wish, shown, adapterVars, late, installed, wishes, upsets>>

-----------------------------------------------------------------------------
(* TimingConnectionManager.sync, first the statuses, then the P3 adapter, then the AMMC adapter. *)

Statuses(next) ==
  [d \in Decoders |-> CASE wish[d] = "none" /\ next[d] # "none" -> "connecting"
                        [] wish[d] # "none" /\ next[d] = "none" -> "disconnected"
                        [] OTHER -> shown[d]]

P3Sync(next) ==
  p3Link' = [d \in Decoders |-> CASE next[d] # "p3" -> "none"
                                  [] next[d] = "p3" /\ wish[d] # "p3" -> "opening"
                                  [] OTHER -> p3Link[d]]

Sync(next) ==
  LET opened == Wanted(next, "p3") \ Wanted(wish, "p3")
      ended == {d \in Wanted(wish, "p3") \ Wanted(next, "p3") : p3Link[d] \in {"opening", "open"}}
  IN /\ wishes < MaxWishes /\ wishes' = wishes + 1
     /\ wish' = next
     /\ P3Sync(next)
     /\ AmmcSync(next, Report(Report(Statuses(next), next, ended, "disconnected"),
                              next, opened, "connecting"), ended \X {"p3"}, syncSoon)
     /\ UNCHANGED <<installed, upsets>>

Init ==
  /\ wish = [d \in Decoders |-> "none"]
  /\ shown = [d \in Decoders |-> "disconnected"]
  /\ converter = {} /\ backoff = {} /\ connectTimers = {}
  /\ ammSocket = [d \in Decoders |-> "none"]
  /\ p3Link = [d \in Decoders |-> "none"]
  /\ late = {} /\ syncSoon = FALSE /\ syncLater = {}
  /\ installed \in BOOLEAN
  /\ wishes = 0 /\ upsets = 0

Next ==
  \/ \E next \in [Decoders -> {"none", "ammc", "p3"}] : Sync(next)
  \/ SyncSoon
  \/ \E d \in Decoders :
       \/ SyncLater(d) \/ BackoffEnd(d) \/ ConverterExit(d) \/ ErrorLine(d)
       \/ ConnectTimer(d) \/ SocketOpen(d) \/ SocketClose(d)
       \/ P3Identified(d) \/ P3Lost(d) \/ P3Reconnect(d)
       \/ \E backend \in {"ammc", "p3"} : LateClose(d, backend)

Spec == Init /\ [][Next]_connVars

-----------------------------------------------------------------------------
(* The variables have their types. *)
TypeOK ==
  /\ wish \in [Decoders -> {"none", "ammc", "p3"}]
  /\ shown \in [Decoders -> {"disconnected", "connecting", "connected", "error"}]
  /\ converter \subseteq Decoders /\ backoff \subseteq Decoders /\ connectTimers \subseteq Decoders
  /\ ammSocket \in [Decoders -> {"none", "opening", "open"}]
  /\ p3Link \in [Decoders -> {"none", "opening", "open", "waiting"}]
  /\ late \subseteq Decoders \X {"ammc", "p3"}
  /\ syncSoon \in BOOLEAN /\ syncLater \subseteq Decoders /\ installed \in BOOLEAN
  /\ wishes \in 0 .. MaxWishes /\ upsets \in 0 .. MaxUpsets

(* The status document tells the truth about the connections, whatever order reports, timers and
   changes of the wish come in: "connected" is shown only with an open connection of the wanted
   backend, an open connection to a living converter or decoder is shown as connected (or as
   "error" after an error line), and nothing runs or is scheduled for a decoder nobody wants. *)
StatusTruthful ==
  \A d \in Decoders :
    /\ shown[d] = "connected" => (wish[d] = "ammc" /\ ammSocket[d] = "open")
                                   \/ (wish[d] = "p3" /\ p3Link[d] = "open")
    /\ (ammSocket[d] = "open" /\ d \in converter) \/ p3Link[d] = "open"
         => shown[d] \in {"connected", "error"}
    /\ wish[d] # "ammc" => ammSocket[d] = "none" /\ d \notin converter \cup connectTimers
    /\ wish[d] = "none" => shown[d] = "disconnected"

(* A decoder that stays wanted ends up with an open connection that stays, after any exits,
   refusals and changes of the other decoders, without a further change by the operator. *)
WantedConnects ==
  \A d \in Decoders :
    /\ <>[](installed /\ wish[d] = "ammc") => <>[](ammSocket[d] = "open" /\ d \in converter)
    /\ <>[](wish[d] = "p3") => <>[](p3Link[d] = "open")
=============================================================================
