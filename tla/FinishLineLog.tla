---------------------------- MODULE FinishLineLog ----------------------------
(***************************************************************************)
(* The finish line log: PassingLog, which follows the $J, $G and $COR      *)
(* lines of the current race, the socket /ws/race/current/passings, which  *)
(* batches its events, and usePassings, which shows them in crossing order.*)
(*                                                                         *)
(* The snapshots of the race stream that tell the socket of another race   *)
(* are LeaderboardPublisher's; here they are one action that comes some    *)
(* time after the change. A lap number is left out: a rider's entry is     *)
(* waiting for its $G, or has a position.                                  *)
(***************************************************************************)
EXTENDS Integers, FiniteSets, FiniteSetsExt, SequencesExt

CONSTANTS
  LogRaces,     \* race ids
  NoRace,       \* no race is displayed
  Riders,
  Times, Positions,
  PerRace,      \* perRace, and MAX_PASSINGS of the viewer
  MaxLogRaces,  \* maxRaces
  Burst,        \* PASSINGS_BURST
  MaxLogLines   \* bound: lines

VARIABLES
  logs,        \* races.get(r): <<r, entries in arrival order>>, oldest race first
  lastSeq,     \* seq
  shownRace,   \* displayRace.id
  announced,   \* the race the stream has sent a snapshot of
  wentBack,    \* history: the displayed race changed and came back before the stream noticed
  sockRace,    \* the socket: raceId
  queue, needSnapshot, batchTimer,
  logWire,     \* messages on their way to the viewer
  logView,     \* the viewer: [race, entries]
  logLines

sockVars == <<sockRace, queue, needSnapshot, batchTimer>>
logVars == <<logs, lastSeq, shownRace, announced, wentBack, sockVars, logWire, logView, logLines>>

Line == logLines < MaxLogLines /\ logLines' = logLines + 1

Position(r) == SelectInSeq(logs, LAMBDA l : l.race = r)
Entries(r) == IF Position(r) = 0 THEN <<>> ELSE logs[Position(r)].entries

ByCrossing(a, b) == a.crossing < b.crossing \/ (a.crossing = b.crossing /\ a.seq < b.seq)

(* Entries in crossing order, the one with k - 1 before it in place k. *)
Sorted(entries) ==
  [k \in 1 .. Cardinality(entries) |->
     CHOOSE e \in entries : Cardinality({f \in entries : ByCrossing(f, e)}) = k - 1]

(* list(): crossing order. *)
List(r) == Sorted(ToSet(Entries(r)))

Newest(s, n) == IF Len(s) > n THEN SubSeq(s, Len(s) - n + 1, Len(s)) ELSE s

(* The latest entry of a rider: an index, 0 if there is none. *)
Latest(r, rider) == SelectLastInSeq(Entries(r), LAMBDA e : e.rider = rider)

-----------------------------------------------------------------------------
(* The socket's listener: an event about the race it sends is queued, another one asks for all. *)
OnPassing(race, entry) ==
  /\ batchTimer' = TRUE
  /\ IF race = sockRace THEN queue' = Append(queue, entry) /\ UNCHANGED needSnapshot
                        ELSE needSnapshot' = TRUE /\ UNCHANGED queue
  /\ UNCHANGED sockRace

Set(r, i, entry) ==
  /\ logs' = [logs EXCEPT ![Position(r)].entries[i] = entry]
  /\ OnPassing(r, entry)

(* append(), with its two limits. *)
Appended(r, entry) ==
  LET all == IF Position(r) = 0 THEN Append(logs, [race |-> r, entries |-> <<entry>>])
             ELSE [logs EXCEPT ![Position(r)].entries = Newest(Append(@, entry), PerRace)]
  IN Newest(all, MaxLogRaces)

(* $J *)
PassingInfo(rider, t) ==
  LET entry == [seq |-> lastSeq + 1, rider |-> rider, crossing |-> t, position |-> 0]
  IN /\ Line /\ shownRace # NoRace
     /\ lastSeq' = lastSeq + 1
     /\ logs' = Appended(shownRace, entry)
     /\ OnPassing(shownRace, entry)
     /\ UNCHANGED <<shownRace, announced, wentBack, logWire, logView>>

(* $G: of the passing just before, or a new rank in the same lap and time. *)
RaceInfoLine(rider, t, position) ==
  LET i == Latest(shownRace, rider)
      entry == Entries(shownRace)[i]
  IN /\ Line /\ shownRace # NoRace /\ i # 0
     /\ \/ entry.position = 0
        \/ entry.crossing = t /\ entry.position # position
     /\ Set(shownRace, i, [entry EXCEPT !.position = position])
     /\ UNCHANGED <<lastSeq, shownRace, announced, wentBack, logWire, logView>>

(* $COR of a lap that has its position. *)
CorrectionLine(rider, t) ==
  LET i == SelectLastInSeq(Entries(shownRace), LAMBDA e : e.rider = rider /\ e.position # 0)
  IN /\ Line /\ shownRace # NoRace /\ i # 0
     /\ Set(shownRace, i, [Entries(shownRace)[i] EXCEPT !.crossing = t])
     /\ UNCHANGED <<lastSeq, shownRace, announced, wentBack, logWire, logView>>

ShowRace(r) ==
  /\ Line /\ r # shownRace
  /\ shownRace' = r
  /\ wentBack' = (wentBack \/ r = announced)
  /\ UNCHANGED <<logs, lastSeq, announced, sockVars, logWire, logView>>

(* resetState(): clear() tells the sockets, then the race stream sends a snapshot. *)
ClearLog ==
  /\ Line
  /\ logs' = <<>>
  /\ shownRace' = NoRace /\ announced' = NoRace
  /\ needSnapshot' = TRUE /\ batchTimer' = TRUE
  /\ UNCHANGED <<lastSeq, wentBack, sockRace, queue, logWire, logView>>

(* Mutant of AnnounceRace: the socket leaves a race without passings to the next passing. *)
AnnounceNothing ==
  /\ announced # shownRace
  /\ announced' = shownRace
  /\ UNCHANGED <<logs, lastSeq, shownRace, wentBack, sockVars, logWire, logView, logLines>>

(* The race stream's snapshot of another race. *)
AnnounceRace ==
  /\ announced # shownRace
  /\ announced' = shownRace
  /\ IF shownRace # sockRace THEN needSnapshot' = TRUE /\ batchTimer' = TRUE
                             ELSE UNCHANGED <<needSnapshot, batchTimer>>
  /\ UNCHANGED <<logs, lastSeq, shownRace, wentBack, sockRace, queue, logWire, logView, logLines>>

All == [type |-> "passings", race |-> shownRace, entries |-> List(shownRace)]

(* flush() *)
FlushBatch ==
  /\ batchTimer
  /\ batchTimer' = FALSE /\ needSnapshot' = FALSE /\ queue' = <<>>
  /\ IF needSnapshot \/ shownRace # sockRace \/ Len(queue) > Burst
       THEN sockRace' = shownRace /\ logWire' = Append(logWire, All) /\ wentBack' = FALSE
       ELSE /\ UNCHANGED <<sockRace, wentBack>>
            /\ logWire' = logWire \o [i \in 1 .. Len(queue) |->
                 [type |-> "passing", race |-> sockRace, entries |-> <<queue[i]>>]]
  /\ UNCHANGED <<logs, lastSeq, shownRace, announced, logView, logLines>>

(* The viewer: an update carries the seq it is about. *)
Placed(entries, e) ==
  LET i == SelectInSeq(entries, LAMBDA f : f.seq = e.seq)
  IN IF i # 0 THEN Sorted(ToSet([entries EXCEPT ![i] = e]))
     ELSE Newest(Sorted(ToSet(entries) \cup {e}), PerRace)

Shown(w, m) ==
  IF m.type = "passings" THEN [race |-> m.race, entries |-> m.entries]
  ELSE IF w.race # m.race THEN w
  ELSE [w EXCEPT !.entries = Placed(@, m.entries[1])]

ShowMessage ==
  /\ logWire # <<>>
  /\ logView' = Shown(logView, Head(logWire))
  /\ logWire' = Tail(logWire)
  /\ UNCHANGED <<logs, lastSeq, shownRace, announced, wentBack, sockVars, logLines>>

(* The connection is lost and opened again: a new socket starts with all passings. *)
ReopenLog ==
  /\ Line
  /\ sockRace' = shownRace /\ queue' = <<>> /\ needSnapshot' = FALSE /\ batchTimer' = FALSE
  /\ wentBack' = FALSE
  /\ logWire' = <<All>>
  /\ UNCHANGED <<logs, lastSeq, shownRace, announced, logView>>

-----------------------------------------------------------------------------
Init ==
  /\ logs = <<>> /\ lastSeq = 0 /\ shownRace = NoRace /\ announced = NoRace /\ wentBack = FALSE
  /\ sockRace = NoRace /\ queue = <<>> /\ needSnapshot = FALSE /\ batchTimer = FALSE
  /\ logWire = <<>> /\ logView = [race |-> NoRace, entries |-> <<>>]
  /\ logLines = 0

Next ==
  \/ \E rider \in Riders, t \in Times :
       \/ PassingInfo(rider, t) \/ CorrectionLine(rider, t)
       \/ \E p \in Positions : RaceInfoLine(rider, t, p)
  \/ \E r \in LogRaces : ShowRace(r)
  \/ ClearLog \/ AnnounceRace \/ FlushBatch \/ ShowMessage \/ ReopenLog

Spec == Init /\ [][Next]_logVars

-----------------------------------------------------------------------------
(* Type invariant. *)
TypeOK ==
  /\ Len(logs) <= MaxLogRaces
  /\ \A i \in DOMAIN logs : logs[i].race \in LogRaces /\ Len(logs[i].entries) <= PerRace
  /\ {shownRace, announced, sockRace, logView.race} \subseteq LogRaces \cup {NoRace}
  /\ needSnapshot \in BOOLEAN /\ batchTimer \in BOOLEAN
  /\ lastSeq \in Nat /\ logLines \in 0 .. MaxLogLines

(* What the viewer will show after each message that is on its way. *)
Views[k \in 0 .. Len(logWire)] == IF k = 0 THEN logView ELSE Shown(Views[k - 1], logWire[k])

(* Whatever is queued or on its way, in batches, snapshots, corrections and re-rankings, adds up to
   the passings of the displayed race in crossing order, once the race stream has announced the
   race. Two exceptions: over the limit service and viewer drop different entries, and a race that
   is left and displayed again before the stream notices may leave the socket at the other one. *)
LogComplete ==
  ~batchTimer /\ announced = shownRace /\ ~wentBack /\ lastSeq <= PerRace
    => Views[Len(logWire)] = [race |-> shownRace, entries |-> List(shownRace)]
=============================================================================
