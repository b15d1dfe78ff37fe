----------------------------- MODULE LiveStatus -----------------------------
(***************************************************************************)
(* RaceStatusProvider: the live race a scoring page shows.  The operator   *)
(* chooses where it comes from; the page polls that endpoint, or hears the *)
(* leaderboard service on a WebSocket and polls only while that is down.   *)
(* Three effects do this.  Each is cleaned up and run again when what it   *)
(* depends on changes, so answers of an earlier run may still be under way.*)
(*                                                                         *)
(* Left out: texts and times of what is shown, the length of the interval  *)
(* (only whether it is the long one), edited Java addresses and the choice *)
(* kept in the browser.  An integration that is off, or whose state cannot *)
(* be read, is "down": the page treats both alike.                         *)
(***************************************************************************)
EXTENDS Integers, FiniteSets, Sequences

CONSTANTS
  FirstSources, \* bound: the choices the browser may have kept
  BackoffAt,    \* failures in a row after which polls become rare; errorCount is capped here
  MaxPolls,     \* bound: polls under way when the interval starts another
  MaxHappenings \* bound: new races, choices of the operator, and what breaks, is lost or comes back

VARIABLES
  racing,       \* endpoint -> its present race, 0: none
  usable,       \* the integration of the server: "managed", "external" or "down"
  reachable,    \* which of the other endpoints answer
  state,        \* source, paused, errorCount and currentRace of the page
  leaderboard,  \* what the page knows of the integration
  statusLoads,  \* answers to its questions about it, under way
  wsDown,
  polls,        \* requests under way
  inFlightRef,  \* the one the page knows of, 0: none
  live,         \* the WebSocket effect: link, messages under way, data, rev and retryTimer
  happenings

liveVars == <<racing, usable, reachable, state, leaderboard, statusLoads, wsDown, polls, inFlightRef, live,
              happenings>>
worldVars == <<racing, usable, reachable>>

Sources == {"auto", "service", "java", "custom"}
Endpoints == {"service", "java", "custom"}
Integrations == {"managed", "external", "down"}

Unset == -2 \* data or rev is null
Torn == -1  \* a patch was applied to another version than it was made for

Nothing == [from |-> "none", race |-> 0]
activeRaceOf(e, race) == IF race = 0 THEN Nothing ELSE [from |-> e, race |-> race]

NoSocket == [link |-> "none", frames |-> <<>>, data |-> Unset, rev |-> Unset, retryTimer |-> FALSE]
NewSocket == [NoSocket EXCEPT !.link = "connecting"]

Happening == happenings < MaxHappenings /\ happenings' = happenings + 1

Answers(e) == IF e = "service" THEN usable # "down" ELSE e \in reachable

-----------------------------------------------------------------------------
(* What a render makes of the state s and the known integration l. *)

useService(s, l) == s.source = "service" \/ (s.source = "auto" /\ l # "down")

OnSocket(s, l) == useService(s, l) /\ l # "external"

pollUrl(s, l) ==
  CASE s.source = "custom" -> "custom"
    [] s.source # "custom" /\ useService(s, l) -> "service"
    [] OTHER -> "java"

watchLeaderboard(s) == s.source \in {"auto", "service"}

HearsSocket(s, l) == OnSocket(s, l) /\ ~s.paused

(* What the polling effect depends on. *)
Polling(s, l, down) ==
  [active |-> ~s.paused /\ (~OnSocket(s, l) \/ down),
   url |-> pollUrl(s, l),
   slow |-> s.errorCount >= BackoffAt]

FreeId(ps) == CHOOSE i \in 1 .. Cardinality(ps) + 1 :
                /\ i \notin {p.id : p \in ps}
                /\ \A j \in 1 .. i - 1 : j \in {p.id : p \in ps}
Poll(ps, url) == [id |-> FreeId(ps), url |-> url, mounted |-> TRUE, asked |-> racing[url]]

(* The clean-up aborts the poll the page knows of and disowns the others; the new run polls at
   once.  The aborted poll ends after that, and its `finally` clears inFlightRef for the new one. *)
RestartPolls(ps, known, polling) ==
  LET disowned == {[p EXCEPT !.mounted = FALSE] : p \in {p \in ps : p.id # known}}
      first == Poll(disowned, polling.url)
  IN IF polling.active
     THEN polls' = disowned \cup {first} /\ inFlightRef' = (IF known = 0 THEN first.id ELSE 0)
     ELSE polls' = disowned /\ inFlightRef' = 0

(* The render with the next state s, integration l and wsDown flag, and the effects it re-runs,
   when polls ps and socket w are left. *)
Rerender(s, l, down, ps, known, w) ==
  LET hears == HearsSocket(s, l)
      isDown == hears /\ down
      polling == Polling(s, l, isDown)
  IN /\ state' = s /\ leaderboard' = l /\ wsDown' = isDown
     /\ IF polling = Polling(state, leaderboard, wsDown)
        THEN polls' = ps /\ inFlightRef' = known
        ELSE RestartPolls(ps, known, polling)
     /\ live' = CASE hears = HearsSocket(state, leaderboard) -> w
                  [] hears /\ ~HearsSocket(state, leaderboard) -> NewSocket
                  [] OTHER -> NoSocket

applyRace(s, e, race) == [s EXCEPT !.errorCount = 0, !.currentRace = activeRaceOf(e, race)]
applyError(s) == [s EXCEPT !.errorCount = IF @ < BackoffAt THEN @ + 1 ELSE @]

-----------------------------------------------------------------------------
(* The operator. *)

Choose(s) ==
  Rerender(s, leaderboard, wsDown, polls, inFlightRef, live)

setSource(source) ==
  /\ Happening
  /\ source # state.source
  /\ LET s == [state EXCEPT !.source = source, !.currentRace = Nothing, !.errorCount = 0]
     IN /\ Choose(s)
        /\ statusLoads' = CASE ~watchLeaderboard(s) -> {}
                            [] watchLeaderboard(s) /\ ~watchLeaderboard(state) -> {usable}
                            [] OTHER -> statusLoads
  /\ UNCHANGED worldVars

setUrl ==
  /\ Happening
  /\ state.source # "custom"
  /\ Choose([state EXCEPT !.source = "custom"])
  /\ statusLoads' = {}
  /\ UNCHANGED worldVars

setPaused ==
  /\ Happening
  /\ Choose([state EXCEPT !.paused = ~@])
  /\ UNCHANGED <<worldVars, statusLoads>>

refreshLeaderboard ==
  /\ watchLeaderboard(state)
  /\ statusLoads' = {usable}
  /\ UNCHANGED <<worldVars, state, leaderboard, wsDown, polls, inFlightRef, live, happenings>>

-----------------------------------------------------------------------------
(* The integration, asked for at an interval whether or not an answer is still missing. *)

StatusTick ==
  /\ watchLeaderboard(state)
  /\ statusLoads' = statusLoads \cup {usable}
  /\ UNCHANGED <<worldVars, state, leaderboard, wsDown, polls, inFlightRef, live, happenings>>

StatusAnswer(l) ==
  /\ l \in statusLoads
  /\ statusLoads' = statusLoads \ {l}
  /\ Rerender(state, l, wsDown, polls, inFlightRef, live)
  /\ UNCHANGED <<worldVars, happenings>>

-----------------------------------------------------------------------------
(* Polls. *)

PollTick ==
  /\ Polling(state, leaderboard, wsDown).active
  /\ inFlightRef = 0
  /\ Cardinality(polls) < MaxPolls
  /\ LET next == Poll(polls, pollUrl(state, leaderboard))
     IN polls' = polls \cup {next} /\ inFlightRef' = next.id
  /\ UNCHANGED <<worldVars, state, leaderboard, statusLoads, wsDown, live, happenings>>

(* The answer: a race the endpoint has had since it was asked.  That to an earlier run is not heard,
   but clears inFlightRef. *)
PollAnswered(p) ==
  /\ Answers(p.url)
  /\ \E race \in p.asked .. racing[p.url] :
       Rerender(IF p.mounted THEN applyRace(state, p.url, race) ELSE state,
                leaderboard, wsDown, polls \ {p}, 0, live)
  /\ UNCHANGED <<worldVars, statusLoads, happenings>>

(* It fails or reaches its timeout. *)
PollFailed(p) ==
  /\ \/ ~Answers(p.url) /\ UNCHANGED happenings
     \/ Answers(p.url) /\ Happening
  /\ Rerender(IF p.mounted THEN applyError(state) ELSE state,
              leaderboard, wsDown, polls \ {p}, 0, live)
  /\ UNCHANGED <<worldVars, statusLoads>>

-----------------------------------------------------------------------------
(* The WebSocket. *)

Opened ==
  /\ live.link = "connecting" /\ usable # "down"
  /\ live' = [live EXCEPT !.link = "open", !.frames = <<[type |-> "snapshot", base |-> Unset, rev |-> racing["service"]]>>]
  /\ UNCHANGED <<worldVars, state, leaderboard, statusLoads, wsDown, polls, inFlightRef, happenings>>

(* onclose: refused, broken, ended by the other side or by the page itself. *)
Closed ==
  /\ live.link # "none"
  /\ \/ live.link = "closing" /\ UNCHANGED happenings
     \/ live.link # "closing" /\ usable # "managed" /\ UNCHANGED happenings
     \/ live.link # "closing" /\ usable = "managed" /\ Happening
  /\ Rerender(state, leaderboard, TRUE, polls, inFlightRef,
              [live EXCEPT !.link = "none", !.frames = <<>>, !.rev = Unset, !.retryTimer = TRUE])
  /\ UNCHANGED <<worldVars, statusLoads>>

RetryTimeout ==
  /\ live.retryTimer
  /\ live' = [live EXCEPT !.link = "connecting", !.retryTimer = FALSE]
  /\ UNCHANGED <<worldVars, state, leaderboard, statusLoads, wsDown, polls, inFlightRef, happenings>>

(* applyPatch of fast-json-patch. *)
Patched(data, f) == IF data = f.base THEN f.rev ELSE Torn

ReceiveData ==
  /\ live.link = "open" /\ live.frames # <<>>
  /\ LET f == Head(live.frames)
         data == IF f.type = "snapshot" THEN f.rev ELSE Patched(live.data, f)
     IN /\ f.type = "patch" => f.base = live.rev
        /\ Rerender(applyRace(state, "service", data), leaderboard, FALSE, polls, inFlightRef,
                    [live EXCEPT !.frames = Tail(@), !.data = data, !.rev = f.rev])
  /\ UNCHANGED <<worldVars, statusLoads, happenings>>

(* A patch for another revision: close; what else is under way is not heard. *)
ReceiveGap ==
  /\ live.link = "open" /\ live.frames # <<>>
  /\ Head(live.frames).type = "patch" /\ Head(live.frames).base # live.rev
  /\ live' = [live EXCEPT !.link = "closing", !.frames = <<>>]
  /\ UNCHANGED <<worldVars, state, leaderboard, statusLoads, wsDown, polls, inFlightRef, happenings>>

-----------------------------------------------------------------------------
(* The world. *)

Heard(base) ==
  IF live.link = "open"
  THEN [live EXCEPT !.frames = Append(@, [type |-> "patch", base |-> base, rev |-> racing'["service"]])]
  ELSE live

News(e) ==
  /\ Happening
  /\ racing' = [racing EXCEPT ![e] = @ + 1]
  /\ \/ /\ live' = IF e = "service" THEN Heard(racing[e]) ELSE live
     \/ e = "service" /\ live.link = "open" /\ UNCHANGED live \* the message is lost
  /\ UNCHANGED <<usable, reachable, state, leaderboard, statusLoads, wsDown, polls, inFlightRef>>

(* Every $F of the timing system makes the service send a message. *)
Heartbeat ==
  /\ live.link = "open" /\ live.frames = <<>>
  /\ UNCHANGED racing
  /\ live' = Heard(racing["service"])
  /\ UNCHANGED <<usable, reachable, state, leaderboard, statusLoads, wsDown, polls, inFlightRef,
                 happenings>>

SetIntegration(l) ==
  /\ Happening
  /\ l # usable
  /\ usable' = l
  /\ UNCHANGED <<racing, reachable, state, leaderboard, statusLoads, wsDown, polls, inFlightRef, live>>

Outage(e) ==
  /\ Happening
  /\ reachable' = IF e \in reachable THEN reachable \ {e} ELSE reachable \cup {e}
  /\ UNCHANGED <<racing, usable, state, leaderboard, statusLoads, wsDown, polls, inFlightRef, live>>

-----------------------------------------------------------------------------
Init ==
  /\ racing = [e \in Endpoints |-> 0] /\ usable \in Integrations /\ reachable = {"java", "custom"}
  /\ \E source \in FirstSources :
       state = [source |-> source, paused |-> FALSE, errorCount |-> 0, currentRace |-> Nothing]
  /\ leaderboard = "down" /\ wsDown = FALSE
  /\ statusLoads = IF watchLeaderboard(state) THEN {usable} ELSE {}
  /\ IF OnSocket(state, "down")
     THEN polls = {} /\ inFlightRef = 0 /\ live = NewSocket
     ELSE polls = {Poll({}, pollUrl(state, "down"))} /\ inFlightRef = 1 /\ live = NoSocket
  /\ happenings = 0

Next ==
  \/ \E source \in Sources : setSource(source)
  \/ setUrl \/ setPaused \/ refreshLeaderboard
  \/ StatusTick
  \/ \E l \in Integrations : StatusAnswer(l)
  \/ PollTick
  \/ \E p \in polls : PollAnswered(p) \/ PollFailed(p)
  \/ Opened \/ Closed \/ RetryTimeout \/ ReceiveData \/ ReceiveGap
  \/ \E e \in Endpoints : News(e)
  \/ Heartbeat
  \/ \E l \in Integrations : SetIntegration(l)
  \/ \E e \in {"java", "custom"} : Outage(e)

(* A poll comes to its end, by its timeout at the latest. *)
PollProgress(id) ==
  \E p \in polls : /\ p.id = id
                   /\ PollAnswered(p) \/ (~Answers(p.url) /\ PollFailed(p))

SocketRefused == live.link = "closing" \/ (live.link = "connecting" /\ usable # "managed")

Spec == Init /\ [][Next]_liveVars

-----------------------------------------------------------------------------
TypeOK ==
  /\ racing \in [Endpoints -> 0 .. MaxHappenings] /\ usable \in Integrations
  /\ reachable \subseteq {"java", "custom"}
  /\ state \in [source : Sources, paused : BOOLEAN, errorCount : 0 .. BackoffAt,
                currentRace : [from : Endpoints \cup {"none"}, race : Torn .. MaxHappenings]]
  /\ leaderboard \in Integrations /\ statusLoads \subseteq Integrations /\ wsDown \in BOOLEAN
  /\ \A p \in polls : /\ p.id \in Nat /\ p.url \in Endpoints /\ p.mounted \in BOOLEAN
                      /\ p.asked \in 0 .. MaxHappenings
  /\ Cardinality({p.id : p \in polls}) = Cardinality(polls)
  /\ inFlightRef \in {0} \cup {p.id : p \in polls}
  /\ live.link \in {"none", "connecting", "open", "closing"}
  /\ live.data \in Unset .. MaxHappenings /\ live.rev \in Unset .. MaxHappenings /\ live.retryTimer \in BOOLEAN

(* What the page shows is a race its endpoint has had, and the copy that patches change is the one
   they are made for. *)
RaceShownReal ==
  /\ state.currentRace # Nothing =>
       state.currentRace.race \in 1 .. racing[state.currentRace.from]
  /\ live.rev # Unset => live.data = live.rev

(* A race comes on the page only from the endpoint in use: a late answer of the one before it does
   not. *)
ShownFromSource ==
  state'.currentRace # state.currentRace =>
    \/ state'.currentRace = Nothing
    \/ state'.currentRace.from = pollUrl(state, leaderboard)

(* Unless paused, the page shows the present race of the endpoint in use if that answers. *)
PresentRaceShown ==
  LET endpoint == pollUrl(state, leaderboard)
  IN \/ state.paused
     \/ ~Answers(endpoint)
     \/ state.currentRace = activeRaceOf(endpoint, racing[endpoint])
=============================================================================
