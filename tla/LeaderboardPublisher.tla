------------------------- MODULE LeaderboardPublisher -------------------------
(***************************************************************************)
(* The race streams of the leaderboard service: SnapshotPublisher, which   *)
(* turns changes of the race state into snapshots and patches per channel, *)
(* the WebSockets they travel on and the viewers that apply them (the      *)
(* leaderboard frontend and the live feed of scoring).                     *)
(*                                                                         *)
(* A race is its id and one value; a patch is the pair of values compare() *)
(* made it from, so applying it to anything else tears the viewer's data.  *)
(***************************************************************************)
EXTENDS Integers, Sequences

CONSTANTS
  Viewers,
  Current,     \* the channel that follows the displayed race
  ChannelOf,   \* ChannelOf[v]: Current, or the id of one race
  Races,       \* race ids
  Values,      \* what a race may look like
  Null,        \* `null`: no race, no connection
  MaxChanges,  \* bound: lines applied
  MaxDrops     \* bound: connections lost, resyncs, restarts of the service

Keys == Races \cup {Current}
Torn == "torn"

VARIABLES
  stored,     \* stored[r]: value of race r, Null if there is none
  display,    \* the displayed race, Null before the first
  channels,   \* channels[k]: [rev, data], Null if there is no channel
  flushTimer, \* the coalescing timer runs
  pendingTick,
  ghosts,     \* ghosts[k]: subscribers whose connection is gone, not yet noticed
  linked,     \* viewers that are connected
  wire,       \* wire[v]: messages on their way
  view,       \* view[v]: [rev, data] of the viewer, rev Null until a snapshot
  changes, drops

publisherVars == <<channels, flushTimer, pendingTick, ghosts>>
viewerVars == <<linked, wire, view>>
streamVars == <<stored, display, publisherVars, viewerVars, changes, drops>>

-----------------------------------------------------------------------------
(* SnapshotPublisher *)

(* compute: the displayed race always gives data, a single race only if it is stored. *)
Compute(key, races, shown) ==
  CASE key # Current -> IF races[key] = Null THEN Null ELSE [id |-> key, value |-> races[key]]
    [] OTHER -> [id |-> shown, value |-> IF shown = Null THEN Null ELSE races[shown]]

Snapshot(ch) == [type |-> "snapshot", rev |-> ch.rev, data |-> ch.data]

(* Race change, also from or to no race. *)
OtherRace(old, new) ==
  \/ (old = Null) # (new = Null)
  \/ old # Null /\ new # Null /\ old.id # new.id

Live(k) == {v \in linked : ChannelOf[v] = k}

(* What flushNow() does to a channel, and the messages it sends. *)
FlushedChannel(ch, next, tick) ==
  IF ch.data = next /\ ~tick THEN ch ELSE [rev |-> ch.rev + 1, data |-> next]

FlushMessages(ch, next, tick) ==
  IF ch.data = next /\ ~tick THEN <<>>
  ELSE IF OtherRace(ch.data, next) THEN <<Snapshot([rev |-> ch.rev + 1, data |-> next])>>
  ELSE IF next = Null THEN <<>>
  ELSE <<[type |-> "patch", base |-> ch.rev, rev |-> ch.rev + 1, from |-> ch.data, to |-> next]>>

FlushAll(tick) ==
  [k \in Keys |-> IF channels[k] = Null THEN Null
                  ELSE FlushedChannel(channels[k], Compute(k, stored, display), tick)]

Broadcast(tick) ==
  [v \in Viewers |->
     IF v \notin linked THEN wire[v]
     ELSE LET k == ChannelOf[v]
          IN wire[v] \o FlushMessages(channels[k], Compute(k, stored, display), tick)]

Flush ==
  /\ flushTimer
  /\ flushTimer' = FALSE /\ pendingTick' = FALSE
  /\ channels' = FlushAll(pendingTick)
  /\ wire' = Broadcast(pendingTick)
  /\ UNCHANGED <<stored, display, ghosts, linked, view, changes, drops>>

(* Mutant of Notify: only heartbeats start the timer. *)
NotifyOnTick(heartbeat) ==
  /\ flushTimer' = (flushTimer \/ (heartbeat /\ \E k \in Keys : channels[k] # Null))
  /\ pendingTick' = ((pendingTick \/ heartbeat) /\ \E k \in Keys : channels[k] # Null)

(* notify(): after every applied line; the timer is started once. *)
Notify(heartbeat) ==
  /\ flushTimer' = (flushTimer \/ \E k \in Keys : channels[k] # Null)
  /\ pendingTick' = ((pendingTick \/ heartbeat) /\ \E k \in Keys : channels[k] # Null)

-----------------------------------------------------------------------------
(* The race state, one line at a time *)

Change == changes < MaxChanges /\ changes' = changes + 1

(* $B: another race is displayed; stored races other than it and the one before may be dropped over
   the limit. *)
StartRace(r, dropped) ==
  /\ Change
  /\ display # r /\ {r, display} \cap dropped = {}
  /\ \E x \in Values :
       stored' = [s \in Races |-> CASE s = r -> x [] s \in dropped -> Null [] OTHER -> stored[s]]
  /\ display' = r
  /\ Notify(FALSE)
  /\ UNCHANGED <<channels, ghosts, viewerVars, drops>>

(* Any line about the displayed race, a heartbeat or not. *)
UpdateRace(heartbeat) ==
  /\ Change
  /\ display # Null
  /\ \E x \in Values : stored' = [stored EXCEPT ![display] = x]
  /\ Notify(heartbeat)
  /\ UNCHANGED <<display, channels, ghosts, viewerVars, drops>>

(* A heartbeat for a race that is not displayed (yet). *)
HiddenHeartbeat ==
  /\ Change
  /\ Notify(TRUE)
  /\ UNCHANGED <<stored, display, channels, ghosts, viewerVars, drops>>

(* resetState(): the store is replaced, and reset() sends every channel a snapshot. *)
Reset ==
  /\ Change
  /\ stored' = [r \in Races |-> Null] /\ display' = Null
  /\ flushTimer' = FALSE /\ pendingTick' = FALSE
  /\ channels' = [k \in Keys |-> IF channels[k] = Null THEN Null
                    ELSE [rev |-> channels[k].rev + 1, data |-> Compute(k, stored', Null)]]
  /\ wire' = [v \in Viewers |-> IF v \in linked
                THEN Append(wire[v], Snapshot(channels'[ChannelOf[v]])) ELSE wire[v]]
  /\ UNCHANGED <<ghosts, linked, view, drops>>

-----------------------------------------------------------------------------
(* Viewers *)

Drop == drops < MaxDrops /\ drops' = drops + 1

(* subscribe() sends the data the channel has sent last. *)
FirstSnapshot(k, ch) == Snapshot(ch)

(* The connection opens. *)
Join(v) ==
  LET k == ChannelOf[v]
      ch == IF channels[k] = Null THEN [rev |-> 0, data |-> Compute(k, stored, display)]
                                  ELSE channels[k]
  IN /\ v \notin linked
     /\ channels' = [channels EXCEPT ![k] = ch]
     /\ linked' = linked \cup {v}
     /\ wire' = [wire EXCEPT ![v] = <<FirstSnapshot(k, ch)>>]
     /\ UNCHANGED <<stored, display, flushTimer, pendingTick, ghosts, view, changes, drops>>

Resync(v) ==
  /\ Drop
  /\ v \in linked
  /\ flushTimer' = FALSE /\ pendingTick' = FALSE
  /\ channels' = FlushAll(pendingTick)
  /\ wire' = [Broadcast(pendingTick) EXCEPT ![v] = Append(@, Snapshot(channels'[ChannelOf[v]]))]
  /\ UNCHANGED <<stored, display, ghosts, linked, view, changes>>

(* The viewer's side of a connection is closed; the service has not noticed. *)
Unlink(v) ==
  /\ linked' = linked \ {v}
  /\ wire' = [wire EXCEPT ![v] = <<>>]
  /\ view' = [view EXCEPT ![v].rev = Null]
  /\ ghosts' = [ghosts EXCEPT ![ChannelOf[v]] = @ + 1]

Lose(v) ==
  /\ Drop
  /\ v \in linked
  /\ Unlink(v)
  /\ UNCHANGED <<stored, display, channels, flushTimer, pendingTick, changes>>

(* The close event of the service: unsubscribe, and the last one takes the channel along. *)
Unsubscribe(k) ==
  /\ ghosts[k] > 0
  /\ ghosts' = [ghosts EXCEPT ![k] = @ - 1]
  /\ channels' = IF ghosts[k] = 1 /\ Live(k) = {} THEN [channels EXCEPT ![k] = Null] ELSE channels
  /\ UNCHANGED <<stored, display, flushTimer, pendingTick, viewerVars, changes, drops>>

(* onmessage of a snapshot, of a patch *)
ApplySnapshot(w, m) == [rev |-> m.rev, data |-> m.data]

Applicable(w, m) == w.rev # Null /\ m.base = w.rev

ApplyPatch(w, m) == [rev |-> m.rev, data |-> IF w.data = m.from THEN m.to ELSE Torn]

Receive(v) ==
  LET m == Head(wire[v]) IN
  /\ wire[v] # <<>>
  /\ IF m.type = "snapshot" \/ Applicable(view[v], m)
       THEN /\ view' = [view EXCEPT ![v] = IF m.type = "snapshot" THEN ApplySnapshot(@, m)
                                                                   ELSE ApplyPatch(@, m)]
            /\ wire' = [wire EXCEPT ![v] = Tail(@)]
            /\ UNCHANGED <<linked, ghosts>>
       ELSE Unlink(v)
  /\ UNCHANGED <<stored, display, channels, flushTimer, pendingTick, changes, drops>>

(* The service exits and is started again. *)
Restart ==
  /\ Drop
  /\ stored' = [r \in Races |-> Null] /\ display' = Null
  /\ channels' = [k \in Keys |-> Null] /\ ghosts' = [k \in Keys |-> 0]
  /\ flushTimer' = FALSE /\ pendingTick' = FALSE
  /\ linked' = {} /\ wire' = [v \in Viewers |-> <<>>]
  /\ view' = [v \in Viewers |-> [view[v] EXCEPT !.rev = Null]]
  /\ UNCHANGED changes

-----------------------------------------------------------------------------
Init ==
  /\ stored = [r \in Races |-> Null] /\ display = Null
  /\ channels = [k \in Keys |-> Null] /\ ghosts = [k \in Keys |-> 0]
  /\ flushTimer = FALSE /\ pendingTick = FALSE
  /\ linked = {} /\ wire = [v \in Viewers |-> <<>>]
  /\ view = [v \in Viewers |-> [rev |-> Null, data |-> Null]]
  /\ changes = 0 /\ drops = 0

Next ==
  \/ Flush \/ HiddenHeartbeat \/ Reset \/ Restart
  \/ \E r \in Races, d \in SUBSET Races : StartRace(r, d)
  \/ \E b \in BOOLEAN : UpdateRace(b)
  \/ \E k \in Keys : Unsubscribe(k)
  \/ \E v \in Viewers : Join(v) \/ Resync(v) \/ Lose(v) \/ Receive(v)

Spec == Init /\ [][Next]_streamVars

-----------------------------------------------------------------------------
(* Type invariant; a connected viewer has a channel. *)
TypeOK ==
  /\ stored \in [Races -> Values \cup {Null}] /\ display \in Races \cup {Null}
  /\ \A k \in Keys : channels[k] # Null => channels[k].rev \in Nat
  /\ \A k \in Keys : (channels[k] = Null) <=> (Live(k) = {} /\ ghosts[k] = 0)
  /\ linked \subseteq Viewers
  /\ changes \in 0 .. MaxChanges /\ drops \in 0 .. MaxDrops

(* What a viewer that has w gets to by the first i of the messages, if each applies. *)
Had(w, messages, i) ==
  IF i = 0 THEN w
  ELSE [rev |-> messages[i].rev,
        data |-> IF messages[i].type = "snapshot" THEN messages[i].data ELSE messages[i].to]

(* Each patch meets the revision and the data it was made from, and in the end the viewer has what the
   channel has sent last. *)
Faithful(w, messages, ch) ==
  /\ \A i \in 1 .. Len(messages) :
       messages[i].type = "patch" =>
         /\ Applicable(Had(w, messages, i - 1), messages[i])
         /\ messages[i].from = Had(w, messages, i - 1).data
  /\ LET last == Had(w, messages, Len(messages))
     IN last.data = ch.data /\ (ch.data # Null => last.rev = ch.rev)

(* What a viewer has and what is on its way to it, applied in order, is what its channel has sent
   last: no patch meets other data or another revision than it was made from, through coalescing,
   late subscribers, resyncs, race changes, resets and restarts. *)
ViewersFaithful == \A v \in linked : Faithful(view[v], wire[v], channels[ChannelOf[v]])

(* When the race state rests, every viewer ends up with it, whatever connections were lost. *)
UpToDate(v) == view[v].data = Compute(ChannelOf[v], stored, display)
ViewersConverge == \A v \in Viewers : <>[]UpToDate(v)
=============================================================================
