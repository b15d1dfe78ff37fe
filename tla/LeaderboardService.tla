-------------------------- MODULE LeaderboardService --------------------------
(***************************************************************************)
(* The data sources of the leaderboard service: the live connection to     *)
(* Orbits (RMonitorTcpSource with its retries and idle detection), the     *)
(* replay of a recording (RecordingPlayer) and LeaderboardService, which   *)
(* switches between them on requests of the control API.                   *)
(*                                                                         *)
(* A line is what it came from, live or replay; the race state is the set  *)
(* of origins of the lines it was built from since the last reset          *)
(* (RMonitorState has the state itself). Times, speed and gap skipping of  *)
(* a replay are left out.                                                  *)
(***************************************************************************)
EXTENDS Integers

CONSTANTS
  RetryMax,    \* client.retryMax, -1 for unlimited
  Lines,       \* lines of a recording
  MaxLoads     \* bound: loads of recordings under way at a time

VARIABLES
  source,   \* none, rmonitor, player
  tcp,      \* state of the TCP source; stopped also stands for no TCP source
  socket,   \* none, opening, open, silent (peer gone, no FIN), destroyed ("close" is to come)
  attempt,  \* failed attempts in a row
  rest,     \* the splitter holds an unterminated line
  player,   \* idle, playing, paused
  loaded,   \* a recording is loaded
  played,   \* lines of it played: next
  loads,    \* startPlayer() calls waiting for the file
  origins,  \* of the lines in the race state
  orbits    \* Orbits answers (environment)

tcpVars == <<tcp, socket, attempt, rest>>
playerVars == <<player, loaded, played>>
serviceVars == <<source, tcpVars, playerVars, loads, origins, orbits>>

-----------------------------------------------------------------------------
(* RMonitorTcpSource *)

(* flushPending: an unterminated rest is emitted as a line. *)
Flushed(o) == IF rest THEN o \cup {"live"} ELSE o

(* Mutant of StopTcp: a retry that is scheduled stays scheduled. *)
StopTcpKeepsRetry ==
  /\ tcp' = IF tcp = "retrying" THEN "retrying" ELSE "stopped"
  /\ socket' = "none" /\ rest' = FALSE
  /\ UNCHANGED attempt

(* stop(): the timer and the listeners of the socket go, with them its late events. *)
StopTcp ==
  /\ tcp' = "stopped"
  /\ socket' = "none" /\ rest' = FALSE
  /\ UNCHANGED attempt

Reconnect ==
  /\ tcp' = "connecting"
  /\ socket' = "opening" /\ rest' = FALSE

RetryTimeout ==
  /\ tcp = "retrying"
  /\ Reconnect
  /\ UNCHANGED <<attempt, source, playerVars, loads, origins, orbits>>

Established ==
  /\ socket = "opening" /\ orbits
  /\ socket' = "open"
  /\ tcp' = "connected"
  /\ attempt' = 0
  /\ UNCHANGED <<rest, source, playerVars, loads, origins, orbits>>

(* A chunk completes a line or not, and may leave a rest. *)
Data(line, r) ==
  /\ socket = "open" /\ (line \/ r)
  /\ rest' = r
  /\ origins' = IF line THEN origins \cup {"live"} ELSE origins
  /\ UNCHANGED <<tcp, socket, attempt, source, playerVars, loads, orbits>>

(* The peer goes away without a FIN. *)
Silence ==
  /\ socket = "open"
  /\ socket' = "silent"
  /\ UNCHANGED <<tcp, attempt, rest, source, playerVars, loads, origins, orbits>>

(* Mutant of IdleTimeout: the connection is only reported. *)
IdleReported ==
  /\ socket \in {"open", "silent"} \/ (socket = "opening" /\ ~orbits)
  /\ UNCHANGED serviceVars

(* No data for idleTimeoutMs, far longer than a connection takes to an Orbits that answers. *)
IdleTimeout ==
  /\ socket \in {"open", "silent"} \/ (socket = "opening" /\ ~orbits)
  /\ socket' = "destroyed"
  /\ UNCHANGED <<tcp, attempt, rest, source, playerVars, loads, origins, orbits>>

(* "close", also after a failed attempt: scheduleRetry. *)
Closed ==
  /\ \/ socket \in {"destroyed", "open"}
     \/ socket = "opening" /\ ~orbits
  /\ socket' = "none"
  /\ origins' = Flushed(origins) /\ rest' = FALSE
  /\ attempt' = IF RetryMax < 0 THEN attempt ELSE attempt + 1 \* counted only up to a limit
  /\ tcp' = IF RetryMax >= 0 /\ attempt + 1 > RetryMax THEN "error" ELSE "retrying"
  /\ UNCHANGED <<source, playerVars, loads, orbits>>

-----------------------------------------------------------------------------
(* LeaderboardService: Orbits *)

(* connect(): the state is reset only when it takes over from the player. *)
Connect ==
  /\ Reconnect
  /\ attempt' = 0
  /\ source' = "rmonitor"
  /\ IF source = "player"
       THEN player' = "idle" /\ origins' = {} /\ UNCHANGED <<loaded, played>>
       ELSE origins' = Flushed(origins) /\ UNCHANGED playerVars
  /\ UNCHANGED <<loads, orbits>>

Disconnect ==
  /\ StopTcp
  /\ origins' = Flushed(origins)
  /\ source' = IF source = "rmonitor" THEN "none" ELSE source
  /\ UNCHANGED <<playerVars, loads, orbits>>

ResetState ==
  /\ origins' = {}
  /\ UNCHANGED <<source, tcpVars, playerVars, loads, orbits>>

(* updateConfig: other state options reset the state, other client options reconnect. *)
UpdateConfig(stateChanged) ==
  /\ source = "rmonitor" /\ tcp # "stopped"
  /\ Reconnect
  /\ attempt' = 0
  /\ origins' = Flushed(IF stateChanged THEN {} ELSE origins)
  /\ UNCHANGED <<source, playerVars, loads, orbits>>

-----------------------------------------------------------------------------
(* RecordingPlayer. Lines up to n are due: by a seek, or as time passes; at the end it goes idle. *)

AfterEnd(state, n) == IF state = "playing" /\ n = Lines THEN "idle" ELSE state
Replayed(n) == IF n > 0 THEN {"replay"} ELSE {}

Tick(n) ==
  /\ player = "playing" /\ n > played
  /\ played' = n
  /\ player' = AfterEnd("playing", n)
  /\ origins' = origins \cup {"replay"}
  /\ UNCHANGED <<source, tcpVars, loaded, loads, orbits>>

PausePlayer ==
  /\ player = "playing"
  /\ player' = "paused"
  /\ UNCHANGED <<source, tcpVars, loaded, played, loads, origins, orbits>>

ResumePlayer ==
  /\ player = "paused"
  /\ player' = AfterEnd("playing", played)
  /\ UNCHANGED <<source, tcpVars, loaded, played, loads, origins, orbits>>

Seek(n) ==
  /\ loaded
  /\ played' = n
  /\ origins' = Replayed(n)
  /\ player' = IF player = "idle" THEN "paused" ELSE AfterEnd(player, n)
  /\ UNCHANGED <<source, tcpVars, loaded, loads, orbits>>

(* startPlayer(): the player stops at once, the file comes later, or not at all. *)
StartPlayer ==
  /\ loads < MaxLoads
  /\ loads' = loads + 1
  /\ player' = "idle"
  /\ UNCHANGED <<source, tcpVars, loaded, played, origins, orbits>>

Loaded(n) ==
  /\ loads > 0
  /\ loads' = loads - 1
  /\ loaded' = TRUE
  /\ StopTcp
  /\ source' = "player"
  /\ played' = n
  /\ origins' = Replayed(n)
  /\ player' = AfterEnd("playing", n)
  /\ UNCHANGED orbits

LoadFailed ==
  /\ loads > 0
  /\ loads' = loads - 1
  /\ UNCHANGED <<source, tcpVars, playerVars, origins, orbits>>

StopPlayer ==
  /\ player' = "idle"
  /\ source' = IF source = "player" THEN "none" ELSE source
  /\ UNCHANGED <<tcpVars, loaded, played, loads, origins, orbits>>

-----------------------------------------------------------------------------
OrbitsGoesOrComes ==
  /\ orbits' = ~orbits
  /\ UNCHANGED <<source, tcpVars, playerVars, loads, origins>>

Init ==
  /\ source = "none" /\ tcp = "stopped" /\ socket = "none" /\ attempt = 0 /\ rest = FALSE
  /\ player = "idle" /\ loaded = FALSE /\ played = 0 /\ loads = 0
  /\ origins = {} /\ orbits \in BOOLEAN

Next ==
  \/ RetryTimeout \/ Established \/ (\E line, r \in BOOLEAN : Data(line, r)) \/ Silence \/ IdleTimeout \/ Closed
  \/ Connect \/ Disconnect \/ ResetState \/ \E b \in BOOLEAN : UpdateConfig(b)
  \/ PausePlayer \/ ResumePlayer \/ StartPlayer \/ LoadFailed \/ StopPlayer
  \/ \E n \in 0 .. Lines : Tick(n) \/ Seek(n) \/ Loaded(n)
  \/ OrbitsGoesOrComes

Spec == Init /\ [][Next]_serviceVars

-----------------------------------------------------------------------------
(* Type invariant. *)
TypeOK ==
  /\ source \in {"none", "rmonitor", "player"}
  /\ tcp \in {"stopped", "connecting", "connected", "retrying", "error"}
  /\ socket \in {"none", "opening", "open", "silent", "destroyed"}
  /\ attempt \in 0 .. RetryMax + 1 /\ rest \in BOOLEAN
  /\ player \in {"idle", "playing", "paused"} /\ loaded \in BOOLEAN /\ played \in 0 .. Lines
  /\ loads \in 0 .. MaxLoads
  /\ origins \subseteq {"live", "replay"} /\ orbits \in BOOLEAN

(* The live source is active, or about to retry, only while the service says so: after a disconnect
   or a switch to the player no late timer or socket event brings Orbits back. *)
LiveOnlyAsSource ==
  tcp \in {"connecting", "connected", "retrying"} \/ socket # "none" => source = "rmonitor"

(* As long as Orbits answers, a service that is to be live is connected again and again, or has
   given up after its retries: a silent connection is not waited for forever. *)
LiveRecovers ==
  []<>(source = "rmonitor" /\ orbits => tcp = "error" \/ socket = "open")

(* "Switching between live and replay resets the race state, so replay data never mixes with live
   data" (service.ts). *)
NeverMixed == ~({"live", "replay"} \subseteq origins)
=============================================================================
