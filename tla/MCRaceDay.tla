------------------------------ MODULE MCRaceDay ------------------------------
(***************************************************************************)
(* Small instances of the parts of a race day that run by themselves: the  *)
(* process, the sources and the streams of the leaderboard, the decoder    *)
(* connections, the simulator and the test client of decoders, the feed of *)
(* passings, how the live results are projected, a page with its document, *)
(* the live race a page shows and the pages for a video wall.              *)
(* Each module has the environment of its part in its own actions and no   *)
(* two parts interact, so a behaviour is one of a single part: `part` says *)
(* of which, the others keep their first state.                            *)
(***************************************************************************)
EXTENDS Integers, Sequences, TLC

CONSTANTS
  Parts,
  NoChild, MaxRestarts, MaxLaunches, MaxBreakdowns,
  RetryMax, Lines, MaxLoads,
  Viewers, Current, ChannelOf, Races, Values, Null, MaxChanges, MaxDrops,
  Decoders, MaxWishes, MaxUpsets,
  Docs, NoDoc, MaxRev, MaxTurns, MaxOutages, MaxUpdates,
  FirstSources, BackoffAt, MaxPolls, MaxHappenings,
  Setups, Pools, Absent, MaxSeq, MaxMoves,
  Configs, NoTransponders, NoProcess, Installed, MaxProcesses, MaxSimEdits,
  NoConnection, MaxConnections, MaxSearches,
  Passings, DecoderOf, Batches, StreamPage, NoKey, MaxUploads, MaxConfigs, MaxFaults,
  Walls, NoWall, WallSettings, NoSettings, NoField, WallRaces, WallResults, NoRace, MaxWallChanges,
  v1, v2, displayed, d1, d2, p1, p2, p3 \* model values

ASSUME RaceDayAssumption ==
  /\ NoChild \notin Nat /\ MaxRestarts \in Nat /\ MaxLaunches \in Nat /\ MaxBreakdowns \in Nat
  /\ RetryMax \in Nat \cup {-1} /\ Lines \in Nat /\ MaxLoads \in Nat
  /\ Current \notin Races /\ Null \notin Races /\ ChannelOf \in [Viewers -> Races \cup {Current}]
  /\ Null \notin Nat \cup [rev : Nat, data : {Null} \cup [id : Races \cup {Null}, value : Values \cup {Null}]]
  /\ BackoffAt \in Nat \ {0} /\ Absent \notin Setups \cup Pools \cup Nat
  /\ NoTransponders \subseteq Configs /\ NoProcess \notin Configs \cup 1 .. MaxProcesses
  /\ Installed \in BOOLEAN /\ NoConnection \notin 1 .. MaxConnections
  /\ NoDoc \notin Docs
  /\ NoWall \notin Walls /\ NoRace \notin WallRaces \cup WallResults /\ NoSettings \notin WallSettings
  /\ DecoderOf \in [Passings -> Decoders] /\ Batches \subseteq Seq(Passings) /\ StreamPage \in Nat \ {0}

ASSUME RaceDayBounds ==
  /\ MaxChanges \in Nat /\ MaxDrops \in Nat /\ MaxWishes \in Nat /\ MaxUpsets \in Nat
  /\ MaxRev \in Nat \ {0} /\ MaxTurns \in Nat /\ MaxOutages \in Nat /\ MaxUpdates \in Nat
  /\ MaxPolls \in Nat /\ MaxHappenings \in Nat /\ MaxSeq \in Nat /\ MaxMoves \in Nat
  /\ MaxProcesses \in Nat /\ MaxSimEdits \in Nat /\ MaxConnections \in Nat /\ MaxSearches \in Nat
  /\ MaxUploads \in Nat /\ MaxConfigs \in Nat /\ MaxFaults \in Nat /\ MaxWallChanges \in Nat

VARIABLES
  part,
  run, signalled, svcChild, svcState, stopRequested, killTimer, lostTimers, waiting,
    restarts, restartTimers, restartHeld, breakdowns,
  source, tcp, socket, attempt, rest, player, loaded, played, loads, origins, orbits,
  stored, display, channels, flushTimer, pendingTick, ghosts, linked, wire, view, changes, drops,
  wish, shown, converter, backoff, connectTimers, ammSocket, p3Link, late, syncSoon, syncLater,
    installed, wishes, upsets,
  docRev, reconnects, docId, pageLink, pageTimer, frames, writes, refs, data, rendered, patched, synced,
    turns, outages, updates,
  racing, usable, reachable, state, leaderboard, statusLoads, wsDown, polls, inFlightRef, live, happenings,
  session, activeSetupId, activePools, poolRev, lastStored, pageSession, activations, workerSession,
    setupClient, poolClients, passingFeed, runtimeLoaded, resultsTimer, results, moves,
  simDoc, simHeard, child, runningKey, simState, process, port, simEdits,
  connection, conns, tcpStatus, bytesSent, searchStatus, searching, searches,
  table, lastSeq, subscribed, lastSent, feedWire, ws, key, items, feedLive, retry, closed, feedShown,
    uploads, configs, faults,
  application, visualizationIdParam, activeVisualization, settings, shownRace, qualifying, setupKnown, rows,
    autoPagingRunning, currentPage, effectDeps, mode, wallChanges

Process == INSTANCE LeaderboardProcess
Sources == INSTANCE LeaderboardService
Streams == INSTANCE LeaderboardPublisher
Connections == INSTANCE DecoderConnections
Page == INSTANCE BrowserDoc WITH link <- pageLink, timer <- pageTimer
Live == INSTANCE LiveStatus
Projecting == INSTANCE ResultsProjection
Simulator == INSTANCE SimulatorProcess
               WITH doc <- simDoc, heard <- simHeard, edits <- simEdits, MaxEdits <- MaxSimEdits
TestClient == INSTANCE P3TestClient WITH inFlight <- searching
Feed == INSTANCE PassingFeed WITH wire <- feedWire, live <- feedLive, shown <- feedShown
Wall == INSTANCE Visualizer

processVars == <<run, signalled, svcChild, svcState, stopRequested, killTimer, lostTimers, waiting,
                 restarts, restartTimers, restartHeld, breakdowns>>
sourcesVars == <<source, tcp, socket, attempt, rest, player, loaded, played, loads, origins, orbits>>
streamsVars == <<stored, display, channels, flushTimer, pendingTick, ghosts, linked, wire, view, changes, drops>>
connectionsVars == <<wish, shown, converter, backoff, connectTimers, ammSocket, p3Link, late, syncSoon,
                     syncLater, installed, wishes, upsets>>
pageVars == <<docRev, reconnects, docId, pageLink, pageTimer, frames, writes, refs, data, rendered, patched, synced,
              turns, outages, updates>>
liveVars == <<racing, usable, reachable, state, leaderboard, statusLoads, wsDown, polls, inFlightRef, live,
              happenings>>
projectionVars == <<session, activeSetupId, activePools, poolRev, lastStored, pageSession, activations,
                    workerSession, setupClient, poolClients, passingFeed, runtimeLoaded, resultsTimer,
                    results, moves>>
simVars == <<simDoc, simHeard, child, runningKey, simState, process, port, simEdits>>
clientVars == <<connection, conns, tcpStatus, bytesSent, searchStatus, searching, searches>>
feedVars == <<table, lastSeq, subscribed, lastSent, feedWire, ws, key, items, feedLive, retry, closed, feedShown,
              uploads, configs, faults>>
wallVars == <<application, visualizationIdParam, activeVisualization, settings, shownRace, qualifying, setupKnown,
              rows, autoPagingRunning, currentPage, effectDeps, mode, wallChanges>>

leaderboardVars == <<processVars, sourcesVars, streamsVars>>
toolVars == <<simVars, clientVars>>
decoderVars == <<connectionsVars, toolVars>>
screenVars == <<pageVars, liveVars, wallVars>>
resultsVars == <<projectionVars, feedVars>>
allVars == <<part, leaderboardVars, decoderVars, screenVars, resultsVars>>

(* What is chosen in the first state is chosen for the part that runs. *)
Init ==
  /\ part \in Parts
  /\ Process!Init /\ Sources!Init /\ Streams!Init
  /\ Connections!Init /\ Simulator!Init /\ TestClient!Init
  /\ Page!Init /\ Live!Init /\ Projecting!Init /\ Feed!Init /\ Wall!Init
  /\ part # "sources" => orbits
  /\ part # "connections" => installed
  /\ part # "page" => reconnects
  /\ part # "live" => usable = "managed" /\ state.source = "auto"
  /\ part # "projection" => activeSetupId = CHOOSE setup \in Setups : TRUE
  /\ part # "wall" => application = "scoring" /\ visualizationIdParam = NoWall
  /\ part # "simulator" => simDoc.config = CHOOSE config \in Configs : TRUE

ProcessStep ==
  /\ part = "process" /\ Process!Next
  /\ UNCHANGED <<part, sourcesVars, streamsVars, decoderVars, screenVars, resultsVars>>

SourcesStep ==
  /\ part = "sources" /\ Sources!Next
  /\ UNCHANGED <<part, processVars, streamsVars, decoderVars, screenVars, resultsVars>>

StreamsStep ==
  /\ part = "streams" /\ Streams!Next
  /\ UNCHANGED <<part, processVars, sourcesVars, decoderVars, screenVars, resultsVars>>

ConnectionsStep ==
  /\ part = "connections" /\ Connections!Next
  /\ UNCHANGED <<part, leaderboardVars, toolVars, screenVars, resultsVars>>

SimulatorStep ==
  /\ part = "simulator" /\ Simulator!Next
  /\ UNCHANGED <<part, leaderboardVars, connectionsVars, clientVars, screenVars, resultsVars>>

TestClientStep ==
  /\ part = "testClient" /\ TestClient!Next
  /\ UNCHANGED <<part, leaderboardVars, connectionsVars, simVars, screenVars, resultsVars>>

PageStep ==
  /\ part = "page" /\ Page!Next
  /\ UNCHANGED <<part, leaderboardVars, decoderVars, liveVars, wallVars, resultsVars>>

LiveStep ==
  /\ part = "live" /\ Live!Next
  /\ UNCHANGED <<part, leaderboardVars, decoderVars, pageVars, wallVars, resultsVars>>

WallStep ==
  /\ part = "wall" /\ Wall!Next
  /\ UNCHANGED <<part, leaderboardVars, decoderVars, pageVars, liveVars, resultsVars>>

ProjectionStep ==
  /\ part = "projection" /\ Projecting!Next
  /\ UNCHANGED <<part, leaderboardVars, decoderVars, screenVars, feedVars>>

FeedStep ==
  /\ part = "feed" /\ Feed!Next
  /\ UNCHANGED <<part, leaderboardVars, decoderVars, screenVars, projectionVars>>

Next ==
  \/ ProcessStep \/ SourcesStep \/ StreamsStep
  \/ ConnectionsStep \/ SimulatorStep \/ TestClientStep
  \/ PageStep \/ LiveStep \/ WallStep \/ ProjectionStep \/ FeedStep

Spec == Init /\ [][Next]_allVars

-----------------------------------------------------------------------------
(* Timers fire and the process handles its events; a child that does not hang obeys SIGTERM. *)
ProcessFairness ==
  \A p \in 1 .. MaxLaunches :
    /\ WF_processVars(part = "process" /\ Process!KillTimeout(p))
    /\ WF_processVars(part = "process" /\ Process!ServiceExited(p))
    /\ WF_processVars(part = "process" /\ Process!ObeySignal(p))
    /\ WF_processVars(part = "process" /\ Process!Listen(p))

(* The retry and idle timers fire, a socket reports what became of it. *)
SourcesFairness ==
  /\ WF_sourcesVars(part = "sources" /\ Sources!RetryTimeout)
  /\ WF_sourcesVars(part = "sources" /\ Sources!Established)
  /\ WF_sourcesVars(part = "sources" /\ socket = "silent" /\ Sources!IdleTimeout)
  /\ WF_sourcesVars(part = "sources" /\ socket = "destroyed" /\ Sources!Closed)

(* The coalescing timer fires, EventSource reconnects and messages arrive. *)
StreamsFairness ==
  /\ WF_streamsVars(part = "streams" /\ Streams!Flush)
  /\ \A v \in Viewers : /\ WF_streamsVars(part = "streams" /\ Streams!Join(v))
                        /\ WF_streamsVars(part = "streams" /\ Streams!Receive(v))

(* Timers fire, opened and closed sockets and the identified decoder report back. *)
ConnectionsFairness ==
  /\ WF_connectionsVars(part = "connections" /\ Connections!SyncSoon)
  /\ \A d \in Decoders :
       /\ WF_connectionsVars(part = "connections" /\ Connections!SyncLater(d))
       /\ WF_connectionsVars(part = "connections" /\ Connections!BackoffEnd(d))
       /\ WF_connectionsVars(part = "connections" /\ Connections!ConnectTimer(d))
       /\ WF_connectionsVars(part = "connections" /\ Connections!SocketOpen(d))
       /\ WF_connectionsVars(part = "connections" /\ d \notin converter /\ Connections!SocketClose(d))
       /\ WF_connectionsVars(part = "connections" /\ Connections!P3Identified(d))
       /\ WF_connectionsVars(part = "connections" /\ Connections!P3Reconnect(d))
       /\ \A b \in {"ammc", "p3"} :
            WF_connectionsVars(part = "connections" /\ Connections!LateClose(d, b))

(* The hub accepts and greets a socket, a broken one closes, messages arrive, the reconnect timer
   fires, React renders. *)
PageFairness ==
  /\ WF_pageVars(part = "page" /\ Page!Opened)
  /\ WF_pageVars(part = "page" /\ pageLink = "broken" /\ Page!Closed)
  /\ WF_pageVars(part = "page" /\ Page!ReconnectTimer)
  /\ WF_pageVars(part = "page" /\ Page!ReceiveSnapshot)
  /\ WF_pageVars(part = "page" /\ Page!ReceivePatch)
  /\ WF_pageVars(part = "page" /\ Page!ReceiveMismatch)
  /\ WF_pageVars(part = "page" /\ Page!Render)

(* Intervals and timers fire, requests and sockets end, messages arrive; the timing system sends. *)
LiveFairness ==
  /\ WF_liveVars(part = "live" /\ Live!StatusTick)
  /\ \A l \in Live!Integrations : WF_liveVars(part = "live" /\ Live!StatusAnswer(l))
  /\ WF_liveVars(part = "live" /\ Live!PollTick)
  /\ \A id \in 1 .. 2 * MaxPolls + 1 : WF_liveVars(part = "live" /\ Live!PollProgress(id))
  /\ WF_liveVars(part = "live" /\ Live!Opened)
  /\ WF_liveVars(part = "live" /\ Live!SocketRefused /\ Live!Closed)
  /\ WF_liveVars(part = "live" /\ Live!RetryTimeout)
  /\ WF_liveVars(part = "live" /\ (Live!ReceiveData \/ Live!ReceiveGap))
  /\ WF_liveVars(part = "live" /\ Live!Heartbeat)

(* The worker hears of documents and passings, heartbeats included; the debounce timer fires, so
   passings pause for its 250 ms now and then; the hub answers. *)
ProjectionFairness ==
  /\ WF_projectionVars(part = "projection" /\ Projecting!SessionData)
  /\ WF_projectionVars(part = "projection" /\ Projecting!SetupData)
  /\ WF_projectionVars(part = "projection" /\ Projecting!RuntimeData)
  /\ WF_projectionVars(part = "projection" /\ Projecting!FeedChange)
  /\ \A pool \in Pools : WF_projectionVars(part = "projection" /\ Projecting!PoolData(pool))
  /\ WF_projectionVars(part = "projection" /\ Projecting!Projection)
  /\ \A setup \in Setups, baseRev \in 0 .. MaxMoves :
       LET w == [baseRev |-> baseRev, setup |-> setup]
       IN WF_projectionVars(part = "projection" /\ w \in activations /\ Projecting!Activated(w))

(* The worker hears of the document and its processes; they bind the port, and end when told to. *)
SimulatorFairness ==
  /\ WF_simVars(part = "simulator" /\ Simulator!apply)
  /\ \A p \in 1 .. MaxProcesses :
       /\ WF_simVars(part = "simulator" /\ Simulator!Bind(p))
       /\ WF_simVars(part = "simulator" /\ process[p] = "killed" /\ Simulator!Exit(p))
       /\ WF_simVars(part = "simulator" /\ Simulator!spawned(p))
       /\ WF_simVars(part = "simulator" /\ Simulator!exited(p))

(* Sockets open, messages arrive, a lost connection is noticed, timers fire. *)
FeedFairness ==
  /\ WF_feedVars(part = "feed" /\ Feed!AcceptStream)
  /\ WF_feedVars(part = "feed" /\ Feed!Deliver)
  /\ WF_feedVars(part = "feed" /\ Feed!CloseEvent)
  /\ WF_feedVars(part = "feed" /\ Feed!Retry)

(* React runs the effects, and the interval of the pages fires. *)
WallFairness ==
  /\ WF_wallVars(part = "wall" /\ Wall!RunEffects)
  /\ WF_wallVars(part = "wall" /\ Wall!IntervalTick)

FairSpec ==
  /\ Spec
  /\ ProcessFairness /\ SourcesFairness /\ StreamsFairness
  /\ ConnectionsFairness /\ SimulatorFairness /\ ProjectionFairness
  /\ PageFairness /\ LiveFairness /\ FeedFairness /\ WallFairness

-----------------------------------------------------------------------------
(* The properties of the parts, each stated and explained in its module. *)

(* The variables of the part that runs have their types. *)
TypeOK ==
  CASE part = "process" -> Process!TypeOK
    [] part = "sources" -> Sources!TypeOK
    [] part = "streams" -> Streams!TypeOK
    [] part = "connections" -> Connections!TypeOK
    [] part = "page" -> Page!TypeOK
    [] part = "live" -> Live!TypeOK
    [] part = "wall" -> Wall!TypeOK
    [] part = "projection" -> Projecting!TypeOK
    [] part = "simulator" -> Simulator!TypeOK
    [] part = "testClient" -> TestClient!TypeOK
    [] part = "feed" -> Feed!TypeOK

(* No service process runs that a stop cannot reach, and no simulator that nobody would end. *)
ServiceManaged ==
  /\ part = "process" => Process!ServiceManaged
  /\ part = "simulator" => Simulator!NoStraySimulator

(* A stop of the leaderboard service ends, and the simulator ends up as wished. *)
StopEnds ==
  /\ Process!StopEnds
  /\ <>[](part = "simulator" => Simulator!WishCarriedOut)

(* Only the chosen source feeds the race state. *)
LiveOnlyAsSource == part = "sources" => Sources!LiveOnlyAsSource

(* The live connection comes back. *)
LiveRecovers == Sources!LiveRecovers

(* Recordings and live lines never mix in the race state. *)
NeverMixed == Sources!NeverMixed

(* What a viewer of the leaderboard shows is a state its channel had, the live race on a scoring
   page one its source had, a page of the LiveTracking application shows and changes committed versions
   of the document it writes to, and a page for a video wall shows what there is to show. *)
ViewersFaithful ==
  /\ part = "streams" => Streams!ViewersFaithful
  /\ part = "live" => Live!RaceShownReal
  /\ part = "page" => Page!CopyTrue
  /\ part = "wall" => Wall!WallFaithful

(* Every viewer of the leaderboard, every page of the LiveTracking application, the live race of the
   scoring and the live results end up with the present state, and a video wall shows page after page. *)
ScreensConverge ==
  /\ \A v \in Viewers : <>[](part = "streams" => Streams!UpToDate(v))
  /\ Page!PageRecovers
  /\ <>[](part = "live" => Live!PresentRaceShown)
  /\ []<>(part = "wall" => Wall!FirstPageShown) /\ []<>(part = "wall" => Wall!LastPageShown)
  /\ <>[](part = "projection" => Projecting!ResultsPresent)

(* The passings the worker computes results from are those of the store, *)
FeedReflectsStore == part = "feed" => Feed!FeedReflectsStore

(* and in the end all of them. *)
FeedConverges == <>[](part = "feed" => Feed!FeedSettled)

(* A decoder is reported connected, a simulator running and a test connection open only while it
   is. *)
StatusTruthful ==
  /\ part = "connections" => Connections!StatusTruthful
  /\ part = "simulator" => Simulator!StatusOfChild
  /\ part = "testClient" => TestClient!ClientTruthful

(* A wanted decoder gets connected. *)
WantedConnects == Connections!WantedConnects

(* The live race comes from the source chosen, and a running measurement keeps its setup and the
   passings of its results. *)
OperatorDecides ==
  [][/\ part = "live" => Live!ShownFromSource
     /\ part = "projection" => Projecting!MeasurementStays]_<<liveVars, projectionVars>>

-----------------------------------------------------------------------------
(* The constants. *)

MCChannelOf == (v1 :> displayed) @@ (v2 :> 1)

(* Races with racers who have and have not a result, at the start, in the middle and at the end. *)
Result(bib, rank, points, finishRank) ==
  [bib |-> bib, rank |-> rank, points |-> points, finishRank |-> finishRank,
   dsq |-> FALSE, dns |-> FALSE, dnf |-> "no"]
MCWallRaces ==
  LET dns(bib) == [Result(bib, 0, 0, 0) EXCEPT !.dns = TRUE]
      lists ==
        {<<Result(1, 1, 2, 0), Result(2, 2, 0, 0), Result(3, 3, 1, 0), Result(4, 4, 0, 3)>>,
         <<Result(1, 0, 0, 0), Result(2, 1, 0, 1), dns(3), Result(4, 3, 0, 0),
           [Result(5, 2, 0, 0) EXCEPT !.dnf = "dnf"]>>,
         <<[Result(1, 0, 0, 0) EXCEPT !.dsq = TRUE], dns(2), Result(3, 1, 0, 0), Result(4, 2, 0, 3)>>}
  IN {[raceResults |-> list, isPointsRace |-> Len(list) = 4] : list \in lists}

(* Results of three athletes: some on the track, some not, some without a lap. *)
MCWallResults ==
  LET laps == <<<<5, 4, 6>>, <<4, 4>>, <<>>>>
      athlete(id, at, active) == [athleteId |-> id, transponder |-> id, lastPassingAt |-> at, active |-> active,
                                  recentLapTimesMs |-> laps[id], bestLapTimeMs |-> 4]
      passing(id, at, startFinish) == [transponder |-> id, at |-> at, startFinish |-> startFinish]
      entry(id, rank) == [athleteId |-> id, rank |-> rank]
  IN {[athleteLiveStates |-> <<athlete(1, 4, TRUE), athlete(2, 3, TRUE), athlete(3, 0, FALSE)>>,
       recentPassings |-> <<passing(1, 1, TRUE), passing(2, 3, TRUE), passing(1, 4, FALSE)>>,
       qualifyingRanking |-> <<entry(2, 2), entry(1, 1)>>],
      [athleteLiveStates |-> <<athlete(1, 4, FALSE), athlete(2, 6, TRUE), athlete(3, 7, TRUE)>>,
       recentPassings |-> <<passing(3, 7, FALSE), passing(2, 6, TRUE), passing(3, 5, TRUE)>>,
       qualifyingRanking |-> <<entry(1, 1), entry(2, 2), entry(3, 3)>>]}

(* With one, two and no lines a page, with and without a time, and without pages. *)
MCWallSettings ==
  LET document(paging, indicator, lines, time, recent) ==
        [usePaging |-> paging, showSkippedRowsIndicator |-> indicator, pagingLines |-> lines,
         pagingTime |-> time, recentLines |-> recent]
  IN {document(TRUE, TRUE, 1, 5, 1), document(TRUE, FALSE, 2, 5, NoField), document(TRUE, TRUE, 0, 0, 0),
      document(FALSE, TRUE, 10, 5, 2)}

(* Three passings of two decoders, uploaded alone or in pairs. *)
MCDecoderOf == (p1 :> d1) @@ (p2 :> d2) @@ (p3 :> d1)
MCBatches == {<<p1>>, <<p2>>, <<p1, p3>>, <<p3, p2>>}
=============================================================================
