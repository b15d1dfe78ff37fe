---------------------------- MODULE RaceDayProofs ----------------------------
(***************************************************************************)
(* Proofs about the parts of a race day, for every value of the constants  *)
(* of MCRaceDay: the process, sources and streams of the leaderboard, the  *)
(* decoder connections, the simulator and the test client, a page with its *)
(* document, the live race on a scoring page, the projection of the live   *)
(* results and the feed of passings.  Each part has an inductive invariant *)
(* of its own; a step of a race day is one of the part that runs           *)
(* (StepOfAPart).                                                          *)
(***************************************************************************)
EXTENDS MCRaceDay, SequenceTheorems, FiniteSetTheorems, WellFoundedInduction, TLAPS

(* A step of a race day is one of the part that runs; the others rest. *)
LEMMA StepOfAPart ==
  ASSUME [Next]_allVars
  PROVE  /\ part' = part
         /\ [part = "process" /\ Process!Next]_processVars
         /\ [part = "sources" /\ Sources!Next]_sourcesVars
         /\ [part = "streams" /\ Streams!Next]_streamsVars
         /\ [part = "connections" /\ Connections!Next]_connectionsVars
         /\ [part = "page" /\ Page!Next]_pageVars
         /\ [part = "live" /\ Live!Next]_liveVars
         /\ [part = "projection" /\ Projecting!Next]_projectionVars
         /\ [part = "simulator" /\ Simulator!Next]_simVars
         /\ [part = "testClient" /\ TestClient!Next]_clientVars
         /\ [part = "feed" /\ Feed!Next]_feedVars
  BY DEF Next, allVars, ProcessStep, SourcesStep, StreamsStep, ConnectionsStep, SimulatorStep, TestClientStep,
         PageStep, LiveStep, WallStep, ProjectionStep, FeedStep, leaderboardVars, decoderVars, toolVars,
         screenVars, resultsVars

-----------------------------------------------------------------------------
(* The process of the leaderboard service.  A child that is being stopped was told to end, so that a
   start that does not wait for its exit leaves nothing behind a stop could not reach. *)
StoppingTold == svcState = "stopping" => svcChild \in signalled

ProcessInv == Process!TypeOK /\ Process!ServiceManaged /\ StoppingTold

LEMMA ProcessConstants ==
  NoChild \notin Nat /\ MaxRestarts \in Nat /\ MaxLaunches \in Nat /\ MaxBreakdowns \in Nat
  BY RaceDayAssumption, RaceDayBounds

(* What every start does to a manager that is sound. *)
LEMMA StartKeeps ==
  ASSUME ProcessInv, Process!StartService, UNCHANGED <<signalled, killTimer, lostTimers, restarts>>,
         stopRequested' \in BOOLEAN, restartHeld' \in BOOLEAN
  PROVE  ProcessInv'
<1> USE ProcessConstants
<1>1. CASE Process!Ask
  BY <1>1 DEF ProcessInv, StoppingTold, Process!Ask, Process!TypeOK, Process!ServiceManaged, Process!Alive, Process!Launches
<1>2. CASE Process!LaunchRejected
  BY <1>2 DEF ProcessInv, StoppingTold, Process!LaunchRejected, Process!Breakdown, Process!TypeOK,
              Process!ServiceManaged, Process!Alive, Process!Launches
<1>3. ASSUME NEW p \in Process!Launches, Process!Launch(p)
      PROVE  ProcessInv'
  <2>1. p \notin signalled => Process!TypeOK'
    BY <1>3 DEF ProcessInv, Process!Launch, Process!Breakdown, Process!TypeOK, Process!Launches
  <2>2. Process!TypeOK'
    BY <1>3 DEF ProcessInv, Process!Launch, Process!Breakdown, Process!TypeOK, Process!Launches
  <2>3. Process!ServiceManaged'
    BY <1>3 DEF ProcessInv, StoppingTold, Process!Launch, Process!TypeOK, Process!ServiceManaged,
                Process!Alive, Process!Launches
  <2> QED
    BY <1>3, <2>2, <2>3 DEF ProcessInv, StoppingTold, Process!Launch
<1> QED
  BY <1>1, <1>2, <1>3 DEF Process!StartService

(* The flags of the manager stay flags. *)
LEMMA FlagsTyped ==
  ASSUME stopRequested \in BOOLEAN, restartHeld \in BOOLEAN, [Process!Next]_processVars
  PROVE  stopRequested' \in BOOLEAN /\ restartHeld' \in BOOLEAN
  BY DEF Process!Next, processVars, Process!StartRequest, Process!StartService, Process!Ask, Process!LaunchRejected,
         Process!Launch, Process!StopStoppedService, Process!StopService, Process!RestartTimeout,
         Process!KillTimeout, Process!Healthy, Process!HealthGivenUp, Process!ServiceExited, Process!Listen,
         Process!ObeySignal, Process!Collapse, Process!timers

LEMMA ProcessInductive ==
  ASSUME ProcessInv, [Process!Next]_processVars
  PROVE  ProcessInv'
<1>0. stopRequested' \in BOOLEAN /\ restartHeld' \in BOOLEAN
  BY FlagsTyped DEF ProcessInv, Process!TypeOK
<1>1. CASE Process!StartRequest
  BY <1>0, <1>1, StartKeeps DEF Process!StartRequest, Process!timers
<1>2. CASE Process!RestartTimeout /\ ~stopRequested
  BY <1>0, <1>2, StartKeeps DEF Process!RestartTimeout
<1> USE ProcessConstants DEF ProcessInv
<1> USE DEF Process!TypeOK, Process!ServiceManaged, StoppingTold, Process!Alive, Process!Launches
<1>12. CASE Process!StopStoppedService
  BY <1>0, <1>12 DEF Process!StopStoppedService
<1>3. CASE Process!StopService
  <2>1. svcChild \in 1 .. MaxLaunches /\ svcChild # NoChild
    BY <1>3 DEF Process!StopService
  <2>2. Process!TypeOK'
    BY <1>0, <1>3, <2>1 DEF Process!StopService
  <2>3. Process!ServiceManaged' /\ StoppingTold'
    BY <1>3, <2>1 DEF Process!StopService
  <2> QED
    BY <2>2, <2>3
<1>4. CASE Process!RestartTimeout /\ stopRequested
  BY <1>0, <1>4 DEF Process!RestartTimeout
<1>5. ASSUME NEW p \in Process!Launches, Process!KillTimeout(p)
      PROVE  ProcessInv'
  BY <1>0, <1>5 DEF Process!KillTimeout
<1>6. ASSUME NEW p \in Process!Launches, Process!Healthy(p)
      PROVE  ProcessInv'
  BY <1>0, <1>6 DEF Process!Healthy, Process!timers
<1>7. ASSUME NEW p \in Process!Launches, Process!HealthGivenUp(p)
      PROVE  ProcessInv'
  BY <1>0, <1>7 DEF Process!HealthGivenUp, Process!timers
<1>8. ASSUME NEW p \in Process!Launches, Process!ServiceExited(p)
      PROVE  ProcessInv'
  BY <1>0, <1>8 DEF Process!ServiceExited, Process!IsCurrent
<1>9. ASSUME NEW p \in Process!Launches, Process!Listen(p)
      PROVE  ProcessInv'
  BY <1>0, <1>9 DEF Process!Listen, Process!timers
<1>10. ASSUME NEW p \in Process!Launches, Process!ObeySignal(p)
      PROVE  ProcessInv'
  BY <1>0, <1>10 DEF Process!ObeySignal, Process!timers
<1>11. ASSUME NEW p \in Process!Launches, Process!Collapse(p)
      PROVE  ProcessInv'
  BY <1>0, <1>11 DEF Process!Collapse, Process!timers, Process!Breakdown
<1>13. CASE UNCHANGED processVars
  BY <1>0, <1>13 DEF processVars
<1> QED
  BY <1>1, <1>2, <1>3, <1>4, <1>5, <1>6, <1>7, <1>8, <1>9, <1>10, <1>11, <1>12, <1>13 DEF Process!Next

LEMMA ProcessInitially ==
  ASSUME Process!Init
  PROVE  ProcessInv
<1>1. stopRequested \in BOOLEAN /\ restartHeld \in BOOLEAN
  BY DEF Process!Init
<1>2. Process!TypeOK
  BY <1>1, ProcessConstants DEF Process!Init, Process!TypeOK, Process!Launches
<1> QED
  BY <1>2 DEF Process!Init, ProcessInv, Process!ServiceManaged, StoppingTold, Process!Alive

-----------------------------------------------------------------------------
(* The sources of the leaderboard.  A socket there is belongs to an active source, and the retries
   counted never exceed the limit while one more may come. *)
SourcesInv ==
  /\ Sources!TypeOK /\ Sources!LiveOnlyAsSource
  /\ socket # "none" => tcp \in {"connecting", "connected"}
  /\ RetryMax >= 0 /\ tcp \in {"connecting", "connected", "retrying"} => attempt <= RetryMax

LEMMA SourcesConstants == RetryMax \in Int /\ 0 <= RetryMax + 1 /\ Lines \in Nat /\ MaxLoads \in Nat
  BY RaceDayAssumption

(* Its flags stay flags. *)
LEMMA SourceFlagsTyped ==
  ASSUME rest \in BOOLEAN, loaded \in BOOLEAN, orbits \in BOOLEAN, [Sources!Next]_sourcesVars
  PROVE  rest' \in BOOLEAN /\ loaded' \in BOOLEAN /\ orbits' \in BOOLEAN
  BY DEF Sources!Next, sourcesVars, Sources!RetryTimeout, Sources!Reconnect, Sources!Established, Sources!Data,
         Sources!Silence, Sources!IdleTimeout, Sources!Closed, Sources!Connect, Sources!Disconnect,
         Sources!StopTcp, Sources!ResetState, Sources!UpdateConfig, Sources!Tick, Sources!PausePlayer,
         Sources!ResumePlayer, Sources!Seek, Sources!StartPlayer, Sources!Loaded, Sources!LoadFailed,
         Sources!StopPlayer, Sources!OrbitsGoesOrComes, Sources!playerVars, Sources!tcpVars

LEMMA SourcesInductive ==
  ASSUME SourcesInv, [Sources!Next]_sourcesVars
  PROVE  SourcesInv'
<1> USE SourcesConstants DEF SourcesInv, Sources!TypeOK, Sources!LiveOnlyAsSource
<1> USE DEF Sources!Flushed, Sources!playerVars, Sources!tcpVars, Sources!AfterEnd, Sources!Replayed
<1>0. rest' \in BOOLEAN /\ loaded' \in BOOLEAN /\ orbits' \in BOOLEAN
  BY SourceFlagsTyped
<1>1. CASE Sources!RetryTimeout
  BY <1>0, <1>1 DEF Sources!RetryTimeout, Sources!Reconnect
<1>2. CASE Sources!Established
  BY <1>0, <1>2 DEF Sources!Established
<1>3. ASSUME NEW line \in BOOLEAN, NEW r \in BOOLEAN, Sources!Data(line, r)
      PROVE  SourcesInv'
  BY <1>0, <1>3 DEF Sources!Data
<1>4. CASE Sources!Silence
  BY <1>0, <1>4 DEF Sources!Silence
<1>5. CASE Sources!IdleTimeout
  BY <1>0, <1>5 DEF Sources!IdleTimeout
<1>6. CASE Sources!Closed
  <2>1. origins' \subseteq {"live", "replay"}
    BY <1>6 DEF Sources!Closed
  <2>2. tcp \in {"connecting", "connected"} /\ source = "rmonitor" /\ attempt \in Nat
    BY <1>6 DEF Sources!Closed
  <2>3. /\ attempt' \in 0 .. RetryMax + 1 /\ socket' = "none"
        /\ tcp' \in {"error", "retrying"}
        /\ RetryMax >= 0 /\ tcp' = "retrying" => attempt' <= RetryMax
    BY <1>6, <2>2 DEF Sources!Closed
  <2> QED
    BY <1>0, <1>6, <2>1, <2>2, <2>3 DEF Sources!Closed
<1>7. CASE Sources!Connect
  <2>1. origins' \subseteq {"live", "replay"}
    BY <1>7 DEF Sources!Connect
  <2> QED
    BY <1>0, <1>7, <2>1 DEF Sources!Connect, Sources!Reconnect
<1>8. CASE Sources!Disconnect
  BY <1>0, <1>8 DEF Sources!Disconnect, Sources!StopTcp
<1>9. CASE Sources!ResetState
  BY <1>0, <1>9 DEF Sources!ResetState
<1>10. ASSUME NEW b \in BOOLEAN, Sources!UpdateConfig(b)
       PROVE  SourcesInv'
  <2>1. origins' \subseteq {"live", "replay"}
    BY <1>10 DEF Sources!UpdateConfig
  <2> QED
    BY <1>0, <1>10, <2>1 DEF Sources!UpdateConfig, Sources!Reconnect
<1>11. CASE Sources!PausePlayer
  BY <1>0, <1>11 DEF Sources!PausePlayer
<1>12. CASE Sources!ResumePlayer
  BY <1>0, <1>12 DEF Sources!ResumePlayer
<1>13. CASE Sources!StartPlayer
  BY <1>0, <1>13 DEF Sources!StartPlayer
<1>14. CASE Sources!LoadFailed
  BY <1>0, <1>14 DEF Sources!LoadFailed
<1>15. CASE Sources!StopPlayer
  BY <1>0, <1>15 DEF Sources!StopPlayer
<1>16. ASSUME NEW n \in 0 .. Lines, Sources!Tick(n) \/ Sources!Seek(n)
       PROVE  SourcesInv'
  BY <1>0, <1>16 DEF Sources!Tick, Sources!Seek
<1>17. ASSUME NEW n \in 0 .. Lines, Sources!Loaded(n)
       PROVE  SourcesInv'
  BY <1>0, <1>17 DEF Sources!Loaded, Sources!StopTcp
<1>18. CASE Sources!OrbitsGoesOrComes
  BY <1>0, <1>18 DEF Sources!OrbitsGoesOrComes
<1>19. CASE UNCHANGED sourcesVars
  BY <1>0, <1>19 DEF sourcesVars
<1> QED
  BY <1>1, <1>2, <1>3, <1>4, <1>5, <1>6, <1>7, <1>8, <1>9, <1>10, <1>11, <1>12, <1>13, <1>14, <1>15,
     <1>16, <1>17, <1>18, <1>19 DEF Sources!Next

LEMMA SourcesInitially ==
  ASSUME Sources!Init
  PROVE  SourcesInv
<1>1. rest \in BOOLEAN /\ loaded \in BOOLEAN /\ orbits \in BOOLEAN
  BY DEF Sources!Init
<1> QED
  BY <1>1, SourcesConstants DEF Sources!Init, SourcesInv, Sources!TypeOK, Sources!LiveOnlyAsSource

-----------------------------------------------------------------------------
(* The simulator.  A process that is waited for was started, so the next one gets an unused id. *)
SimulatorInv ==
  /\ Simulator!TypeOK /\ Simulator!NoStraySimulator /\ Simulator!StatusOfChild
  /\ port # NoProcess => process[port] \in {"listening", "killed"}

LEMMA SimulatorConstants ==
  /\ NoTransponders \subseteq Configs /\ NoProcess \notin Configs \cup 1 .. MaxProcesses
  /\ MaxProcesses \in Nat /\ MaxSimEdits \in Nat
  BY RaceDayAssumption, RaceDayBounds

LEMMA SimulatorInductive ==
  ASSUME SimulatorInv, [Simulator!Next]_simVars
  PROVE  SimulatorInv'
<1> USE SimulatorConstants DEF SimulatorInv, Simulator!TypeOK, Simulator!NoStraySimulator, Simulator!StatusOfChild,
                              Simulator!Processes, Simulator!Alive, Simulator!worker, Simulator!Wishes
<1>1. ASSUME NEW wanted \in Simulator!Wishes, Simulator!Edit(wanted)
      PROVE  SimulatorInv'
  BY <1>1 DEF Simulator!Edit
<1>2. CASE Simulator!apply
  BY <1>2 DEF Simulator!apply, Simulator!Stopped, Simulator!Refused, Simulator!Started, Simulator!Killed
<1>3. ASSUME NEW p \in Simulator!Processes, Simulator!Bind(p)
      PROVE  SimulatorInv'
  BY <1>3 DEF Simulator!Bind
<1>4. ASSUME NEW p \in Simulator!Processes, Simulator!Exit(p)
      PROVE  SimulatorInv'
  BY <1>4 DEF Simulator!Exit
<1>5. ASSUME NEW p \in Simulator!Processes, Simulator!onLine(p) \/ Simulator!spawned(p)
      PROVE  SimulatorInv'
  BY <1>5 DEF Simulator!onLine, Simulator!spawned
<1>6. ASSUME NEW p \in Simulator!Processes, Simulator!exited(p)
      PROVE  SimulatorInv'
  BY <1>6 DEF Simulator!exited
<1>7. CASE UNCHANGED simVars
  BY <1>7 DEF simVars
<1> QED
  BY <1>1, <1>2, <1>3, <1>4, <1>5, <1>6, <1>7 DEF Simulator!Next

LEMMA SimulatorInitially == Simulator!Init => SimulatorInv
  BY SimulatorConstants DEF Simulator!Init, SimulatorInv, Simulator!TypeOK, Simulator!NoStraySimulator,
       Simulator!StatusOfChild, Simulator!Processes, Simulator!Wishes

-----------------------------------------------------------------------------
(* The test client, whose truthfulness is inductive. *)
ClientInv == TestClient!TypeOK /\ TestClient!ClientTruthful

ConnectionState ==
  [state : {"disconnected", "connecting", "connected"},
   sock : {"none", "opening", "open", "failed", "destroyed", "closed"}]

LEMMA TornDownTyped ==
  ASSUME TestClient!TypeOK, NEW c \in TestClient!Ids
  PROVE  TestClient!TornDown(c) \in [TestClient!Ids -> ConnectionState]
  BY DEF TestClient!TypeOK, TestClient!TornDown, ConnectionState

LEMMA ClientInductive ==
  ASSUME ClientInv, [TestClient!Next]_clientVars
  PROVE  ClientInv'
<1> USE RaceDayAssumption DEF ClientInv, TestClient!TypeOK, TestClient!ClientTruthful, TestClient!Ids, TestClient!searchVars
<1>1. CASE TestClient!connect
  <2> DEFINE old == IF connection = NoConnection THEN conns ELSE TestClient!TornDown(connection)
  <2>1. PICK c \in TestClient!Ids :
          /\ conns' = [old EXCEPT ![c] = [state |-> "connecting", sock |-> "opening"]]
          /\ connection' = c /\ tcpStatus' = "connecting" /\ bytesSent' = FALSE
          /\ UNCHANGED TestClient!searchVars
    BY <1>1 DEF TestClient!connect
  <2>2. old \in [TestClient!Ids -> ConnectionState]
    BY <1>1, TornDownTyped DEF ConnectionState
  <2> HIDE DEF old
  <2>3. /\ conns' \in [TestClient!Ids -> ConnectionState]
        /\ conns'[c].sock = "opening"
    BY <2>1, <2>2 DEF ConnectionState
  <2> QED
    BY <2>1, <2>3 DEF ConnectionState
<1>2. CASE TestClient!disconnect
  <2>1. conns' \in [TestClient!Ids -> ConnectionState]
    BY <1>2, TornDownTyped DEF TestClient!disconnect, ConnectionState
  <2> QED
    BY <1>2, <2>1 DEF TestClient!disconnect, ConnectionState
<1>3. CASE TestClient!sendRequest
  BY <1>3 DEF TestClient!sendRequest
<1>4. ASSUME NEW c \in TestClient!Ids, TestClient!Connected(c)
      PROVE  ClientInv'
  BY <1>4 DEF TestClient!Connected
<1>5. ASSUME NEW c \in TestClient!Ids, TestClient!SocketError(c)
      PROVE  ClientInv'
  BY <1>5 DEF TestClient!SocketError
<1>6. ASSUME NEW c \in TestClient!Ids, TestClient!SocketClose(c)
      PROVE  ClientInv'
  BY <1>6 DEF TestClient!SocketClose
<1>7. CASE TestClient!startDiscovery
  BY <1>7 DEF TestClient!startDiscovery
<1>8. ASSUME NEW outcome \in {"completed", "error"}, TestClient!DiscoveryEnds(outcome)
      PROVE  ClientInv'
  BY <1>8 DEF TestClient!DiscoveryEnds
<1>9. CASE UNCHANGED clientVars
  BY <1>9 DEF clientVars
<1> QED
  BY <1>1, <1>2, <1>3, <1>4, <1>5, <1>6, <1>7, <1>8, <1>9 DEF TestClient!Next

LEMMA ClientInitially ==
  ASSUME TestClient!Init
  PROVE  ClientInv
<1>1. TestClient!TypeOK
  BY DEF TestClient!Init, TestClient!TypeOK, TestClient!Unused
<1>2. TestClient!ClientTruthful
  BY DEF TestClient!Init, TestClient!ClientTruthful
<1> QED
  BY <1>1, <1>2 DEF ClientInv

-----------------------------------------------------------------------------
(* The decoder connections.  A socket whose converter has exited is dropped by the sync that is due,
   before the converter can be started again; a link to a P3 decoder is there only while that is wanted;
   and as long as the close event of an earlier socket is to come, there is no connection it could be
   taken for. *)
SocketsDropped ==
  \A d \in Decoders : ammSocket[d] # "none" => d \in converter \/ (d \in backoff /\ syncSoon)

LinksWanted == \A d \in Decoders : p3Link[d] # "none" => wish[d] = "p3"

LateHarmless ==
  \A d \in Decoders :
    (\E backend \in {"ammc", "p3"} : <<d, backend>> \in late) => ammSocket[d] = "none" /\ p3Link[d] # "open"

ConnectionsInv ==
  Connections!TypeOK /\ Connections!StatusTruthful /\ SocketsDropped /\ LinksWanted /\ LateHarmless

Backends == {"none", "ammc", "p3"}
States == {"disconnected", "connecting", "connected", "error"}

LEMMA ReportTells ==
  ASSUME NEW before, NEW w, NEW D, NEW st, NEW d \in Decoders
  PROVE  Connections!Report(before, w, D, st)[d] = IF d \in D /\ w[d] # "none" THEN st ELSE before[d]
  BY DEF Connections!Report

LEMMA ReportTyped ==
  ASSUME NEW before \in [Decoders -> States], NEW w, NEW D, NEW st \in States
  PROVE  Connections!Report(before, w, D, st) \in [Decoders -> States]
  BY DEF Connections!Report

(* What a sync of the converters does to the status: of a decoder that is wanted with another backend
   it tells nothing, and an open socket it keeps stays as it was shown. *)
LEMMA SyncTells ==
  ASSUME Connections!TypeOK, SocketsDropped,
         NEW w \in [Decoders -> Backends], NEW before \in [Decoders -> States],
         NEW closing, NEW pending,
         Connections!AmmcSync(w, before, closing, pending),
         NEW d \in Decoders
  PROVE  /\ shown' \in [Decoders -> States]
         /\ w[d] = "none" => shown'[d] = before[d]
         /\ shown'[d] = "connected" => before[d] = "connected"
         /\ w[d] = "p3" /\ d \notin converter /\ ammSocket[d] = "none" => shown'[d] = before[d]
         /\ w[d] = "ammc" /\ ammSocket'[d] # "none" =>
              d \in converter /\ ammSocket'[d] = ammSocket[d] /\ shown'[d] = before[d]
         /\ w[d] = "ammc" /\ shown'[d] = "connected" => ammSocket'[d] = ammSocket[d]
<1> DEFINE points == Connections!Wanted(w, "ammc")
           stopped == converter \ points
           started == Connections!Started(points)
           missing == Connections!Missing(points)
           dropped == Connections!Dropped(points)
           running == Connections!Running(points)
           s1 == Connections!Report(before, w, stopped, "disconnected")
           s2 == Connections!Report(s1, w, started, "connecting")
           s3 == Connections!Report(s2, w, missing, "error")
           s4 == Connections!Report(s3, w, dropped, "disconnected")
<1>1. shown' = s4
  BY DEF Connections!AmmcSync
<1>2. s1 \in [Decoders -> States] /\ s2 \in [Decoders -> States] /\ s3 \in [Decoders -> States] /\ s4 \in [Decoders -> States]
  <2>1. s1 \in [Decoders -> States]
    BY ReportTyped DEF States
  <2> HIDE DEF s1
  <2>2. s2 \in [Decoders -> States]
    BY <2>1, ReportTyped DEF States
  <2> HIDE DEF s2
  <2>3. s3 \in [Decoders -> States]
    BY <2>2, ReportTyped DEF States
  <2> HIDE DEF s3
  <2> QED
    BY <2>1, <2>2, <2>3, ReportTyped DEF States
<1>3. /\ s1[d] = IF d \in stopped /\ w[d] # "none" THEN "disconnected" ELSE before[d]
      /\ s2[d] = IF d \in started /\ w[d] # "none" THEN "connecting" ELSE s1[d]
      /\ s3[d] = IF d \in missing /\ w[d] # "none" THEN "error" ELSE s2[d]
      /\ s4[d] = IF d \in dropped /\ w[d] # "none" THEN "disconnected" ELSE s3[d]
  <2> HIDE DEF stopped, started, missing, dropped
  <2> QED
    BY ReportTells
<1>4. ammSocket'[d] = IF d \in dropped THEN "none" ELSE ammSocket[d]
  BY DEF Connections!AmmcSync
<1> HIDE DEF s1, s2, s3, s4
<1>5. /\ d \in points <=> w[d] = "ammc"
      /\ d \in started => d \in points /\ d \notin converter /\ d \notin backoff
      /\ d \in missing => d \in points /\ d \notin converter /\ d \notin backoff
      /\ d \in running <=> (d \in converter /\ d \in points) \/ d \in started
      /\ d \in dropped <=> ammSocket[d] # "none" /\ d \notin running
  BY DEF Connections!Wanted, Connections!Started, Connections!Missing, Connections!Startable, Connections!Running,
         Connections!Dropped, Connections!Registered
<1>6. d \in stopped <=> d \in converter /\ d \notin points
  OBVIOUS
<1> HIDE DEF points, stopped, started, missing, dropped, running
<1>7. ammSocket[d] # "none" => d \in converter \/ d \in backoff
  BY DEF SocketsDropped
<1> QED
  BY <1>1, <1>2, <1>3, <1>4, <1>5, <1>6, <1>7

LEMMA SyncTyped ==
  ASSUME NEW w, NEW before \in [Decoders -> States], NEW closing, NEW pending,
         Connections!AmmcSync(w, before, closing, pending)
  PROVE  shown' \in [Decoders -> States]
<1>1. \E s1 \in [Decoders -> States] : \E s2 \in [Decoders -> States] : \E s3 \in [Decoders -> States] :
        \E D : shown' = Connections!Report(s3, w, D, "disconnected")
  <2> DEFINE points == Connections!Wanted(w, "ammc")
             s1 == Connections!Report(before, w, converter \ points, "disconnected")
             s2 == Connections!Report(s1, w, Connections!Started(points), "connecting")
             s3 == Connections!Report(s2, w, Connections!Missing(points), "error")
  <2>1. shown' = Connections!Report(s3, w, Connections!Dropped(points), "disconnected")
    BY DEF Connections!AmmcSync
  <2>2. s1 \in [Decoders -> States]
    BY ReportTyped DEF States
  <2> HIDE DEF s1
  <2>3. s2 \in [Decoders -> States]
    BY <2>2, ReportTyped DEF States
  <2> HIDE DEF s2
  <2>4. s3 \in [Decoders -> States]
    BY <2>3, ReportTyped DEF States
  <2> HIDE DEF s3
  <2> QED
    BY <2>1, <2>2, <2>3, <2>4
<1>2. "disconnected" \in States
  BY DEF States
<1> QED
  BY <1>1, <1>2, ReportTyped

(* ... and to processes, timers and sockets: what is left is of wanted decoders, and each socket has
   its converter. *)
LEMMA SyncLeaves ==
  ASSUME Connections!TypeOK,
         NEW w \in [Decoders -> Backends], NEW before,
         NEW closing \in SUBSET (Decoders \X {"ammc", "p3"}), NEW pending,
         Connections!AmmcSync(w, before, closing, pending)
  PROVE  /\ converter' \subseteq Decoders /\ backoff' \subseteq Decoders
         /\ connectTimers' \subseteq converter'
         /\ ammSocket' \in [Decoders -> {"none", "opening", "open"}]
         /\ late' \subseteq Decoders \X {"ammc", "p3"} /\ syncLater' \subseteq Decoders
         /\ \A d \in Decoders :
              /\ d \in converter' => w[d] = "ammc"
              /\ ammSocket'[d] # "none" => d \in converter' /\ ammSocket'[d] = ammSocket[d]
              /\ \A backend \in {"ammc", "p3"} :
                   <<d, backend>> \in late' =>
                     <<d, backend>> \in late \cup closing \/ (ammSocket[d] # "none" /\ ammSocket'[d] = "none")
<1> DEFINE points == Connections!Wanted(w, "ammc")
           dropped == Connections!Dropped(points)
           running == Connections!Running(points)
<1>1. points \subseteq Decoders /\ \A d \in points : w[d] = "ammc"
  BY DEF Connections!Wanted
<1>2. running \subseteq points
  BY DEF Connections!Running, Connections!Started, Connections!Startable
<1>3. dropped \subseteq Decoders /\ \A d \in Decoders : d \in dropped <=> ammSocket[d] # "none" /\ d \notin running
  BY DEF Connections!Dropped, Connections!Registered
<1>4. converter' = running /\ backoff' \subseteq backoff /\ connectTimers' \subseteq running
  BY DEF Connections!AmmcSync
<1>5. ammSocket' = [d \in Decoders |-> IF d \in dropped THEN "none" ELSE ammSocket[d]]
  BY DEF Connections!AmmcSync
<1>6. late' = late \cup closing \cup (dropped \X {"ammc"})
  BY DEF Connections!AmmcSync
<1>7. syncLater' \subseteq Decoders
  <2>1. Connections!Missing(points) \subseteq points
    BY DEF Connections!Missing, Connections!Startable
  <2> QED
    BY <1>1, <2>1 DEF Connections!AmmcSync, Connections!TypeOK
<1> HIDE DEF points, dropped, running
<1>8. late' \subseteq Decoders \X {"ammc", "p3"}
  BY <1>3, <1>6 DEF Connections!TypeOK
<1>9. ASSUME NEW d \in Decoders, NEW backend \in {"ammc", "p3"}, <<d, backend>> \in late'
       PROVE  <<d, backend>> \in late \cup closing \/ (ammSocket[d] # "none" /\ ammSocket'[d] = "none")
  BY <1>3, <1>5, <1>6, <1>9
<1>10. \A d \in Decoders : ammSocket'[d] # "none" => d \in converter' /\ ammSocket'[d] = ammSocket[d]
  BY <1>3, <1>4, <1>5
<1>11. ammSocket' \in [Decoders -> {"none", "opening", "open"}]
  BY <1>5 DEF Connections!TypeOK
<1>12. converter' \subseteq Decoders /\ backoff' \subseteq Decoders /\ connectTimers' \subseteq converter'
  BY <1>1, <1>2, <1>4 DEF Connections!TypeOK
<1>13. \A d \in Decoders : d \in converter' => w[d] = "ammc"
  BY <1>1, <1>2, <1>4
<1> QED
  BY <1>7, <1>8, <1>9, <1>10, <1>11, <1>12, <1>13

(* A sync of the converters keeps the connections as they should be, when what the P3 adapter and the
   statuses did before it (`before`) is right. *)
LEMMA SyncKeeps ==
  ASSUME Connections!TypeOK, Connections!StatusTruthful, SocketsDropped, LateHarmless,
         NEW w \in [Decoders -> Backends], NEW before \in [Decoders -> States],
         NEW closing \in SUBSET (Decoders \X {"ammc", "p3"}), NEW pending,
         Connections!AmmcSync(w, before, closing, pending),
         wish' = w,
         \A d \in Decoders :
           /\ w[d] = "none" => before[d] = "disconnected"
           /\ p3Link'[d] # "none" => w[d] = "p3"
           /\ p3Link'[d] = "open" => wish[d] = "p3" /\ p3Link[d] = "open" /\ before[d] = shown[d]
           /\ w[d] = "p3" /\ before[d] = "connected" => p3Link'[d] = "open"
           /\ w[d] = "ammc" /\ before[d] = "connected" => wish[d] = "ammc" /\ ammSocket[d] = "open"
           /\ w[d] = "ammc" /\ wish[d] = "ammc" => before[d] = shown[d]
           /\ \A backend \in {"ammc", "p3"} :
                <<d, backend>> \in closing => wish[d] = "p3" /\ p3Link'[d] = "none"
  PROVE  Connections!StatusTruthful' /\ SocketsDropped' /\ LinksWanted' /\ LateHarmless'
<1>1. /\ connectTimers' \subseteq converter'
      /\ \A d \in Decoders :
           /\ d \in converter' => w[d] = "ammc"
           /\ ammSocket'[d] # "none" => d \in converter' /\ ammSocket'[d] = ammSocket[d]
           /\ \A backend \in {"ammc", "p3"} :
                <<d, backend>> \in late' =>
                  <<d, backend>> \in late \cup closing \/ (ammSocket[d] # "none" /\ ammSocket'[d] = "none")
  BY SyncLeaves
<1>2. \A d \in Decoders :
        /\ w[d] = "none" => shown'[d] = before[d]
        /\ shown'[d] = "connected" => before[d] = "connected"
        /\ w[d] = "p3" /\ d \notin converter /\ ammSocket[d] = "none" => shown'[d] = before[d]
        /\ w[d] = "ammc" /\ ammSocket'[d] # "none" =>
             d \in converter /\ ammSocket'[d] = ammSocket[d] /\ shown'[d] = before[d]
        /\ w[d] = "ammc" /\ shown'[d] = "connected" => ammSocket'[d] = ammSocket[d]
  BY SyncTells
<1>3. \A d \in Decoders : w[d] \in Backends
  OBVIOUS
<1>4. SocketsDropped' /\ LinksWanted'
  BY <1>1 DEF SocketsDropped, LinksWanted
<1>5. ASSUME NEW d \in Decoders, NEW backend \in {"ammc", "p3"}, <<d, backend>> \in late'
      PROVE  ammSocket'[d] = "none" /\ p3Link'[d] # "open"
  <2>1. CASE <<d, backend>> \in late
    <3>1. ammSocket[d] = "none" /\ p3Link[d] # "open"
      BY <2>1 DEF LateHarmless
    <3> QED
      BY <1>1, <3>1
  <2>2. CASE <<d, backend>> \in closing
    <3>1. wish[d] = "p3" /\ p3Link'[d] = "none"
      BY <2>2
    <3>2. ammSocket[d] = "none"
      BY <3>1 DEF Connections!StatusTruthful
    <3> QED
      BY <1>1, <3>1, <3>2
  <2>3. CASE ammSocket[d] # "none" /\ ammSocket'[d] = "none"
    <3>1. wish[d] # "p3"
      BY <2>3 DEF Connections!StatusTruthful
    <3> QED
      BY <2>3, <3>1
  <2> QED
    BY <1>1, <1>5, <2>1, <2>2, <2>3
<1>6. LateHarmless'
  BY <1>5 DEF LateHarmless
<1>7. ASSUME NEW d \in Decoders
      PROVE  /\ shown'[d] = "connected" => (w[d] = "ammc" /\ ammSocket'[d] = "open")
                                              \/ (w[d] = "p3" /\ p3Link'[d] = "open")
             /\ (ammSocket'[d] = "open" /\ d \in converter') \/ p3Link'[d] = "open"
                   => shown'[d] \in {"connected", "error"}
             /\ w[d] # "ammc" => ammSocket'[d] = "none" /\ d \notin converter' \cup connectTimers'
             /\ w[d] = "none" => shown'[d] = "disconnected"
  <2>1. /\ (ammSocket[d] = "open" /\ d \in converter) \/ p3Link[d] = "open" => shown[d] \in {"connected", "error"}
        /\ wish[d] # "ammc" => ammSocket[d] = "none" /\ d \notin converter
    BY DEF Connections!StatusTruthful
  <2>2. ASSUME shown'[d] = "connected"
        PROVE  (w[d] = "ammc" /\ ammSocket'[d] = "open") \/ (w[d] = "p3" /\ p3Link'[d] = "open")
    BY <1>2, <1>3, <2>2 DEF Backends
  <2>3. ASSUME ammSocket'[d] = "open", d \in converter'
        PROVE  shown'[d] \in {"connected", "error"}
    <3>1. w[d] = "ammc" /\ d \in converter /\ ammSocket[d] = "open" /\ shown'[d] = before[d]
      BY <1>1, <1>2, <2>3
    <3>2. wish[d] = "ammc"
      BY <2>1, <3>1
    <3> QED
      BY <2>1, <3>1, <3>2
  <2>4. ASSUME p3Link'[d] = "open"
        PROVE  shown'[d] \in {"connected", "error"}
    <3>1. w[d] = "p3" /\ wish[d] = "p3" /\ p3Link[d] = "open" /\ before[d] = shown[d]
      BY <2>4
    <3>2. ammSocket[d] = "none" /\ d \notin converter
      BY <2>1, <3>1
    <3> QED
      BY <1>2, <2>1, <3>1, <3>2
  <2> QED
    BY <1>1, <1>2, <2>2, <2>3, <2>4
<1>8. Connections!StatusTruthful'
  BY <1>7 DEF Connections!StatusTruthful
<1> QED
  BY <1>4, <1>6, <1>8

LEMMA ConnectionsConstants == MaxWishes \in Nat /\ MaxUpsets \in Nat
  BY RaceDayBounds

LEMMA ConnectionFlagsTyped ==
  ASSUME Connections!TypeOK, [Connections!Next]_connectionsVars
  PROVE  syncSoon' \in BOOLEAN /\ installed' \in BOOLEAN
<1>1. CASE UNCHANGED connectionsVars
  BY <1>1 DEF connectionsVars, Connections!TypeOK
<1>2. ASSUME Connections!Next PROVE syncSoon' \in BOOLEAN
  <2>1. CASE \E next \in [Decoders -> {"none", "ammc", "p3"}] : Connections!Sync(next)
    BY <2>1 DEF Connections!Sync, Connections!AmmcSync
  <2>2. CASE Connections!SyncSoon
    BY <2>2 DEF Connections!SyncSoon, Connections!AmmcSync
  <2>3. ASSUME NEW d \in Decoders,
               Connections!SyncLater(d) \/ Connections!ConverterExit(d) \/ Connections!ErrorLine(d)
        PROVE  syncSoon' = TRUE
    BY <2>3 DEF Connections!SyncLater, Connections!ConverterExit, Connections!ErrorLine, Connections!ProcessReport
  <2>4. ASSUME NEW d \in Decoders,
               \/ Connections!BackoffEnd(d) \/ Connections!ConnectTimer(d) \/ Connections!SocketOpen(d)
               \/ Connections!SocketClose(d) \/ Connections!P3Identified(d) \/ Connections!P3Lost(d)
               \/ Connections!P3Reconnect(d) \/ \E backend \in {"ammc", "p3"} : Connections!LateClose(d, backend)
        PROVE  syncSoon' = syncSoon
    BY <2>4 DEF Connections!BackoffEnd, Connections!ConnectTimer, Connections!SocketOpen, Connections!SocketClose,
                Connections!P3Identified, Connections!P3Lost, Connections!P3Reconnect, Connections!LateClose,
                Connections!adapterVars
  <2> QED
    BY <1>2, <2>1, <2>2, <2>3, <2>4 DEF Connections!Next, Connections!TypeOK
<1>3. ASSUME Connections!Next PROVE installed' = installed
  BY <1>3 DEF Connections!Next, Connections!Sync, Connections!SyncSoon, Connections!SyncLater, Connections!BackoffEnd,
              Connections!ConverterExit, Connections!ErrorLine, Connections!ConnectTimer, Connections!SocketOpen,
              Connections!SocketClose, Connections!P3Identified, Connections!P3Lost, Connections!P3Reconnect,
              Connections!LateClose
<1> QED
  BY <1>1, <1>2, <1>3 DEF Connections!TypeOK

(* The operator changes what is wanted: statuses, the P3 adapter and the AMMC adapter follow. *)
LEMMA SyncInductive ==
  ASSUME ConnectionsInv, syncSoon' \in BOOLEAN, installed' \in BOOLEAN,
         NEW next \in [Decoders -> Backends], Connections!Sync(next)
  PROVE  ConnectionsInv'
<1> DEFINE opened == Connections!Wanted(next, "p3") \ Connections!Wanted(wish, "p3")
           ended == {d \in Connections!Wanted(wish, "p3") \ Connections!Wanted(next, "p3") :
                       p3Link[d] \in {"opening", "open"}}
           statuses == Connections!Statuses(next)
           closed1 == Connections!Report(statuses, next, ended, "disconnected")
           before == Connections!Report(closed1, next, opened, "connecting")
<1>1. /\ wish' = next /\ wishes < MaxWishes /\ wishes' = wishes + 1 /\ upsets' = upsets
      /\ Connections!P3Sync(next)
      /\ Connections!AmmcSync(next, before, ended \X {"p3"}, syncSoon)
  BY DEF Connections!Sync
<1>2. Connections!TypeOK /\ Connections!StatusTruthful /\ SocketsDropped /\ LinksWanted /\ LateHarmless
  BY DEF ConnectionsInv
<1>3. wish \in [Decoders -> Backends] /\ shown \in [Decoders -> States]
      /\ p3Link \in [Decoders -> {"none", "opening", "open", "waiting"}]
  BY <1>2 DEF Connections!TypeOK, Backends, States
<1>4. \A d \in Decoders :
        /\ d \in opened <=> next[d] = "p3" /\ wish[d] # "p3"
        /\ d \in ended <=> wish[d] = "p3" /\ next[d] # "p3" /\ p3Link[d] \in {"opening", "open"}
  BY DEF Connections!Wanted
<1>5. \A d \in Decoders :
        statuses[d] = IF wish[d] = "none" /\ next[d] # "none" THEN "connecting"
                      ELSE IF wish[d] # "none" /\ next[d] = "none" THEN "disconnected" ELSE shown[d]
  BY DEF Connections!Statuses
<1>6. statuses \in [Decoders -> States]
  BY <1>3 DEF Connections!Statuses, States
<1>7. ended \in SUBSET Decoders
  BY DEF Connections!Wanted
<1> HIDE DEF opened, ended, statuses
<1>8. closed1 \in [Decoders -> States]
  BY <1>6, ReportTyped DEF States
<1>9. \A d \in Decoders : closed1[d] = IF d \in ended /\ next[d] # "none" THEN "disconnected" ELSE statuses[d]
  BY ReportTells
<1> HIDE DEF closed1
<1>10. before \in [Decoders -> States]
  BY <1>8, ReportTyped DEF States
<1>11. \A d \in Decoders : before[d] = IF d \in opened /\ next[d] # "none" THEN "connecting" ELSE closed1[d]
  BY ReportTells
<1> HIDE DEF before
<1>12. \A d \in Decoders :
         p3Link'[d] = IF next[d] # "p3" THEN "none" ELSE IF wish[d] # "p3" THEN "opening" ELSE p3Link[d]
  BY DEF Connections!Sync, Connections!P3Sync
<1>13. p3Link' \in [Decoders -> {"none", "opening", "open", "waiting"}]
  <2>1. p3Link' = [d \in Decoders |-> p3Link'[d]]
    BY <1>1 DEF Connections!P3Sync
  <2> QED
    BY <1>3, <1>12, <2>1
<1> DEFINE closing == ended \X {"p3"}
<1>14. closing \in SUBSET (Decoders \X {"ammc", "p3"})
  BY <1>7
<1>15. \A d \in Decoders, backend \in {"ammc", "p3"} : <<d, backend>> \in closing <=> d \in ended /\ backend = "p3"
  OBVIOUS
<1>16. Connections!AmmcSync(next, before, closing, syncSoon)
  BY <1>1
<1> HIDE DEF closing
<1>17. ASSUME NEW d \in Decoders
       PROVE  /\ next[d] = "none" => before[d] = "disconnected"
              /\ p3Link'[d] # "none" => next[d] = "p3"
              /\ p3Link'[d] = "open" => wish[d] = "p3" /\ p3Link[d] = "open" /\ before[d] = shown[d]
              /\ next[d] = "p3" /\ before[d] = "connected" => p3Link'[d] = "open"
              /\ next[d] = "ammc" /\ before[d] = "connected" => wish[d] = "ammc" /\ ammSocket[d] = "open"
              /\ next[d] = "ammc" /\ wish[d] = "ammc" => before[d] = shown[d]
              /\ \A backend \in {"ammc", "p3"} :
                   <<d, backend>> \in closing => wish[d] = "p3" /\ p3Link'[d] = "none"
  <2>1. /\ shown[d] = "connected" => (wish[d] = "ammc" /\ ammSocket[d] = "open")
                                       \/ (wish[d] = "p3" /\ p3Link[d] = "open")
        /\ wish[d] = "none" => shown[d] = "disconnected"
    BY <1>2 DEF Connections!StatusTruthful
  <2>2. \A backend \in {"ammc", "p3"} :
          <<d, backend>> \in closing => wish[d] = "p3" /\ p3Link'[d] = "none"
    BY <1>4, <1>12, <1>15
  <2>3. next[d] \in Backends /\ wish[d] \in Backends
    BY <1>3
  <2> QED
    BY <1>4, <1>5, <1>9, <1>11, <1>12, <2>1, <2>2, <2>3 DEF Backends
<1>18. Connections!StatusTruthful' /\ SocketsDropped' /\ LinksWanted' /\ LateHarmless'
  BY <1>1, <1>2, <1>10, <1>14, <1>16, <1>17, SyncKeeps
<1>19. /\ converter' \subseteq Decoders /\ backoff' \subseteq Decoders /\ connectTimers' \subseteq converter'
       /\ ammSocket' \in [Decoders -> {"none", "opening", "open"}]
       /\ late' \subseteq Decoders \X {"ammc", "p3"} /\ syncLater' \subseteq Decoders
  BY <1>2, <1>14, <1>16, SyncLeaves
<1>20. shown' \in [Decoders -> States]
  BY <1>10, <1>16, SyncTyped
<1>21. wishes' \in 0 .. MaxWishes /\ upsets' \in 0 .. MaxUpsets
  BY <1>1, <1>2, ConnectionsConstants DEF Connections!TypeOK
<1>22. connectTimers' \subseteq Decoders /\ wish' \in [Decoders -> Backends]
  BY <1>1, <1>19
<1>23. Connections!TypeOK'
  BY <1>13, <1>19, <1>20, <1>21, <1>22 DEF Connections!TypeOK, Backends, States
<1> QED
  BY <1>18, <1>23 DEF ConnectionsInv

LEMMA SyncSoonInductive ==
  ASSUME ConnectionsInv, syncSoon' \in BOOLEAN, installed' \in BOOLEAN, Connections!SyncSoon
  PROVE  ConnectionsInv'
<1>1. Connections!AmmcSync(wish, shown, {}, FALSE)
  BY DEF Connections!SyncSoon
<1>2. wish' = wish /\ p3Link' = p3Link /\ wishes' = wishes /\ upsets' = upsets
  BY DEF Connections!SyncSoon
<1>3. Connections!TypeOK /\ Connections!StatusTruthful /\ SocketsDropped /\ LinksWanted /\ LateHarmless
  BY DEF ConnectionsInv
<1>4. wish \in [Decoders -> Backends] /\ shown \in [Decoders -> States]
      /\ p3Link \in [Decoders -> {"none", "opening", "open", "waiting"}]
      /\ wishes \in 0 .. MaxWishes /\ upsets \in 0 .. MaxUpsets
  BY <1>3 DEF Connections!TypeOK, Backends, States
<1>5. {} \in SUBSET (Decoders \X {"ammc", "p3"})
  OBVIOUS
<1>6. ASSUME NEW d \in Decoders
      PROVE  /\ wish[d] = "none" => shown[d] = "disconnected"
             /\ p3Link'[d] # "none" => wish[d] = "p3"
             /\ p3Link'[d] = "open" => wish[d] = "p3" /\ p3Link[d] = "open" /\ shown[d] = shown[d]
             /\ wish[d] = "p3" /\ shown[d] = "connected" => p3Link'[d] = "open"
             /\ wish[d] = "ammc" /\ shown[d] = "connected" => wish[d] = "ammc" /\ ammSocket[d] = "open"
             /\ wish[d] = "ammc" /\ wish[d] = "ammc" => shown[d] = shown[d]
             /\ \A backend \in {"ammc", "p3"} :
                  <<d, backend>> \in {} => wish[d] = "p3" /\ p3Link'[d] = "none"
  BY <1>2, <1>3 DEF Connections!StatusTruthful, LinksWanted
<1>7. Connections!StatusTruthful' /\ SocketsDropped' /\ LinksWanted' /\ LateHarmless'
  BY <1>1, <1>2, <1>3, <1>4, <1>5, <1>6, SyncKeeps
<1>8. /\ converter' \subseteq Decoders /\ backoff' \subseteq Decoders /\ connectTimers' \subseteq converter'
      /\ ammSocket' \in [Decoders -> {"none", "opening", "open"}]
      /\ late' \subseteq Decoders \X {"ammc", "p3"} /\ syncLater' \subseteq Decoders
  BY <1>1, <1>3, <1>4, <1>5, SyncLeaves
<1>9. shown' \in [Decoders -> States]
  BY <1>1, <1>4, SyncTyped
<1>10. connectTimers' \subseteq Decoders
  BY <1>8
<1>11. Connections!TypeOK'
  BY <1>2, <1>4, <1>8, <1>9, <1>10 DEF Connections!TypeOK, Backends, States
<1> QED
  BY <1>7, <1>11 DEF ConnectionsInv

(* What the other steps do to the decoder they are about, and that they leave the other decoders. *)
LEMMA ProcessStepsInductive ==
  ASSUME ConnectionsInv, syncSoon' \in BOOLEAN, installed' \in BOOLEAN, NEW d \in Decoders,
         \/ Connections!SyncLater(d) \/ Connections!BackoffEnd(d)
         \/ Connections!ConverterExit(d) \/ Connections!ErrorLine(d)
  PROVE  ConnectionsInv'
<1>1. Connections!TypeOK /\ Connections!StatusTruthful /\ SocketsDropped /\ LinksWanted /\ LateHarmless
  BY DEF ConnectionsInv
<1>2. wish' = wish /\ ammSocket' = ammSocket /\ p3Link' = p3Link /\ late' = late /\ wishes' = wishes
      /\ connectTimers' = connectTimers
  BY DEF Connections!SyncLater, Connections!BackoffEnd, Connections!ConverterExit, Connections!ErrorLine,
         Connections!ProcessReport
<1>3. converter' \subseteq converter /\ backoff' \subseteq Decoders /\ syncLater' \subseteq Decoders
  BY <1>1 DEF Connections!SyncLater, Connections!BackoffEnd, Connections!ConverterExit, Connections!ErrorLine,
              Connections!ProcessReport, Connections!TypeOK
<1>4. upsets' \in 0 .. MaxUpsets
  BY <1>1, ConnectionsConstants
     DEF Connections!SyncLater, Connections!BackoffEnd, Connections!ConverterExit, Connections!ErrorLine,
         Connections!ProcessReport, Connections!TypeOK, Connections!Upset
<1>5. shown \in [Decoders -> States]
  BY <1>1 DEF Connections!TypeOK, States
<1>6. shown' = shown \/ (d \in converter /\ \E st \in {"error", "disconnected"} :
                             /\ shown' = Connections!Report(shown, wish, {d}, st)
                             /\ st = "disconnected" => d \notin converter')
  BY DEF Connections!SyncLater, Connections!BackoffEnd, Connections!ConverterExit, Connections!ErrorLine,
         Connections!ProcessReport
<1>7. /\ shown' \in [Decoders -> States]
      /\ \A e \in Decoders :
           shown'[e] = shown[e]
             \/ (e \in converter /\ wish[e] # "none"
                   /\ (shown'[e] = "error" \/ (shown'[e] = "disconnected" /\ e \notin converter')))
  <2>1. CASE shown' = shown
    BY <1>5, <2>1
  <2>2. ASSUME NEW st \in {"error", "disconnected"}, d \in converter,
               shown' = Connections!Report(shown, wish, {d}, st),
               st = "disconnected" => d \notin converter'
        PROVE  <1>7
    <3>1. shown' \in [Decoders -> States]
      BY <1>5, <2>2, ReportTyped DEF States
    <3>2. \A e \in Decoders : shown'[e] = IF e \in {d} /\ wish[e] # "none" THEN st ELSE shown[e]
      BY <2>2, ReportTells
    <3> QED
      BY <2>2, <3>1, <3>2
  <2> QED
    BY <1>6, <2>1, <2>2
<1>8. SocketsDropped'
  <2>1. \A e \in Decoders : e \in converter => e \in converter' \/ (e \in backoff' /\ syncSoon')
    BY DEF Connections!SyncLater, Connections!BackoffEnd, Connections!ConverterExit, Connections!ErrorLine,
           Connections!ProcessReport
  <2>2. \A e \in Decoders : e \in backoff /\ syncSoon => e \in backoff' /\ syncSoon'
    BY DEF Connections!SyncLater, Connections!BackoffEnd, Connections!ConverterExit, Connections!ErrorLine,
           Connections!ProcessReport
  <2> QED
    BY <1>1, <1>2, <2>1, <2>2 DEF SocketsDropped
<1>9. LinksWanted' /\ LateHarmless'
  BY <1>1, <1>2 DEF LinksWanted, LateHarmless
<1>10. Connections!StatusTruthful'
  <2> SUFFICES ASSUME NEW e \in Decoders
               PROVE  /\ shown'[e] = "connected" => (wish[e] = "ammc" /\ ammSocket[e] = "open")
                                                      \/ (wish[e] = "p3" /\ p3Link[e] = "open")
                      /\ (ammSocket[e] = "open" /\ e \in converter') \/ p3Link[e] = "open"
                           => shown'[e] \in {"connected", "error"}
                      /\ wish[e] # "ammc" => ammSocket[e] = "none" /\ e \notin converter' \cup connectTimers
                      /\ wish[e] = "none" => shown'[e] = "disconnected"
    BY <1>2 DEF Connections!StatusTruthful
  <2>1. /\ shown[e] = "connected" => (wish[e] = "ammc" /\ ammSocket[e] = "open")
                                       \/ (wish[e] = "p3" /\ p3Link[e] = "open")
        /\ (ammSocket[e] = "open" /\ e \in converter) \/ p3Link[e] = "open"
             => shown[e] \in {"connected", "error"}
        /\ wish[e] # "ammc" => ammSocket[e] = "none" /\ e \notin converter \cup connectTimers
        /\ wish[e] = "none" => shown[e] = "disconnected"
        /\ p3Link[e] # "none" => wish[e] = "p3"
    BY <1>1 DEF Connections!StatusTruthful, LinksWanted
  <2> QED
    BY <1>3, <1>7, <2>1
<1>11. Connections!TypeOK'
  <2>1. converter' \subseteq Decoders
    BY <1>1, <1>3 DEF Connections!TypeOK
  <2> QED
    BY <1>1, <1>2, <1>3, <1>4, <1>7, <2>1 DEF Connections!TypeOK, States
<1> QED
  BY <1>8, <1>9, <1>10, <1>11 DEF ConnectionsInv

LEMMA SocketStepsInductive ==
  ASSUME ConnectionsInv, syncSoon' \in BOOLEAN, installed' \in BOOLEAN, NEW d \in Decoders,
         \/ Connections!ConnectTimer(d) \/ Connections!SocketOpen(d) \/ Connections!SocketClose(d)
         \/ \E backend \in {"ammc", "p3"} : Connections!LateClose(d, backend)
         \/ Connections!P3Identified(d) \/ Connections!P3Lost(d) \/ Connections!P3Reconnect(d)
  PROVE  ConnectionsInv'
<1>1. Connections!TypeOK /\ Connections!StatusTruthful /\ SocketsDropped /\ LinksWanted /\ LateHarmless
  BY DEF ConnectionsInv
<1> USE DEF Connections!ConnectTimer, Connections!SocketOpen, Connections!SocketClose, Connections!LateClose,
            Connections!P3Identified, Connections!P3Lost, Connections!P3Reconnect
<1>2. wish' = wish /\ wishes' = wishes /\ converter' = converter /\ backoff' = backoff /\ syncSoon' = syncSoon
  BY DEF Connections!adapterVars
<1>3. /\ connectTimers' \subseteq connectTimers /\ syncLater' \subseteq Decoders
      /\ late' \subseteq late
  BY <1>1 DEF Connections!adapterVars, Connections!TypeOK
<1>4. upsets' \in 0 .. MaxUpsets
  BY <1>1, ConnectionsConstants DEF Connections!TypeOK, Connections!Upset
<1>5. ammSocket' \in [Decoders -> {"none", "opening", "open"}]
  BY <1>1 DEF Connections!TypeOK, Connections!adapterVars
<1>6. p3Link' \in [Decoders -> {"none", "opening", "open", "waiting"}]
  BY <1>1 DEF Connections!TypeOK
<1>7. shown \in [Decoders -> States]
  BY <1>1 DEF Connections!TypeOK, States
<1>8. shown' = shown \/ \E st \in States : shown' = Connections!Report(shown, wish, {d}, st)
  BY DEF States
<1>9. shown' \in [Decoders -> States]
  BY <1>7, <1>8, ReportTyped
<1>10. \A e \in Decoders : e # d => /\ shown'[e] = shown[e]
                                    /\ ammSocket'[e] = ammSocket[e] /\ p3Link'[e] = p3Link[e]
  <2>1. \A e \in Decoders : e # d => ammSocket'[e] = ammSocket[e]
    BY <1>1 DEF Connections!TypeOK, Connections!adapterVars
  <2>2. \A e \in Decoders : e # d => p3Link'[e] = p3Link[e]
    BY <1>1 DEF Connections!TypeOK
  <2>3. \A e \in Decoders : e # d => shown'[e] = shown[e]
    BY <1>8, ReportTells
  <2> QED
    BY <2>1, <2>2, <2>3
<1>11. /\ shown[d] = "connected" => (wish[d] = "ammc" /\ ammSocket[d] = "open")
                                      \/ (wish[d] = "p3" /\ p3Link[d] = "open")
       /\ (ammSocket[d] = "open" /\ d \in converter) \/ p3Link[d] = "open"
            => shown[d] \in {"connected", "error"}
       /\ wish[d] # "ammc" => ammSocket[d] = "none" /\ d \notin converter \cup connectTimers
       /\ wish[d] = "none" => shown[d] = "disconnected"
       /\ p3Link[d] # "none" => wish[d] = "p3"
       /\ ammSocket[d] # "none" => d \in converter \/ (d \in backoff /\ syncSoon)
       /\ \A backend \in {"ammc", "p3"} : <<d, backend>> \in late => ammSocket[d] = "none" /\ p3Link[d] # "open"
  BY <1>1 DEF Connections!StatusTruthful, LinksWanted, SocketsDropped, LateHarmless
<1>12. \A st : Connections!Report(shown, wish, {d}, st)[d] = IF wish[d] # "none" THEN st ELSE shown[d]
  BY ReportTells
<1>13. wish[d] \in {"none", "ammc", "p3"} /\ shown[d] \in States /\ d \in DOMAIN ammSocket /\ d \in DOMAIN p3Link
  BY <1>1, <1>7 DEF Connections!TypeOK
(* The decoder the step is about, case by case. *)
<1> DEFINE Right ==
      /\ shown'[d] = "connected" => (wish[d] = "ammc" /\ ammSocket'[d] = "open")
                                      \/ (wish[d] = "p3" /\ p3Link'[d] = "open")
      /\ (ammSocket'[d] = "open" /\ d \in converter) \/ p3Link'[d] = "open"
           => shown'[d] \in {"connected", "error"}
      /\ wish[d] # "ammc" => ammSocket'[d] = "none"
      /\ wish[d] = "none" => shown'[d] = "disconnected"
      /\ p3Link'[d] # "none" => wish[d] = "p3"
      /\ ammSocket'[d] # "none" => d \in converter \/ (d \in backoff /\ syncSoon)
      /\ \A backend \in {"ammc", "p3"} : <<d, backend>> \in late' => ammSocket'[d] = "none" /\ p3Link'[d] # "open"
<1>14. Right
  <2>1. CASE Connections!ConnectTimer(d)
    <3>1. CASE d \in converter /\ ammSocket[d] = "none"
      <4>1. ammSocket'[d] = "opening" /\ shown' = Connections!Report(shown, wish, {d}, "connecting")
            /\ p3Link' = p3Link /\ late' = late
        BY <1>13, <2>1, <3>1
      <4>2. \A backend \in {"ammc", "p3"} : <<d, backend>> \notin late
        BY <2>1 DEF Connections!Settled
      <4>3. wish[d] = "ammc" /\ shown'[d] = "connecting" /\ p3Link[d] = "none"
        BY <1>11, <1>12, <1>13, <3>1, <4>1
      <4> QED
        BY <1>11, <3>1, <4>1, <4>2, <4>3
    <3>2. CASE ~(d \in converter /\ ammSocket[d] = "none")
      <4>1. ammSocket' = ammSocket /\ shown' = shown /\ p3Link' = p3Link /\ late' = late
        BY <2>1, <3>2
      <4> QED
        BY <1>11, <4>1
    <3> QED
      BY <3>1, <3>2
  <2>2. CASE Connections!SocketOpen(d)
    <3>1. ammSocket[d] = "opening" /\ d \in converter /\ ammSocket'[d] = "open"
          /\ shown' = Connections!Report(shown, wish, {d}, "connected") /\ p3Link' = p3Link /\ late' = late
      BY <1>13, <2>2
    <3>2. wish[d] = "ammc" /\ shown'[d] = "connected" /\ p3Link[d] = "none"
      BY <1>11, <1>12, <1>13, <3>1
    <3> QED
      BY <1>11, <3>1, <3>2
  <2>3. CASE Connections!SocketClose(d)
    <3>1. ammSocket[d] # "none" /\ ammSocket'[d] = "none"
          /\ shown' = Connections!Report(shown, wish, {d}, "disconnected") /\ p3Link' = p3Link /\ late' = late
      BY <1>13, <2>3
    <3>2. wish[d] = "ammc" /\ shown'[d] = "disconnected" /\ p3Link[d] = "none"
      BY <1>11, <1>12, <1>13, <3>1
    <3> QED
      BY <1>11, <3>1, <3>2
  <2>4. ASSUME NEW backend \in {"ammc", "p3"}, Connections!LateClose(d, backend)
        PROVE  Right
    <3>1. ammSocket[d] = "none" /\ p3Link[d] # "open" /\ p3Link' = p3Link /\ late' \subseteq late
          /\ shown' = Connections!Report(shown, wish, {d}, "disconnected")
      BY <1>3, <1>11, <2>4
    <3>2. ammSocket'[d] = "none"
      BY <1>13, <2>4, <3>1
    <3>3. shown'[d] = IF wish[d] # "none" THEN "disconnected" ELSE shown[d]
      BY <1>12, <3>1
    <3> QED
      BY <1>11, <3>1, <3>2, <3>3
  <2>5. CASE Connections!P3Identified(d)
    <3>1. p3Link[d] = "opening" /\ p3Link'[d] = "open" /\ ammSocket' = ammSocket /\ late' = late
          /\ shown' = Connections!Report(shown, wish, {d}, "connected")
      BY <1>13, <2>5 DEF Connections!adapterVars
    <3>2. wish[d] = "p3" /\ shown'[d] = "connected" /\ ammSocket[d] = "none"
      BY <1>11, <1>12, <3>1
    <3>3. \A backend \in {"ammc", "p3"} : <<d, backend>> \notin late
      BY <2>5 DEF Connections!Settled
    <3> QED
      BY <1>11, <3>1, <3>2, <3>3
  <2>6. CASE Connections!P3Lost(d)
    <3>1. p3Link[d] # "none" /\ p3Link'[d] = "waiting" /\ ammSocket' = ammSocket /\ late' = late
          /\ shown' = Connections!Report(shown, wish, {d}, "disconnected")
      BY <1>13, <2>6 DEF Connections!adapterVars
    <3>2. wish[d] = "p3" /\ shown'[d] = "disconnected" /\ ammSocket[d] = "none"
      BY <1>11, <1>12, <3>1
    <3> QED
      BY <1>11, <3>1, <3>2
  <2>7. CASE Connections!P3Reconnect(d)
    <3>1. p3Link[d] = "waiting" /\ p3Link'[d] = "opening" /\ ammSocket' = ammSocket /\ late' = late /\ shown' = shown
      BY <1>13, <2>7 DEF Connections!adapterVars
    <3> QED
      BY <1>11, <3>1
  <2> QED
    BY <2>1, <2>2, <2>3, <2>4, <2>5, <2>6, <2>7
<1>15. SocketsDropped' /\ LinksWanted' /\ LateHarmless'
  <2>1. SocketsDropped'
    BY <1>1, <1>2, <1>10, <1>14 DEF SocketsDropped
  <2>2. LinksWanted'
    BY <1>1, <1>2, <1>10, <1>14 DEF LinksWanted
  <2>3. LateHarmless'
    <3> SUFFICES ASSUME NEW e \in Decoders, NEW backend \in {"ammc", "p3"}, <<e, backend>> \in late'
                 PROVE  ammSocket'[e] = "none" /\ p3Link'[e] # "open"
      BY DEF LateHarmless
    <3>1. CASE e = d
      BY <1>14, <3>1
    <3>2. CASE e # d
      BY <1>1, <1>3, <1>10, <3>2 DEF LateHarmless
    <3> QED
      BY <3>1, <3>2
  <2> QED
    BY <2>1, <2>2, <2>3
<1>16. Connections!StatusTruthful'
  <2> SUFFICES ASSUME NEW e \in Decoders
               PROVE  /\ shown'[e] = "connected" => (wish[e] = "ammc" /\ ammSocket'[e] = "open")
                                                      \/ (wish[e] = "p3" /\ p3Link'[e] = "open")
                      /\ (ammSocket'[e] = "open" /\ e \in converter) \/ p3Link'[e] = "open"
                           => shown'[e] \in {"connected", "error"}
                      /\ wish[e] # "ammc" => ammSocket'[e] = "none" /\ e \notin converter \cup connectTimers'
                      /\ wish[e] = "none" => shown'[e] = "disconnected"
    BY <1>2 DEF Connections!StatusTruthful
  <2>1. CASE e = d
    BY <1>3, <1>11, <1>14, <2>1
  <2>2. CASE e # d
    BY <1>1, <1>3, <1>10, <2>2 DEF Connections!StatusTruthful
  <2> QED
    BY <2>1, <2>2
<1>17. Connections!TypeOK'
  <2>1. connectTimers' \subseteq Decoders /\ late' \subseteq Decoders \X {"ammc", "p3"}
    BY <1>1, <1>3 DEF Connections!TypeOK
  <2> QED
    BY <1>1, <1>2, <1>3, <1>4, <1>5, <1>6, <1>9, <2>1 DEF Connections!TypeOK, States
<1> QED
  BY <1>15, <1>16, <1>17 DEF ConnectionsInv

LEMMA ConnectionsInitially == Connections!Init => ConnectionsInv
<1> SUFFICES ASSUME Connections!Init PROVE ConnectionsInv
  OBVIOUS
<1>1. Connections!TypeOK
  <2>1. /\ wish \in [Decoders -> {"none", "ammc", "p3"}]
        /\ shown \in [Decoders -> {"disconnected", "connecting", "connected", "error"}]
        /\ ammSocket \in [Decoders -> {"none", "opening", "open"}]
        /\ p3Link \in [Decoders -> {"none", "opening", "open", "waiting"}]
    BY DEF Connections!Init
  <2>2. wishes \in 0 .. MaxWishes /\ upsets \in 0 .. MaxUpsets
    BY ConnectionsConstants DEF Connections!Init
  <2>3. syncSoon \in BOOLEAN /\ installed \in BOOLEAN
    BY DEF Connections!Init
  <2> QED
    BY <2>1, <2>2, <2>3 DEF Connections!Init, Connections!TypeOK
<1>2. Connections!StatusTruthful
  BY DEF Connections!Init, Connections!StatusTruthful
<1>3. SocketsDropped /\ LinksWanted /\ LateHarmless
  BY DEF Connections!Init, SocketsDropped, LinksWanted, LateHarmless
<1> QED
  BY <1>1, <1>2, <1>3 DEF ConnectionsInv

LEMMA ConnectionsInductive ==
  ASSUME ConnectionsInv, [Connections!Next]_connectionsVars
  PROVE  ConnectionsInv'
<1>0. syncSoon' \in BOOLEAN /\ installed' \in BOOLEAN
  BY ConnectionFlagsTyped DEF ConnectionsInv
<1>1. CASE UNCHANGED connectionsVars
  BY <1>1 DEF connectionsVars, ConnectionsInv, Connections!TypeOK, Connections!StatusTruthful, SocketsDropped,
              LinksWanted, LateHarmless
<1>2. CASE Connections!Next
  <2>1. CASE \E next \in [Decoders -> {"none", "ammc", "p3"}] : Connections!Sync(next)
    BY <1>0, <2>1, SyncInductive DEF Backends
  <2>2. CASE Connections!SyncSoon
    BY <1>0, <2>2, SyncSoonInductive
  <2>3. ASSUME NEW d \in Decoders,
               \/ Connections!SyncLater(d) \/ Connections!BackoffEnd(d)
               \/ Connections!ConverterExit(d) \/ Connections!ErrorLine(d)
        PROVE  ConnectionsInv'
    BY <1>0, <2>3, ProcessStepsInductive
  <2>4. ASSUME NEW d \in Decoders,
               \/ Connections!ConnectTimer(d) \/ Connections!SocketOpen(d) \/ Connections!SocketClose(d)
               \/ \E backend \in {"ammc", "p3"} : Connections!LateClose(d, backend)
               \/ Connections!P3Identified(d) \/ Connections!P3Lost(d) \/ Connections!P3Reconnect(d)
        PROVE  ConnectionsInv'
    BY <1>0, <2>4, SocketStepsInductive
  <2> QED
    BY <1>2, <2>1, <2>2, <2>3, <2>4 DEF Connections!Next
<1> QED
  BY <1>1, <1>2
-----------------------------------------------------------------------------
(* Numbers: a set of naturals has a least element, *)
LEMMA LeastExists ==
  ASSUME NEW S \in SUBSET Nat, S # {}
  PROVE  \E x \in S : \A y \in S : x <= y
<1>1. PICK x \in S : \A y \in S : <<y, x>> \notin OpToRel(<, Nat)
  BY NatLessThanWellFounded, WFMin
<1>2. \A y \in S : ~(y < x)
  BY <1>1 DEF OpToRel
<1> QED
  BY <1>2

(* a bounded one a greatest, *)
LEMMA GreatestExists ==
  ASSUME NEW S \in SUBSET Nat, S # {}, NEW n \in Nat, \A x \in S : x <= n
  PROVE  \E x \in S : \A y \in S : y <= x
<1> DEFINE D == {d \in Nat : \E x \in S : d = n - x}
<1>1. PICK y \in S : TRUE
  OBVIOUS
<1>2. n - y \in D
  BY <1>1
<1>3. PICK d \in D : \A e \in D : d <= e
  BY <1>2, LeastExists
<1>4. PICK x \in S : d = n - x
  BY <1>3
<1>5. \A z \in S : n - z \in D
  OBVIOUS
<1> QED
  BY <1>3, <1>4, <1>5

(* and pages of p rows, as many as c rows need, have a page for each row. *)
LEMMA Multiples ==
  ASSUME NEW a \in Int, NEW b \in Int, NEW p \in Nat, a <= b
  PROVE  a * p <= b * p
  BY SMT

LEMMA Quotient ==
  ASSUME NEW a \in Nat, NEW p \in Nat \ {0}
  PROVE  a \div p \in Nat /\ (a \div p) * p <= a /\ a < (a \div p) * p + p
  BY SMT

LEMMA PageOf ==
  ASSUME NEW c \in Nat, NEW k \in 1 .. c, NEW p \in Nat \ {0}
  PROVE  \E i \in 1 .. ((c + p - 1) \div p) : k > (i - 1) * p /\ k <= i * p
<1> DEFINE i == (k + p - 1) \div p
           n == (c + p - 1) \div p
<1>1. i \in Nat /\ i * p <= k + p - 1 /\ k + p - 1 < i * p + p
  BY Quotient
<1>2. n \in Nat /\ n * p <= c + p - 1 /\ c + p - 1 < n * p + p
  BY Quotient
<1> HIDE DEF i, n
<1>3. (i - 1) * p = i * p - p
  BY <1>1
<1>4. i # 0
  BY <1>1
<1>5. i <= n
  <2> SUFFICES ASSUME n + 1 <= i PROVE FALSE
    BY <1>1, <1>2
  <2>1. (n + 1) * p <= i * p
    BY <1>1, <1>2, Multiples
  <2>2. (n + 1) * p = n * p + p
    BY <1>2
  <2>3. n * p \in Int /\ i * p \in Int
    BY <1>1, <1>2
  <2> QED
    BY <1>1, <1>2, <2>1, <2>2, <2>3
<1>6. i * p \in Int /\ k > (i - 1) * p /\ k <= i * p
  BY <1>1, <1>3
<1> QED
  BY <1>1, <1>2, <1>4, <1>5, <1>6 DEF i, n

-----------------------------------------------------------------------------
(* The feed of passings.  On a standing connection the messages on the wire continue what the feed has,
   in the order of the seqs, so that it never takes a row for one it has read. *)
Standing == subscribed /\ Feed!OnWire("deleted") = {}

(* The passings on their way with message i of wire w. *)
Sent(w, i) == IF w[i].type = "passings" THEN w[i].rows ELSE {}

StoreBounded ==
  /\ IsFiniteSet(table) /\ \A r \in table : r.seq <= lastSeq
  /\ lastSent <= lastSeq
  /\ key # NoKey => key.since <= lastSeq

FreshSocket == ws = "connecting" => items = {}

WireAscends ==
  Standing =>
    /\ \A i, j \in 1 .. Len(feedWire) : i < j => \A r \in Sent(feedWire, i), s \in Sent(feedWire, j) : r.seq < s.seq
    /\ \A i \in 1 .. Len(feedWire) : \A r \in items, s \in Sent(feedWire, i) : r.seq < s.seq

WireComplete ==
  Standing =>
    /\ \A r : r \in items \/ (\E i \in 1 .. Len(feedWire) : r \in Sent(feedWire, i)) <=> r \in Feed!Selected(table, key)
    /\ feedLive \/ \E i \in 1 .. Len(feedWire) : feedWire[i].type = "live"

Told == feedLive => feedShown = [items |-> items, live |-> TRUE]

FeedInv == Feed!TypeOK /\ StoreBounded /\ FreshSocket /\ WireAscends /\ WireComplete /\ Told

Store == INSTANCE PassingStoreProofs

LEMMA FeedConstants ==
  /\ DecoderOf \in [Passings -> Decoders] /\ Batches \subseteq Seq(Passings) /\ StreamPage \in Nat \ {0}
  /\ MaxUploads \in Nat /\ MaxConfigs \in Nat /\ MaxFaults \in Nat
  BY RaceDayAssumption, RaceDayBounds

LEMMA SameCardinality ==
  ASSUME NEW S
  PROVE  Feed!Cardinality(S) = Cardinality(S) /\ Store!Cardinality(S) = Cardinality(S)
  BY DEF Feed!Cardinality, Cardinality, Store!Cardinality

LEMMA SameIsFinite ==
  ASSUME NEW S
  PROVE  Store!IsFiniteSet(S) <=> IsFiniteSet(S)
  BY DEF Store!IsFiniteSet, IsFiniteSet

(* What an insert adds: finitely many rows, with new seqs up to the new lastSeq. *)
LEMMA InsertAdds ==
  ASSUME Feed!StoreTypeOK, NEW batch \in Batches, Feed!Insert(batch)
  PROVE  /\ table' = table \cup Feed!NewRows(batch) /\ lastSeq' \in Nat /\ lastSeq <= lastSeq'
         /\ Feed!NewRows(batch) \subseteq Feed!Row /\ IsFiniteSet(Feed!NewRows(batch))
         /\ \A r \in Feed!NewRows(batch) : r.seq > lastSeq /\ r.seq <= lastSeq'
<1>1. batch \in Seq(Passings)
  BY FeedConstants
<1>2. Feed!Fresh(batch) = Store!Fresh(batch)
  BY DEF Feed!Fresh, Store!Fresh, Feed!Stored, Store!Stored
<1>3. Feed!NewRows(batch) = Store!NewRows(batch)
  BY <1>2, SameCardinality DEF Feed!NewRows, Store!NewRows
<1>4. Store!StoreTypeOK /\ lastSeq \in Nat
  BY DEF Feed!StoreTypeOK, Store!StoreTypeOK, Feed!Row, Store!Row
<1>5. \A r \in Store!NewRows(batch) :
        r \in Store!Row /\ r.seq > lastSeq /\ r.seq <= lastSeq + Store!Cardinality(Store!Fresh(batch))
  BY <1>1, <1>4, Store!NewRowsFacts
<1>6. Store!IsFiniteSet(Store!Fresh(batch)) /\ Store!Cardinality(Store!Fresh(batch)) \in Nat
  BY <1>1, Store!FreshFinite
<1>7. lastSeq' = lastSeq + Store!Cardinality(Store!Fresh(batch))
  BY <1>2, SameCardinality DEF Feed!Insert
<1>8. IsFiniteSet(Feed!NewRows(batch))
  <2> DEFINE F == Feed!Fresh(batch)
             R(i) == [seq |-> lastSeq + Feed!Cardinality({j \in F : j <= i}), passing |-> batch[i]]
  <2>1. IsFiniteSet(F)
    BY <1>2, <1>6, SameIsFinite
  <2> DEFINE numbered == [i \in F |-> R(i)]
  <2>2. Feed!NewRows(batch) = {R(i) : i \in F}
    BY DEF Feed!NewRows
  <2> HIDE DEF F, R
  <2>3. numbered \in Surjection(F, Feed!NewRows(batch))
    BY <2>2 DEF Surjection
  <2> QED
    BY <2>1, <2>3, FS_Surjection
<1> QED
  BY <1>3, <1>4, <1>5, <1>6, <1>7, <1>8 DEF Feed!Insert, Store!Row, Feed!Row

(* The highest seq of a set of rows. *)
LEMMA HighestIs ==
  ASSUME NEW R \in SUBSET Feed!Row, NEW bound \in Nat, \A r \in R : r.seq <= bound, NEW low
  PROVE  /\ R = {} => Feed!Highest(R, low) = low
         /\ R # {} => /\ \E r \in R : Feed!Highest(R, low) = r.seq
                      /\ \A r \in R : r.seq <= Feed!Highest(R, low)
<1>1. ASSUME R # {}
      PROVE  /\ \E r \in R : Feed!Highest(R, low) = r.seq
             /\ \A r \in R : r.seq <= Feed!Highest(R, low)
  <2> DEFINE S == {r.seq : r \in R}
  <2>1. S \in SUBSET Nat /\ S # {} /\ \A n \in S : n <= bound
    BY <1>1 DEF Feed!Row
  <2>2. PICK n \in S : \A m \in S : m <= n
    BY <2>1, GreatestExists
  <2>3. \A r \in R : r.seq <= n
    BY <2>2
  <2>4. Feed!Highest(R, low) = CHOOSE x \in S : \A r \in R : r.seq <= x
    BY <1>1 DEF Feed!Highest
  <2>5. Feed!Highest(R, low) \in S /\ \A r \in R : r.seq <= Feed!Highest(R, low)
    BY <2>2, <2>3, <2>4
  <2> QED
    BY <2>5
<1> QED
  BY <1>1 DEF Feed!Highest

(* The catch-up sends every row once, in the order of the seqs. *)
LEMMA PagesCover ==
  ASSUME NEW R \in SUBSET Feed!Row, IsFiniteSet(R)
  PROVE  /\ Feed!Pages(R) \in Seq(Feed!Message)
         /\ \A i \in 1 .. Len(Feed!Pages(R)) :
              Feed!Pages(R)[i].type = "passings" /\ Feed!Pages(R)[i].rows \subseteq R
         /\ \A r \in R : \E i \in 1 .. Len(Feed!Pages(R)) : r \in Feed!Pages(R)[i].rows
         /\ \A i, j \in 1 .. Len(Feed!Pages(R)) :
              i < j => \A r \in Feed!Pages(R)[i].rows, s \in Feed!Pages(R)[j].rows : r.seq < s.seq
<1> DEFINE c == Feed!Cardinality(R)
           n == (c + StreamPage - 1) \div StreamPage
           rank(r) == Feed!Rank(r, R)
           page(i) == {r \in R : rank(r) > (i - 1) * StreamPage /\ rank(r) <= i * StreamPage}
           P == Feed!Pages(R)
<1>1. StreamPage \in Nat \ {0}
  BY FeedConstants
<1>2. c \in Nat /\ c = Cardinality(R)
  BY SameCardinality, FS_CardinalityType
<1>3. ASSUME NEW r \in R
      PROVE  rank(r) \in 1 .. c
  <2> DEFINE below == {s \in R : s.seq <= r.seq}
  <2>1. below \subseteq R /\ r \in below
    BY DEF Feed!Row
  <2>2. IsFiniteSet(below) /\ Cardinality(below) <= Cardinality(R)
    BY <2>1, FS_Subset
  <2>3. Cardinality(below) \in Nat /\ Cardinality(below) # 0
    BY <2>1, <2>2, FS_CardinalityType, FS_EmptySet
  <2>4. rank(r) = Cardinality(below)
    BY SameCardinality DEF Feed!Rank
  <2> HIDE DEF below
  <2> QED
    BY <1>2, <2>2, <2>3, <2>4
<1>4. ASSUME NEW r \in R, NEW s \in R, s.seq <= r.seq
      PROVE  rank(s) <= rank(r)
  <2> DEFINE below == {q \in R : q.seq <= r.seq}
             less == {q \in R : q.seq <= s.seq}
  <2>1. less \subseteq below /\ below \subseteq R
    BY <1>4 DEF Feed!Row
  <2>2. IsFiniteSet(below)
    BY <2>1, FS_Subset
  <2>3. Cardinality(less) <= Cardinality(below)
    BY <2>1, <2>2, FS_Subset
  <2>4. rank(r) = Cardinality(below) /\ rank(s) = Cardinality(less)
    BY SameCardinality DEF Feed!Rank
  <2> HIDE DEF below, less
  <2> QED
    BY <2>3, <2>4
<1>5. n \in Nat
  <2>1. c + StreamPage - 1 \in Nat
    BY <1>1, <1>2
  <2> QED
    BY <1>1, <2>1, Quotient
<1>6. P = [i \in 1 .. n |-> [type |-> "passings", rows |-> page(i)]]
  BY DEF Feed!Pages, Feed!PassingsMessage
<1> HIDE DEF P, n, c, rank
<1>7. \A i \in 1 .. n : page(i) \in SUBSET Feed!Row /\ page(i) \subseteq R
  OBVIOUS
<1>8. ASSUME NEW r \in R
      PROVE  \E i \in 1 .. n : r \in page(i)
  <2>1. \E i \in 1 .. n : rank(r) > (i - 1) * StreamPage /\ rank(r) <= i * StreamPage
    BY <1>1, <1>2, <1>3, PageOf DEF n
  <2> QED
    BY <2>1
<1>9. ASSUME NEW i \in 1 .. n, NEW j \in 1 .. n, i < j, NEW r \in page(i), NEW s \in page(j)
      PROVE  r.seq < s.seq
  <2>1. rank(r) \in Nat /\ rank(s) \in Nat /\ r.seq \in Nat /\ s.seq \in Nat
    BY <1>3 DEF Feed!Row
  <2>2. i * StreamPage <= (j - 1) * StreamPage
    BY <1>1, <1>5, <1>9, Multiples
  <2>3. i * StreamPage \in Int /\ (j - 1) * StreamPage \in Int
    BY <1>1
  <2>4. rank(r) <= i * StreamPage /\ rank(s) > (j - 1) * StreamPage
    OBVIOUS
  <2>5. rank(r) < rank(s)
    BY <2>1, <2>2, <2>3, <2>4
  <2> HIDE DEF page
  <2>6. ~(s.seq <= r.seq)
    BY <1>4, <1>7, <2>1, <2>5
  <2> QED
    BY <2>1, <2>6
<1> HIDE DEF page
<1>10. Len(P) = n /\ \A i \in 1 .. n : P[i].type = "passings" /\ P[i].rows = page(i)
  BY <1>5, <1>6
<1>11. P \in Seq(Feed!Message)
  <2>1. \A i \in 1 .. n : [type |-> "passings", rows |-> page(i)] \in Feed!Message
    BY <1>7 DEF Feed!Message
  <2> QED
    BY <1>5, <1>6, <2>1
<1> QED
  BY <1>7, <1>8, <1>9, <1>10, <1>11 DEF P

LEMMA MessagesTyped ==
  /\ Feed!LiveMessage \in Feed!Message /\ Feed!LiveMessage.type = "live"
  /\ Feed!DeletedMessage \in Feed!Message /\ Feed!DeletedMessage.type = "deleted"
  /\ \A R \in SUBSET Feed!Row :
       /\ Feed!PassingsMessage(R) \in Feed!Message
       /\ Feed!PassingsMessage(R).type = "passings" /\ Feed!PassingsMessage(R).rows = R
  /\ \A m \in Feed!Message : m.type = "passings" => m.rows \in SUBSET Feed!Row
  BY DEF Feed!LiveMessage, Feed!DeletedMessage, Feed!PassingsMessage, Feed!Message

(* What the flags and the ghost of the consumer are, whatever is done. *)
LEMMA FeedFlagsTyped ==
  ASSUME Feed!TypeOK, [Feed!Next]_feedVars
  PROVE  subscribed' \in BOOLEAN /\ feedLive' \in BOOLEAN /\ retry' \in BOOLEAN /\ closed' \in BOOLEAN
<1> DEFINE Flags == subscribed \in BOOLEAN /\ feedLive \in BOOLEAN /\ retry \in BOOLEAN /\ closed \in BOOLEAN
<1>1. Flags
  BY DEF Feed!TypeOK
<1>2. ASSUME UNCHANGED feedVars PROVE Flags'
  BY <1>1, <1>2 DEF feedVars
<1> USE DEF Feed!feed, Feed!bounds, Feed!storeVars
<1>3. ASSUME NEW batch \in Batches, Feed!Upload(batch) PROVE Flags'
  BY <1>1, <1>3 DEF Feed!Upload
<1>4. ASSUME NEW batch \in Batches, Feed!CrashAfterInsert(batch) PROVE Flags'
  BY <1>1, <1>4 DEF Feed!CrashAfterInsert
<1>5. ASSUME NEW R, Feed!DeletePassings(R) PROVE Flags'
  BY <1>1, <1>5 DEF Feed!DeletePassings
<1>6. ASSUME NEW k, Feed!Configure(k) PROVE Flags'
  BY <1>1, <1>6 DEF Feed!Configure, Feed!Reopen, Feed!Disconnect
<1>7. ASSUME Feed!Close PROVE Flags'
  BY <1>1, <1>7 DEF Feed!Close, Feed!Disconnect
<1>8. ASSUME Feed!AcceptStream PROVE Flags'
  BY <1>1, <1>8 DEF Feed!AcceptStream
<1>9. ASSUME Feed!Break PROVE Flags'
  BY <1>1, <1>9 DEF Feed!Break
<1>10. ASSUME Feed!ConnectFails \/ Feed!CloseEvent PROVE Flags'
  BY <1>1, <1>10 DEF Feed!ConnectFails, Feed!CloseEvent, Feed!SocketGone
<1>11. ASSUME Feed!Deliver PROVE Flags'
  BY <1>1, <1>11 DEF Feed!Deliver, Feed!TakePassings, Feed!TakeLive, Feed!TakeDeleted, Feed!Reopen, Feed!Disconnect
<1>12. ASSUME Feed!Retry PROVE Flags'
  BY <1>1, <1>12 DEF Feed!Retry, Feed!Reopen, Feed!Disconnect
<1> HIDE DEF Flags
<1>13. ASSUME Feed!Next PROVE Flags'
  BY <1>3, <1>4, <1>5, <1>6, <1>7, <1>8, <1>9, <1>10, <1>11, <1>12, <1>13 DEF Feed!Next
<1>14. Flags'
  BY <1>2, <1>13
<1> QED
  BY <1>14 DEF Flags

LEMMA FeedCounters ==
  ASSUME Feed!TypeOK, [Feed!Next]_feedVars
  PROVE  uploads' \in 0 .. MaxUploads /\ configs' \in 0 .. MaxConfigs /\ faults' \in 0 .. MaxFaults
<1>1. uploads \in 0 .. MaxUploads /\ configs \in 0 .. MaxConfigs /\ faults \in 0 .. MaxFaults
  BY DEF Feed!TypeOK
<1>2. \/ uploads' = uploads \/ (uploads < MaxUploads /\ uploads' = uploads + 1)
  BY DEF feedVars, Feed!Next, Feed!Upload, Feed!CrashAfterInsert, Feed!DeletePassings, Feed!Configure, Feed!Close,
         Feed!AcceptStream, Feed!Break, Feed!ConnectFails, Feed!Deliver, Feed!CloseEvent, Feed!Retry, Feed!bounds
<1>3. \/ configs' = configs \/ (configs < MaxConfigs /\ configs' = configs + 1)
  BY DEF feedVars, Feed!Next, Feed!Upload, Feed!CrashAfterInsert, Feed!DeletePassings, Feed!Configure, Feed!Close,
         Feed!AcceptStream, Feed!Break, Feed!ConnectFails, Feed!Deliver, Feed!CloseEvent, Feed!Retry, Feed!bounds
<1>4. \/ faults' = faults \/ (faults < MaxFaults /\ faults' = faults + 1)
  BY DEF feedVars, Feed!Next, Feed!Upload, Feed!CrashAfterInsert, Feed!DeletePassings, Feed!Configure, Feed!Close,
         Feed!AcceptStream, Feed!Break, Feed!ConnectFails, Feed!Deliver, Feed!CloseEvent, Feed!Retry, Feed!bounds,
         Feed!Fault
<1> QED
  BY <1>1, <1>2, <1>3, <1>4, FeedConstants

(* What a row is asked for with, in words of its seq and its decoder. *)
LEMMA SelectedRows ==
  ASSUME NEW t, NEW k
  PROVE  \A r : r \in Feed!Selected(t, k) <=> r \in t /\ DecoderOf[r.passing] \in k.ids /\ r.seq > k.since
  BY DEF Feed!Selected

(* Opening: the feed has nothing, the catch-up has all. *)
LEMMA AcceptInductive ==
  ASSUME FeedInv, feedLive' \in BOOLEAN, retry' \in BOOLEAN, closed' \in BOOLEAN, subscribed' \in BOOLEAN,
         Feed!AcceptStream
  PROVE  FeedInv'
<1> DEFINE R == Feed!Selected(table, key)
           P == Feed!Pages(R)
<1>1. Feed!TypeOK /\ StoreBounded /\ FreshSocket /\ Told
  BY DEF FeedInv
<1>2. /\ ws = "connecting" /\ ws' = "open" /\ subscribed' = TRUE
      /\ lastSent' = Feed!Highest(R, key.since)
      /\ feedWire' = P \o <<Feed!LiveMessage>>
      /\ UNCHANGED <<table, lastSeq, key, items, feedLive, retry, closed, feedShown, uploads, configs, faults>>
  BY DEF Feed!AcceptStream, Feed!CatchUp, Feed!storeVars, Feed!feed, Feed!bounds
<1>3. /\ table \subseteq Feed!Row /\ lastSeq \in Nat /\ key \in Feed!Key /\ ~retry /\ items = {} /\ key # NoKey
  BY <1>1, <1>2 DEF Feed!TypeOK, Feed!StoreTypeOK, FreshSocket
<1>4. key.since \in Nat /\ key.since <= lastSeq
  BY <1>1, <1>3 DEF StoreBounded, Feed!Key
<1>5. R \in SUBSET table /\ R \in SUBSET Feed!Row /\ IsFiniteSet(R) /\ \A r \in R : r.seq <= lastSeq
  <2>1. R \subseteq table
    BY DEF Feed!Selected
  <2> HIDE DEF R
  <2> QED
    BY <1>1, <1>3, <2>1, FS_Subset DEF StoreBounded
<1> HIDE DEF R
<1>6. lastSent' \in Nat /\ lastSent' <= lastSeq
  <2>1. CASE R = {}
    BY <1>2, <1>3, <1>4, <1>5, <2>1, HighestIs
  <2>2. CASE R # {}
    <3>1. \E r \in R : lastSent' = r.seq
      BY <1>2, <1>3, <1>5, <2>2, HighestIs
    <3> QED
      BY <1>5, <3>1 DEF Feed!Row
  <2> QED
    BY <2>1, <2>2
<1>7. /\ P \in Seq(Feed!Message)
      /\ \A i \in 1 .. Len(P) : P[i].type = "passings" /\ P[i].rows \subseteq R
      /\ \A r \in R : \E i \in 1 .. Len(P) : r \in P[i].rows
      /\ \A i, j \in 1 .. Len(P) : i < j => \A r \in P[i].rows, s \in P[j].rows : r.seq < s.seq
  BY <1>5, PagesCover
<1> HIDE DEF P
<1>8. /\ feedWire' \in Seq(Feed!Message) /\ Len(feedWire') = Len(P) + 1 /\ Len(P) \in Nat
      /\ \A i \in 1 .. Len(P) : feedWire'[i] = P[i]
      /\ feedWire'[Len(P) + 1] = Feed!LiveMessage
  BY <1>2, <1>7, MessagesTyped
<1>9. feedWire'[Len(P) + 1].type = "live" /\ Len(P) + 1 \in 1 .. Len(feedWire')
  BY <1>8, MessagesTyped
<1>10. /\ \A i \in 1 .. Len(P) : Sent(feedWire', i) = P[i].rows
       /\ Sent(feedWire', Len(P) + 1) = {}
  BY <1>7, <1>8, <1>9 DEF Sent
<1>11. \A i \in 1 .. Len(feedWire') : i \in 1 .. Len(P) \/ i = Len(P) + 1
  BY <1>8
<1>12. WireAscends'
  <2>1. ASSUME NEW i \in 1 .. Len(feedWire'), NEW j \in 1 .. Len(feedWire'), i < j,
               NEW r \in Sent(feedWire', i), NEW s \in Sent(feedWire', j)
        PROVE  r.seq < s.seq
    <3>1. i \in 1 .. Len(P) /\ j \in 1 .. Len(P)
      BY <1>8, <1>10, <1>11, <2>1
    <3> QED
      BY <1>7, <1>10, <2>1, <3>1
  <2> QED
    BY <1>2, <1>3, <2>1 DEF WireAscends
<1>13. WireComplete'
  <2>1. ASSUME NEW r
        PROVE  (\E i \in 1 .. Len(feedWire') : r \in Sent(feedWire', i)) <=> r \in R
    BY <1>7, <1>8, <1>9, <1>10, <1>11
  <2>2. Feed!Selected(table, key)' = R
    BY <1>2 DEF R, Feed!Selected
  <2> QED
    BY <1>2, <1>3, <1>9, <2>1, <2>2 DEF WireComplete
<1>14. StoreBounded' /\ FreshSocket' /\ Told'
  BY <1>1, <1>2, <1>6 DEF StoreBounded, FreshSocket, Told
<1>15. Feed!TypeOK'
  BY <1>1, <1>2, <1>3, <1>6, <1>8 DEF Feed!TypeOK, Feed!StoreTypeOK
<1> QED
  BY <1>12, <1>13, <1>14, <1>15 DEF FeedInv

(* An upload: new rows come after all that was read or sent. *)
LEMMA UploadInductive ==
  ASSUME FeedInv, feedLive' \in BOOLEAN, retry' \in BOOLEAN, closed' \in BOOLEAN, subscribed' \in BOOLEAN,
         uploads' \in 0 .. MaxUploads, NEW batch \in Batches, Feed!Upload(batch)
  PROVE  FeedInv'
<1> DEFINE new == Feed!NewRows(batch)
           fresh == {r \in Feed!Selected(new, key) : r.seq > lastSent}
<1>1. Feed!TypeOK /\ StoreBounded /\ FreshSocket /\ WireAscends /\ WireComplete /\ Told
  BY DEF FeedInv
<1>2. UNCHANGED <<subscribed, ws, key, items, feedLive, retry, closed, feedShown, configs, faults>>
  BY DEF Feed!Upload, Feed!feed
<1>3. IF subscribed /\ fresh # {}
      THEN feedWire' = Append(feedWire, Feed!PassingsMessage(fresh)) /\ lastSent' = Feed!Highest(fresh, lastSent)
      ELSE feedWire' = feedWire /\ lastSent' = lastSent
  BY DEF Feed!Upload, Feed!ForwardInserted
<1>4. /\ table' = table \cup new /\ lastSeq' \in Nat /\ lastSeq <= lastSeq'
      /\ new \subseteq Feed!Row /\ IsFiniteSet(new)
      /\ \A r \in new : r.seq > lastSeq /\ r.seq <= lastSeq'
  BY <1>1, InsertAdds DEF Feed!TypeOK, Feed!Upload
<1>5. table \subseteq Feed!Row /\ lastSeq \in Nat /\ lastSent \in Nat /\ lastSent <= lastSeq
      /\ feedWire \in Seq(Feed!Message) /\ items \subseteq Feed!Row
  BY <1>1 DEF Feed!TypeOK, Feed!StoreTypeOK, StoreBounded
<1>6. fresh \subseteq new /\ \A r \in new : r \in fresh <=> DecoderOf[r.passing] \in key.ids /\ r.seq > key.since
  <2>1. \A r \in new : r.seq > lastSent
    BY <1>4, <1>5 DEF Feed!Row
  <2> HIDE DEF new
  <2> QED
    BY <2>1, SelectedRows
<1> HIDE DEF new, fresh
<1>7. \A r : r \in Feed!Selected(table, key)' <=> r \in Feed!Selected(table, key) \/ r \in fresh
  <2>1. \A r : r \in Feed!Selected(table, key)' <=> r \in table' /\ DecoderOf[r.passing] \in key.ids /\ r.seq > key.since
    BY <1>2 DEF Feed!Selected
  <2> QED
    BY <1>4, <1>6, <2>1, SelectedRows
<1>8. fresh \in SUBSET Feed!Row /\ \A r \in fresh : r.seq \in Nat /\ r.seq > lastSeq /\ r.seq <= lastSeq'
  BY <1>4, <1>6 DEF Feed!Row
<1>9. StoreBounded'
  <2>1. IsFiniteSet(table')
    BY <1>1, <1>4, FS_Union DEF StoreBounded
  <2>2. \A r \in table' : r.seq <= lastSeq'
    BY <1>1, <1>4, <1>5 DEF StoreBounded, Feed!Row
  <2>3. lastSent' <= lastSeq'
    <3>1. CASE subscribed /\ fresh # {}
      <4>1. \E r \in fresh : lastSent' = r.seq
        BY <1>3, <1>4, <1>8, <3>1, HighestIs
      <4> QED
        BY <1>8, <4>1
    <3>2. CASE ~(subscribed /\ fresh # {})
      BY <1>3, <1>4, <1>5, <3>2
    <3> QED
      BY <3>1, <3>2
  <2>4. key' # NoKey => key'.since <= lastSeq'
    BY <1>1, <1>2, <1>4, <1>5 DEF StoreBounded, Feed!TypeOK, Feed!Key
  <2> QED
    BY <2>1, <2>2, <2>3, <2>4 DEF StoreBounded
<1>10. Feed!TypeOK'
  <2>1. lastSent' \in Nat
    <3>1. CASE subscribed /\ fresh # {}
      <4>1. \E r \in fresh : lastSent' = r.seq
        BY <1>3, <1>4, <1>8, <3>1, HighestIs
      <4> QED
        BY <1>8, <4>1
    <3>2. CASE ~(subscribed /\ fresh # {})
      BY <1>3, <1>5, <3>2
    <3> QED
      BY <3>1, <3>2
  <2>2. feedWire' \in Seq(Feed!Message)
    <3>1. Feed!PassingsMessage(fresh) \in Feed!Message
      BY <1>8, MessagesTyped
    <3> QED
      BY <1>3, <1>5, <3>1
  <2>3. table' \subseteq Feed!Row
    BY <1>4, <1>5
  <2> QED
    BY <1>1, <1>2, <1>4, <2>1, <2>2, <2>3 DEF Feed!TypeOK, Feed!StoreTypeOK
<1>11. FreshSocket' /\ Told'
  BY <1>1, <1>2 DEF FreshSocket, Told
<1>12. WireAscends' /\ WireComplete'
  <2>1. CASE subscribed /\ fresh # {}
    <3> DEFINE n == Len(feedWire)
    <3>1. /\ n \in Nat /\ Len(feedWire') = n + 1
          /\ \A i \in 1 .. n : feedWire'[i] = feedWire[i]
          /\ feedWire'[n + 1].type = "passings" /\ feedWire'[n + 1].rows = fresh
      <4>1. Feed!PassingsMessage(fresh) \in Feed!Message
            /\ Feed!PassingsMessage(fresh).type = "passings" /\ Feed!PassingsMessage(fresh).rows = fresh
        BY <1>8, MessagesTyped
      <4> QED
        BY <1>3, <1>5, <2>1, <4>1
    <3> HIDE DEF n
    <3>2. (\A i \in 1 .. n : Sent(feedWire', i) = Sent(feedWire, i)) /\ Sent(feedWire', n + 1) = fresh
      BY <3>1 DEF Sent
    <3>3. Standing' => Standing
      BY <1>2, <3>1 DEF Standing, Feed!OnWire, n
    <3>4. \A i \in 1 .. Len(feedWire') : i \in 1 .. n \/ i = n + 1
      BY <3>1
    <3>5. ASSUME Standing'
          PROVE  /\ \A r : r \in items \/ (\E i \in 1 .. n : r \in Sent(feedWire, i)) <=> r \in Feed!Selected(table, key)
                 /\ feedLive \/ \E i \in 1 .. n : feedWire[i].type = "live"
                 /\ \A i, j \in 1 .. n : i < j => \A r \in Sent(feedWire, i), s \in Sent(feedWire, j) : r.seq < s.seq
                 /\ \A i \in 1 .. n : \A r \in items, s \in Sent(feedWire, i) : r.seq < s.seq
      BY <1>1, <3>3, <3>5 DEF WireAscends, WireComplete, n
    <3>6. ASSUME Standing', NEW r, r \in Feed!Selected(table, key), NEW s \in fresh
          PROVE  r.seq < s.seq
      <4>1. r \in table /\ r.seq \in Nat /\ r.seq <= lastSeq
        BY <1>1, <1>5, <3>6, SelectedRows DEF StoreBounded, Feed!Row
      <4> QED
        BY <1>5, <1>8, <4>1
    <3>7. WireAscends'
      <4> SUFFICES ASSUME Standing'
                   PROVE  /\ \A i, j \in 1 .. Len(feedWire') : i < j => \A r \in Sent(feedWire', i), s \in Sent(feedWire', j) : r.seq < s.seq
                          /\ \A i \in 1 .. Len(feedWire') : \A r \in items', s \in Sent(feedWire', i) : r.seq < s.seq
        BY DEF WireAscends
      <4>1. ASSUME NEW i \in 1 .. Len(feedWire'), NEW j \in 1 .. Len(feedWire'), i < j, NEW r \in Sent(feedWire', i), NEW s \in Sent(feedWire', j)
            PROVE  r.seq < s.seq
        <5>1. i \in 1 .. n
          BY <3>1, <3>4, <4>1
        <5>2. r \in Sent(feedWire, i) /\ r \in Feed!Selected(table, key)
          BY <3>2, <3>5, <4>1, <5>1
        <5>3. CASE j \in 1 .. n
          BY <3>2, <3>5, <4>1, <5>1, <5>2, <5>3
        <5>4. CASE j = n + 1
          BY <3>2, <3>6, <4>1, <5>2, <5>4
        <5> QED
          BY <3>4, <5>3, <5>4
      <4>2. ASSUME NEW i \in 1 .. Len(feedWire'), NEW r \in items', NEW s \in Sent(feedWire', i)
            PROVE  r.seq < s.seq
        <5>1. r \in items /\ r \in Feed!Selected(table, key)
          BY <1>2, <3>5
        <5>2. CASE i \in 1 .. n
          BY <3>2, <3>5, <4>2, <5>1, <5>2
        <5>3. CASE i = n + 1
          BY <3>2, <3>6, <4>2, <5>1, <5>3
        <5> QED
          BY <3>4, <5>2, <5>3
      <4> QED
        BY <4>1, <4>2
    <3>8. WireComplete'
      <4> SUFFICES ASSUME Standing'
                   PROVE  /\ \A r : r \in items' \/ (\E i \in 1 .. Len(feedWire') : r \in Sent(feedWire', i))
                                      <=> r \in Feed!Selected(table, key)'
                          /\ feedLive' \/ \E i \in 1 .. Len(feedWire') : feedWire'[i].type = "live"
        BY DEF WireComplete
      <4>1. ASSUME NEW r
            PROVE  (\E i \in 1 .. Len(feedWire') : r \in Sent(feedWire', i)) <=> (\E i \in 1 .. n : r \in Sent(feedWire, i)) \/ r \in fresh
        BY <3>1, <3>2, <3>4
      <4>2. feedLive' \/ \E i \in 1 .. Len(feedWire') : feedWire'[i].type = "live"
        BY <1>2, <3>1, <3>5
      <4> QED
        BY <1>2, <1>7, <3>5, <4>1, <4>2
    <3> QED
      BY <3>7, <3>8
  <2>2. CASE ~subscribed
    BY <1>2, <2>2 DEF WireAscends, WireComplete, Standing
  <2>3. CASE subscribed /\ fresh = {}
    <3>1. feedWire' = feedWire /\ \A r : r \in Feed!Selected(table, key)' <=> r \in Feed!Selected(table, key)
      BY <1>3, <1>7, <2>3
    <3>2. \A i : Sent(feedWire', i) = Sent(feedWire, i)
      BY <3>1 DEF Sent
    <3>3. Standing' <=> Standing
      BY <1>2, <3>1 DEF Standing, Feed!OnWire
    <3>4. WireAscends'
      BY <1>1, <1>2, <3>1, <3>2, <3>3 DEF WireAscends
    <3>5. WireComplete'
      BY <1>1, <1>2, <3>1, <3>2, <3>3 DEF WireComplete
    <3> QED
      BY <3>4, <3>5
  <2> QED
    BY <2>1, <2>2, <2>3
<1> QED
  BY <1>9, <1>10, <1>11, <1>12 DEF FeedInv

(* A message is read: the feed takes every row of it, because all are above what it has. *)
LEMMA TakePassingsInductive ==
  ASSUME FeedInv, feedLive' \in BOOLEAN, retry' \in BOOLEAN, closed' \in BOOLEAN, subscribed' \in BOOLEAN,
         ws = "open", feedWire # <<>>, Feed!TakePassings(Head(feedWire)),
         UNCHANGED <<table, lastSeq, key, closed, uploads, configs, faults>>
  PROVE  FeedInv'
<1> DEFINE m == Head(feedWire)
           fresh == {r \in m.rows : r.seq > Feed!Highest(items, key.since)}
           n == Len(feedWire) - 1
<1>1. Feed!TypeOK /\ StoreBounded /\ FreshSocket /\ WireAscends /\ WireComplete /\ Told
  BY DEF FeedInv
<1>2. /\ m.type = "passings" /\ items' = items \cup fresh /\ feedWire' = Tail(feedWire)
      /\ UNCHANGED <<table, lastSeq, key, closed, uploads, configs, faults, feedLive, subscribed, lastSent, ws, retry>>
      /\ IF feedLive /\ fresh # {} THEN feedShown' = [items |-> items', live |-> TRUE] ELSE feedShown' = feedShown
  BY DEF Feed!TakePassings, Feed!OnChange
<1>3. /\ table \subseteq Feed!Row /\ lastSeq \in Nat /\ items \subseteq Feed!Row /\ feedWire \in Seq(Feed!Message)
      /\ key \in Feed!Key
  BY <1>1 DEF Feed!TypeOK, Feed!StoreTypeOK
<1>4. /\ n \in Nat /\ Len(feedWire) = n + 1 /\ Len(feedWire') = n /\ m \in Feed!Message /\ m = feedWire[1]
      /\ feedWire' \in Seq(Feed!Message) /\ \A i \in 1 .. n : feedWire'[i] = feedWire[i + 1]
  BY <1>2, <1>3
<1>5. m.rows \in SUBSET Feed!Row
  BY <1>2, <1>4, MessagesTyped
<1> HIDE DEF n, fresh
<1>6. fresh \subseteq m.rows
  BY DEF fresh
<1> HIDE DEF m
<1>7. Sent(feedWire, 1) = m.rows /\ \A i \in 1 .. n : Sent(feedWire', i) = Sent(feedWire, i + 1)
  BY <1>2, <1>4 DEF Sent
<1>8. Standing' => Standing
  <2> SUFFICES ASSUME Standing', NEW i \in 1 .. Len(feedWire), feedWire[i].type = "deleted"
               PROVE  FALSE
    BY <1>2 DEF Standing, Feed!OnWire
  <2>1. i # 1
    BY <1>2, <1>4
  <2>2. i - 1 \in 1 .. n /\ feedWire'[i - 1] = feedWire[i]
    BY <1>4, <2>1
  <2>3. i - 1 \in Feed!OnWire("deleted")'
    BY <1>4, <2>2 DEF Feed!OnWire
  <2> QED
    BY <2>3 DEF Standing
<1>9. ASSUME Standing'
      PROVE  /\ \A r : r \in items \/ (\E i \in 1 .. n + 1 : r \in Sent(feedWire, i)) <=> r \in Feed!Selected(table, key)
             /\ feedLive \/ \E i \in 1 .. n + 1 : feedWire[i].type = "live"
             /\ \A i, j \in 1 .. n + 1 : i < j => \A r \in Sent(feedWire, i), s \in Sent(feedWire, j) : r.seq < s.seq
             /\ \A i \in 1 .. n + 1 : \A r \in items, s \in Sent(feedWire, i) : r.seq < s.seq
  BY <1>1, <1>4, <1>8, <1>9 DEF WireAscends, WireComplete
<1>10. ASSUME Standing'
       PROVE  items' = items \cup m.rows
  <2>1. \A r \in items : r.seq <= lastSeq
    <3>1. \A r \in items : r \in table
      BY <1>9, <1>10, SelectedRows
    <3> QED
      BY <1>1, <3>1 DEF StoreBounded
  <2>2. ASSUME NEW s \in m.rows
        PROVE  s.seq > Feed!Highest(items, key.since)
    <3>0. s.seq \in Nat /\ key.since \in Nat
      BY <1>3, <1>5 DEF Feed!Row, Feed!Key
    <3>1. CASE items = {}
      <4>1. 1 \in 1 .. n + 1 /\ s \in Sent(feedWire, 1)
        BY <1>4, <1>7
      <4>2. s \in Feed!Selected(table, key)
        BY <1>9, <1>10, <4>1
      <4>3. s.seq > key.since
        BY <4>2, SelectedRows
      <4> QED
        BY <1>3, <2>1, <3>1, <4>3, HighestIs
    <3>2. CASE items # {}
      <4>0. items \in SUBSET Feed!Row /\ lastSeq \in Nat
        BY <1>3
      <4>1. PICK r \in items : Feed!Highest(items, key.since) = r.seq
        <5>1. \E r \in items : Feed!Highest(items, key.since) = r.seq
          BY <2>1, <3>2, <4>0, HighestIs
        <5> QED
          BY <5>1
      <4>2. 1 \in 1 .. n + 1 /\ s \in Sent(feedWire, 1)
        BY <1>4, <1>7
      <4>3. r.seq < s.seq
        BY <1>9, <1>10, <4>2
      <4>4. r.seq \in Nat
        BY <1>3 DEF Feed!Row
      <4> QED
        BY <3>0, <4>1, <4>3, <4>4
    <3> QED
      BY <3>1, <3>2
  <2>3. fresh = m.rows
    BY <2>2 DEF fresh
  <2> QED
    BY <1>2, <2>3
<1>11. WireAscends'
  <2> SUFFICES ASSUME Standing'
               PROVE  /\ \A i, j \in 1 .. n : i < j => \A r \in Sent(feedWire', i), s \in Sent(feedWire', j) : r.seq < s.seq
                      /\ \A i \in 1 .. n : \A r \in items', s \in Sent(feedWire', i) : r.seq < s.seq
    BY <1>4 DEF WireAscends
  <2>1. ASSUME NEW i \in 1 .. n, NEW j \in 1 .. n, i < j, NEW r \in Sent(feedWire', i), NEW s \in Sent(feedWire', j)
        PROVE  r.seq < s.seq
    <3>1. i + 1 \in 1 .. n + 1 /\ j + 1 \in 1 .. n + 1 /\ i + 1 < j + 1
      BY <1>4, <2>1
    <3>2. r \in Sent(feedWire, i + 1) /\ s \in Sent(feedWire, j + 1)
      BY <1>7, <2>1
    <3> QED
      BY <1>9, <3>1, <3>2
  <2>2. ASSUME NEW i \in 1 .. n, NEW r \in items', NEW s \in Sent(feedWire', i)
        PROVE  r.seq < s.seq
    <3>1. 1 \in 1 .. n + 1 /\ i + 1 \in 1 .. n + 1 /\ 1 < i + 1
      BY <1>4, <2>2
    <3>2. s \in Sent(feedWire, i + 1)
      BY <1>7, <2>2
    <3>3. r \in items \/ r \in Sent(feedWire, 1)
      BY <1>7, <1>10, <2>2
    <3> QED
      BY <1>9, <3>1, <3>2, <3>3
  <2> QED
    BY <2>1, <2>2
<1>12. WireComplete'
  <2> SUFFICES ASSUME Standing'
               PROVE  /\ \A r : r \in items' \/ (\E i \in 1 .. n : r \in Sent(feedWire', i))
                                  <=> r \in Feed!Selected(table, key)
                      /\ feedLive \/ \E i \in 1 .. n : feedWire'[i].type = "live"
    <3>1. Feed!Selected(table, key)' = Feed!Selected(table, key)
      BY <1>2 DEF Feed!Selected
    <3> QED
      BY <1>2, <1>4, <3>1 DEF WireComplete
  <2>1. \A i \in 1 .. n + 1 : i = 1 \/ (i - 1 \in 1 .. n /\ (i - 1) + 1 = i)
    BY <1>4
  <2>2. \A i \in 1 .. n : i + 1 \in 1 .. n + 1
    BY <1>4
  <2>3. 1 \in 1 .. n + 1
    BY <1>4
  <2>4. ASSUME NEW r
        PROVE  r \in items' \/ (\E i \in 1 .. n : r \in Sent(feedWire', i)) <=> r \in Feed!Selected(table, key)
    <3>1. (\E i \in 1 .. n + 1 : r \in Sent(feedWire, i))
            <=> r \in m.rows \/ \E i \in 1 .. n : r \in Sent(feedWire', i)
      <4>1. ASSUME NEW i \in 1 .. n + 1, r \in Sent(feedWire, i), i # 1
            PROVE  \E j \in 1 .. n : r \in Sent(feedWire', j)
        <5>1. i - 1 \in 1 .. n /\ (i - 1) + 1 = i
          BY <2>1, <4>1
        <5>2. Sent(feedWire', i - 1) = Sent(feedWire, i)
          BY <1>7, <5>1
        <5> QED
          BY <4>1, <5>1, <5>2
      <4> QED
        BY <1>7, <2>2, <2>3, <4>1
    <3> QED
      BY <1>9, <1>10, <3>1
  <2>5. feedLive \/ \E i \in 1 .. n : feedWire'[i].type = "live"
    <3>1. ASSUME NEW i \in 1 .. n + 1, feedWire[i].type = "live"
          PROVE  \E j \in 1 .. n : feedWire'[j].type = "live"
      <4>1. i # 1
        BY <1>2, <1>4, <3>1
      <4>2. i - 1 \in 1 .. n /\ feedWire'[i - 1] = feedWire[i]
        BY <1>4, <4>1
      <4> QED
        BY <3>1, <4>2
    <3> QED
      BY <1>9, <3>1
  <2> QED
    BY <2>4, <2>5
<1>13. StoreBounded' /\ FreshSocket'
  BY <1>1, <1>2 DEF StoreBounded, FreshSocket
<1>14. Told'
  <2>1. CASE fresh = {}
    BY <1>1, <1>2, <2>1 DEF Told
  <2>2. CASE fresh # {}
    BY <1>2, <2>2 DEF Told
  <2> QED
    BY <2>1, <2>2
<1>15. Feed!TypeOK'
  <2>1. items' \in SUBSET Feed!Row
    BY <1>2, <1>3, <1>5, <1>6
  <2>2. feedShown' \in [items : SUBSET Feed!Row, live : BOOLEAN]
    <3>1. feedShown \in [items : SUBSET Feed!Row, live : BOOLEAN]
      BY <1>1 DEF Feed!TypeOK
    <3>2. [items |-> items', live |-> TRUE] \in [items : SUBSET Feed!Row, live : BOOLEAN]
      BY <2>1
    <3> QED
      BY <1>2, <3>1, <3>2
  <2> QED
    BY <1>1, <1>2, <1>4, <2>1, <2>2 DEF Feed!TypeOK, Feed!StoreTypeOK
<1> QED
  BY <1>11, <1>12, <1>13, <1>14, <1>15 DEF FeedInv

LEMMA TakeLiveInductive ==
  ASSUME FeedInv, feedLive' \in BOOLEAN, retry' \in BOOLEAN, closed' \in BOOLEAN, subscribed' \in BOOLEAN,
         ws = "open", feedWire # <<>>, Feed!TakeLive(Head(feedWire)),
         UNCHANGED <<table, lastSeq, key, closed, uploads, configs, faults>>
  PROVE  FeedInv'
<1> DEFINE n == Len(feedWire) - 1
<1>1. Feed!TypeOK /\ StoreBounded /\ FreshSocket /\ WireAscends /\ WireComplete /\ Told
  BY DEF FeedInv
<1>2. /\ Head(feedWire).type = "live" /\ feedLive' = TRUE /\ feedWire' = Tail(feedWire)
      /\ UNCHANGED <<table, lastSeq, key, closed, uploads, configs, faults, items, subscribed, lastSent, ws, retry>>
      /\ feedShown' = [items |-> items, live |-> TRUE]
  BY DEF Feed!TakeLive, Feed!OnChange
<1>3. items \subseteq Feed!Row /\ feedWire \in Seq(Feed!Message)
  BY <1>1 DEF Feed!TypeOK
<1>4. /\ n \in Nat /\ Len(feedWire) = n + 1 /\ Len(feedWire') = n /\ feedWire[1].type = "live"
      /\ feedWire' \in Seq(Feed!Message) /\ \A i \in 1 .. n : feedWire'[i] = feedWire[i + 1]
  BY <1>2, <1>3
<1> HIDE DEF n
<1>5. Sent(feedWire, 1) = {} /\ \A i \in 1 .. n : Sent(feedWire', i) = Sent(feedWire, i + 1)
  BY <1>4 DEF Sent
<1>6. Standing' => Standing
  <2> SUFFICES ASSUME Standing', NEW i \in 1 .. Len(feedWire), feedWire[i].type = "deleted"
               PROVE  FALSE
    BY <1>2 DEF Standing, Feed!OnWire
  <2>1. i # 1
    BY <1>4
  <2>2. i - 1 \in 1 .. n /\ feedWire'[i - 1] = feedWire[i]
    BY <1>4, <2>1
  <2>3. i - 1 \in Feed!OnWire("deleted")'
    BY <1>4, <2>2 DEF Feed!OnWire
  <2> QED
    BY <2>3 DEF Standing
<1>7. ASSUME Standing'
      PROVE  /\ \A r : r \in items \/ (\E i \in 1 .. n + 1 : r \in Sent(feedWire, i)) <=> r \in Feed!Selected(table, key)
             /\ \A i, j \in 1 .. n + 1 : i < j => \A r \in Sent(feedWire, i), s \in Sent(feedWire, j) : r.seq < s.seq
             /\ \A i \in 1 .. n + 1 : \A r \in items, s \in Sent(feedWire, i) : r.seq < s.seq
  BY <1>1, <1>4, <1>6, <1>7 DEF WireAscends, WireComplete
<1>8. \A i \in 1 .. n : i + 1 \in 1 .. n + 1 /\ \A j \in 1 .. n : i < j => i + 1 < j + 1
  BY <1>4
<1>9. \A i \in 1 .. n + 1 : i = 1 \/ (i - 1 \in 1 .. n /\ (i - 1) + 1 = i)
  BY <1>4
<1>10. WireAscends'
  <2> SUFFICES ASSUME Standing'
               PROVE  /\ \A i, j \in 1 .. n : i < j => \A r \in Sent(feedWire', i), s \in Sent(feedWire', j) : r.seq < s.seq
                      /\ \A i \in 1 .. n : \A r \in items, s \in Sent(feedWire', i) : r.seq < s.seq
    BY <1>2, <1>4 DEF WireAscends
  <2> QED
    BY <1>5, <1>7, <1>8
<1>11. WireComplete'
  <2> SUFFICES ASSUME Standing'
               PROVE  \A r : r \in items \/ (\E i \in 1 .. n : r \in Sent(feedWire', i)) <=> r \in Feed!Selected(table, key)
    <3>1. Feed!Selected(table, key)' = Feed!Selected(table, key)
      BY <1>2 DEF Feed!Selected
    <3> QED
      BY <1>2, <1>4, <3>1 DEF WireComplete
  <2> TAKE r
  <2>1. ASSUME NEW i \in 1 .. n + 1, r \in Sent(feedWire, i)
        PROVE  \E j \in 1 .. n : r \in Sent(feedWire', j)
    <3>1. i - 1 \in 1 .. n /\ (i - 1) + 1 = i
      BY <1>5, <1>9, <2>1
    <3>2. Sent(feedWire', i - 1) = Sent(feedWire, i)
      BY <1>5, <3>1
    <3> QED
      BY <2>1, <3>1, <3>2
  <2>2. ASSUME NEW i \in 1 .. n, r \in Sent(feedWire', i)
        PROVE  \E j \in 1 .. n + 1 : r \in Sent(feedWire, j)
    BY <1>5, <1>8, <2>2
  <2> QED
    BY <1>7, <2>1, <2>2
<1>12. StoreBounded' /\ FreshSocket' /\ Told'
  BY <1>1, <1>2 DEF StoreBounded, FreshSocket, Told
<1>13. Feed!TypeOK'
  <2>1. feedShown' \in [items : SUBSET Feed!Row, live : BOOLEAN]
    BY <1>2, <1>3
  <2> QED
    BY <1>1, <1>2, <1>4, <2>1 DEF Feed!TypeOK, Feed!StoreTypeOK
<1> QED
  BY <1>10, <1>11, <1>12, <1>13 DEF FeedInv

(* The feed starts anew, with whatever selection. *)
LEMMA ReopenInductive ==
  ASSUME FeedInv, closed' \in BOOLEAN,
         NEW k \in Feed!Key \cup {NoKey}, k # NoKey => k.since <= lastSeq,
         Feed!Reopen(k), key' = k, UNCHANGED <<table, lastSeq>>,
         uploads' \in 0 .. MaxUploads, configs' \in 0 .. MaxConfigs, faults' \in 0 .. MaxFaults
  PROVE  FeedInv'
<1>1. Feed!TypeOK /\ StoreBounded
  BY DEF FeedInv
<1>2. /\ retry' = FALSE /\ subscribed' = FALSE /\ feedWire' = <<>> /\ lastSent' = lastSent
      /\ items' = {} /\ feedLive' = FALSE /\ feedShown' = [items |-> {}, live |-> FALSE]
  BY DEF Feed!Reopen, Feed!Disconnect, Feed!OnChange
<1>3. ws' \in {"none", "connecting"} /\ (ws' # "none" => k # NoKey)
  BY DEF Feed!Reopen, Feed!Disconnect
<1>4. WireAscends' /\ WireComplete'
  BY <1>2 DEF WireAscends, WireComplete, Standing
<1>5. StoreBounded' /\ FreshSocket' /\ Told'
  BY <1>1, <1>2 DEF StoreBounded, FreshSocket, Told
<1>6. Feed!TypeOK'
  <2>1. feedWire' \in Seq(Feed!Message)
    BY <1>2
  <2>2. feedShown' \in [items : SUBSET Feed!Row, live : BOOLEAN]
    BY <1>2
  <2> QED
    BY <1>1, <1>2, <1>3, <2>1, <2>2 DEF Feed!TypeOK, Feed!StoreTypeOK
<1> QED
  BY <1>4, <1>5, <1>6 DEF FeedInv

(* The steps that leave no standing connection, and keep what the feed has. *)
LEMMA BrokenInductive ==
  ASSUME FeedInv, closed' \in BOOLEAN, retry' \in BOOLEAN,
         subscribed' = FALSE,
         UNCHANGED <<items, feedLive, feedShown, lastSent>>,
         table' \subseteq Feed!Row, lastSeq' \in Nat, lastSeq <= lastSeq',
         IsFiniteSet(table'), \A r \in table' : r.seq <= lastSeq',
         feedWire' \in Seq(Feed!Message),
         ws' \in {"none", ws}, key' \in {NoKey, key}, key' = key \/ ws' = "none", retry' = retry \/ ws' = "none",
         uploads' \in 0 .. MaxUploads, configs' \in 0 .. MaxConfigs, faults' \in 0 .. MaxFaults
  PROVE  FeedInv'
<1>1. Feed!TypeOK /\ StoreBounded /\ FreshSocket /\ Told
  BY DEF FeedInv
<1>2. WireAscends' /\ WireComplete'
  BY DEF WireAscends, WireComplete, Standing
<1>3. FreshSocket' /\ Told'
  BY <1>1 DEF FreshSocket, Told
<1>4. StoreBounded'
  <2>1. lastSent' <= lastSeq'
    BY <1>1 DEF StoreBounded, Feed!TypeOK, Feed!StoreTypeOK
  <2>2. key' # NoKey => key'.since <= lastSeq'
    BY <1>1 DEF StoreBounded, Feed!TypeOK, Feed!StoreTypeOK, Feed!Key
  <2> QED
    BY <2>1, <2>2 DEF StoreBounded
<1>5. Feed!TypeOK'
  BY <1>1 DEF Feed!TypeOK, Feed!StoreTypeOK
<1> QED
  BY <1>2, <1>3, <1>4, <1>5 DEF FeedInv

LEMMA FeedInitially == Feed!Init => FeedInv
<1> SUFFICES ASSUME Feed!Init PROVE FeedInv
  OBVIOUS
<1>1. /\ table = {} /\ lastSeq = 0 /\ subscribed = FALSE /\ lastSent = 0 /\ feedWire = <<>> /\ ws = "none"
      /\ key = NoKey /\ items = {} /\ feedLive = FALSE /\ retry = FALSE /\ closed = FALSE
      /\ feedShown = [items |-> {}, live |-> FALSE] /\ uploads = 0 /\ configs = 0 /\ faults = 0
  BY DEF Feed!Init, Feed!StoreInit
<1>2. Feed!TypeOK
  <2>1. feedShown \in [items : SUBSET Feed!Row, live : BOOLEAN]
    BY <1>1
  <2>2. feedWire \in Seq(Feed!Message)
    BY <1>1
  <2>3. uploads \in 0 .. MaxUploads /\ configs \in 0 .. MaxConfigs /\ faults \in 0 .. MaxFaults
    BY <1>1, FeedConstants
  <2>4. retry \in BOOLEAN /\ closed \in BOOLEAN /\ subscribed \in BOOLEAN /\ feedLive \in BOOLEAN
    BY <1>1
  <2> QED
    BY <1>1, <2>1, <2>2, <2>3, <2>4 DEF Feed!TypeOK, Feed!StoreTypeOK
<1>3. StoreBounded
  BY <1>1, FS_EmptySet DEF StoreBounded
<1>4. FreshSocket /\ WireAscends /\ WireComplete /\ Told
  BY <1>1 DEF FreshSocket, WireAscends, WireComplete, Standing, Told
<1> QED
  BY <1>2, <1>3, <1>4 DEF FeedInv

LEMMA FeedInductive ==
  ASSUME FeedInv, [Feed!Next]_feedVars
  PROVE  FeedInv'
<1>1. Feed!TypeOK /\ StoreBounded
  BY DEF FeedInv
<1>2. subscribed' \in BOOLEAN /\ feedLive' \in BOOLEAN /\ retry' \in BOOLEAN /\ closed' \in BOOLEAN
  BY <1>1, FeedFlagsTyped
<1>3. uploads' \in 0 .. MaxUploads /\ configs' \in 0 .. MaxConfigs /\ faults' \in 0 .. MaxFaults
  BY <1>1, FeedCounters
<1>4. /\ table \subseteq Feed!Row /\ lastSeq \in Nat /\ feedWire \in Seq(Feed!Message)
      /\ IsFiniteSet(table) /\ \A r \in table : r.seq <= lastSeq
  BY <1>1 DEF Feed!TypeOK, Feed!StoreTypeOK, StoreBounded
<1>5. ASSUME UNCHANGED feedVars PROVE FeedInv'
  BY <1>5 DEF feedVars, FeedInv, Feed!TypeOK, Feed!StoreTypeOK, StoreBounded, FreshSocket, WireAscends, WireComplete,
              Standing, Feed!OnWire, Feed!Selected, Told
<1>6. ASSUME NEW batch \in Batches, Feed!Upload(batch) PROVE FeedInv'
  BY <1>2, <1>3, <1>6, UploadInductive
<1>7. ASSUME NEW batch \in Batches, Feed!CrashAfterInsert(batch) PROVE FeedInv'
  <2>1. /\ subscribed' = FALSE
        /\ UNCHANGED <<items, feedLive, feedShown, lastSent, feedWire, ws, key, retry>>
    BY <1>7 DEF Feed!CrashAfterInsert, Feed!feed
  <2>2. /\ table' = table \cup Feed!NewRows(batch) /\ lastSeq' \in Nat /\ lastSeq <= lastSeq'
        /\ Feed!NewRows(batch) \subseteq Feed!Row /\ IsFiniteSet(Feed!NewRows(batch))
        /\ \A r \in Feed!NewRows(batch) : r.seq > lastSeq /\ r.seq <= lastSeq'
    BY <1>1, <1>7, InsertAdds DEF Feed!TypeOK, Feed!CrashAfterInsert
  <2>3. IsFiniteSet(table') /\ table' \subseteq Feed!Row
    BY <1>4, <2>2, FS_Union
  <2>4. \A r \in table' : r.seq <= lastSeq'
    BY <1>4, <2>2 DEF Feed!Row
  <2>5. feedWire' \in Seq(Feed!Message) /\ ws' \in {"none", ws} /\ key' \in {NoKey, key} /\ (key' = key \/ ws' = "none")
        /\ (retry' = retry \/ ws' = "none")
    BY <1>4, <2>1
  <2> QED
    BY <1>2, <1>3, <2>1, <2>2, <2>3, <2>4, <2>5, BrokenInductive
<1>8. ASSUME NEW R \in SUBSET table, Feed!DeletePassings(R) PROVE FeedInv'
  <2>1. /\ table' = table \ R /\ lastSeq' = lastSeq
        /\ feedWire' = IF subscribed THEN Append(feedWire, Feed!DeletedMessage) ELSE feedWire
        /\ UNCHANGED <<subscribed, lastSent, ws, key, items, feedLive, retry, closed, feedShown>>
    BY <1>8 DEF Feed!DeletePassings, Feed!Delete, Feed!ForwardDeleted, Feed!feed
  <2>2. table' \subseteq Feed!Row /\ IsFiniteSet(table') /\ \A r \in table' : r.seq <= lastSeq'
    <3>1. table' \subseteq table
      BY <2>1
    <3> QED
      BY <1>4, <2>1, <3>1, FS_Subset
  <2>3. feedWire' \in Seq(Feed!Message)
    BY <1>4, <2>1, MessagesTyped
  <2>4. ~Standing'
    <3>1. CASE subscribed
      <4>1. Len(feedWire) + 1 \in 1 .. Len(feedWire') /\ feedWire'[Len(feedWire) + 1].type = "deleted"
        BY <1>4, <2>1, <3>1, MessagesTyped
      <4> QED
        BY <4>1 DEF Standing, Feed!OnWire
    <3>2. CASE ~subscribed
      BY <2>1, <3>2 DEF Standing
    <3> QED
      BY <3>1, <3>2
  <2>5. WireAscends' /\ WireComplete'
    BY <2>4 DEF WireAscends, WireComplete
  <2>6. FreshSocket' /\ Told'
    BY <2>1 DEF FeedInv, FreshSocket, Told
  <2>7. StoreBounded'
    BY <1>1, <2>1, <2>2 DEF StoreBounded
  <2>8. Feed!TypeOK'
    BY <1>1, <1>3, <2>1, <2>2, <2>3 DEF Feed!TypeOK, Feed!StoreTypeOK
  <2> QED
    BY <2>5, <2>6, <2>7, <2>8 DEF FeedInv
<1>9. ASSUME NEW k \in Feed!Key \cup {NoKey}, k # NoKey => k.since <= lastSeq, Feed!Configure(k) PROVE FeedInv'
  <2>1. Feed!Reopen(k) /\ key' = k /\ UNCHANGED <<table, lastSeq>>
    BY <1>9 DEF Feed!Configure, Feed!storeVars
  <2> QED
    BY <1>2, <1>3, <1>9, <2>1, ReopenInductive
<1>10. ASSUME Feed!Close PROVE FeedInv'
  <2>1. /\ subscribed' = FALSE /\ feedWire' = <<>> /\ ws' = "none" /\ key' = NoKey
        /\ UNCHANGED <<table, lastSeq, items, feedLive, feedShown, lastSent>>
    BY <1>10 DEF Feed!Close, Feed!Disconnect, Feed!storeVars
  <2>2. feedWire' \in Seq(Feed!Message)
    BY <2>1
  <2>3. table' \subseteq Feed!Row /\ lastSeq' \in Nat /\ lastSeq <= lastSeq' /\ IsFiniteSet(table')
        /\ \A r \in table' : r.seq <= lastSeq'
    BY <1>4, <2>1
  <2> QED
    BY <1>2, <1>3, <2>1, <2>2, <2>3, BrokenInductive
<1>11. ASSUME Feed!AcceptStream PROVE FeedInv'
  BY <1>2, <1>11, AcceptInductive
<1>12. ASSUME Feed!Break \/ Feed!ConnectFails \/ Feed!CloseEvent PROVE FeedInv'
  <2>1. subscribed => ws = "open"
    BY <1>1 DEF Feed!TypeOK
  <2>2. /\ subscribed' = FALSE /\ feedWire' \in {feedWire, <<>>} /\ ws' \in {"none", ws} /\ key' = key
        /\ (retry' = retry \/ ws' = "none")
        /\ UNCHANGED <<table, lastSeq, items, feedLive, feedShown, lastSent>>
    <3>1. CASE Feed!Break
      BY <3>1 DEF Feed!Break, Feed!feed, Feed!storeVars
    <3>2. CASE Feed!ConnectFails
      BY <1>1, <2>1, <3>2 DEF Feed!ConnectFails, Feed!SocketGone, Feed!storeVars, Feed!TypeOK
    <3>3. CASE Feed!CloseEvent
      BY <1>1, <3>3 DEF Feed!CloseEvent, Feed!SocketGone, Feed!storeVars, Feed!bounds, Feed!TypeOK
    <3> QED
      BY <1>12, <3>1, <3>2, <3>3
  <2>3. feedWire' \in Seq(Feed!Message)
    <3>1. <<>> \in Seq(Feed!Message)
      OBVIOUS
    <3> QED
      BY <1>4, <2>2, <3>1
  <2>4. table' \subseteq Feed!Row /\ lastSeq' \in Nat /\ lastSeq <= lastSeq' /\ IsFiniteSet(table')
        /\ \A r \in table' : r.seq <= lastSeq'
    BY <1>4, <2>2
  <2> QED
    BY <1>2, <1>3, <2>2, <2>3, <2>4, BrokenInductive
<1>13. ASSUME Feed!Retry \/ (ws = "open" /\ Feed!Reopen(key) /\ UNCHANGED <<table, lastSeq, key, closed, uploads, configs, faults>>)
       PROVE  FeedInv'
  <2>1. Feed!Reopen(key) /\ key' = key /\ UNCHANGED <<table, lastSeq>>
    BY <1>13 DEF Feed!Retry, Feed!storeVars
  <2>2. key \in Feed!Key \cup {NoKey} /\ (key # NoKey => key.since <= lastSeq)
    BY <1>1 DEF Feed!TypeOK, StoreBounded
  <2> QED
    BY <1>2, <1>3, <2>1, <2>2, ReopenInductive
<1>14. ASSUME Feed!Deliver PROVE FeedInv'
  <2>1. /\ ws = "open" /\ feedWire # <<>>
        /\ UNCHANGED <<table, lastSeq, key, closed, uploads, configs, faults>>
        /\ Feed!TakePassings(Head(feedWire)) \/ Feed!TakeLive(Head(feedWire)) \/ Feed!Reopen(key)
    BY <1>14 DEF Feed!Deliver, Feed!TakeDeleted, Feed!storeVars, Feed!bounds
  <2> QED
    BY <1>2, <1>13, <2>1, TakePassingsInductive, TakeLiveInductive
<1>15. ASSUME Feed!Next PROVE FeedInv'
  <2>1. ASSUME NEW ids \in SUBSET Decoders \ {{}}, NEW since \in 0 .. lastSeq,
               Feed!Configure([ids |-> ids, since |-> since])
        PROVE  FeedInv'
    BY <1>4, <1>9, <2>1 DEF Feed!Key
  <2>2. ASSUME Feed!Configure(NoKey) PROVE FeedInv'
    BY <1>9, <2>2
  <2> QED
    BY <1>6, <1>7, <1>8, <1>10, <1>11, <1>12, <1>13, <1>14, <1>15, <2>1, <2>2 DEF Feed!Next
<1> QED
  BY <1>5, <1>15

LEMMA FeedInvReflects == FeedInv => Feed!FeedReflectsStore
<1> SUFFICES ASSUME FeedInv PROVE Feed!FeedReflectsStore
  OBVIOUS
<1>1. WireComplete /\ Told /\ feedWire \in Seq(Feed!Message)
  BY DEF FeedInv, Feed!TypeOK
<1>2. ASSUME Standing
      PROVE  /\ items \cup UNION {feedWire[i].rows : i \in Feed!OnWire("passings")} = Feed!Selected(table, key)
             /\ feedLive \/ Feed!OnWire("live") # {}
  <2>1. \A r : r \in UNION {feedWire[i].rows : i \in Feed!OnWire("passings")}
                 <=> \E i \in 1 .. Len(feedWire) : r \in Sent(feedWire, i)
    BY DEF Feed!OnWire, Sent
  <2>2. feedLive \/ Feed!OnWire("live") # {}
    BY <1>1, <1>2 DEF WireComplete, Feed!OnWire
  <2> QED
    BY <1>1, <1>2, <2>1, <2>2 DEF WireComplete
<1> QED
  BY <1>1, <1>2 DEF Feed!FeedReflectsStore, Standing, Told
-----------------------------------------------------------------------------
(* The live race of a scoring page.  A request that may still be heard is one to the endpoint in use,
   a page that does not listen has no socket, and what is under way or shown is what an endpoint has
   had.  A message says which version it is made for and which it leads to. *)
Messages(n) ==
  [type : {"snapshot"}, base : {Live!Unset}, rev : 0 .. n] \cup [type : {"patch"}, base : 0 .. n, rev : 0 .. n]

StateShape(s) == DOMAIN s = {"source", "paused", "errorCount", "currentRace"}

SocketSound(w) ==
  /\ DOMAIN w = {"link", "frames", "data", "rev", "retryTimer"}
  /\ w.frames \in Seq(Messages(racing["service"]))
  /\ w.rev # Live!Unset => w.rev \in 0 .. racing["service"] /\ w.data = w.rev

PollsSound(ps, url) ==
  \A p \in ps : /\ DOMAIN p = {"id", "url", "mounted", "asked"}
                /\ p.url \in Live!Endpoints /\ p.asked \in Nat
                /\ p.mounted => p.url = url

RaceReal(race) ==
  race = Live!Nothing \/ \E e \in Live!Endpoints : \E r \in 1 .. racing[e] : race = [from |-> e, race |-> r]

LiveInv ==
  /\ racing \in [Live!Endpoints -> Nat]
  /\ StateShape(state) /\ RaceReal(state.currentRace)
  /\ SocketSound(live)
  /\ PollsSound(polls, Live!pollUrl(state, leaderboard))
  /\ ~Live!HearsSocket(state, leaderboard) => live = Live!NoSocket

LEMMA UrlIsEndpoint ==
  ASSUME NEW s, NEW l
  PROVE  /\ Live!pollUrl(s, l) \in Live!Endpoints
         /\ Live!HearsSocket(s, l) => Live!pollUrl(s, l) = "service"
  BY DEF Live!pollUrl, Live!Endpoints, Live!HearsSocket, Live!OnSocket, Live!useService

LEMMA NewPoll ==
  ASSUME racing \in [Live!Endpoints -> Nat], NEW ps, NEW url \in Live!Endpoints
  PROVE  /\ DOMAIN Live!Poll(ps, url) = {"id", "url", "mounted", "asked"}
         /\ Live!Poll(ps, url).url = url /\ Live!Poll(ps, url).asked \in Nat
  BY DEF Live!Poll

(* A render with the effects it runs again. *)
LEMMA RerenderKeeps ==
  ASSUME racing \in [Live!Endpoints -> Nat], racing' = racing,
         NEW s, NEW l, NEW down, NEW ps, NEW known, NEW w,
         Live!Rerender(s, l, down, ps, known, w),
         StateShape(s), RaceReal(s.currentRace), SocketSound(w),
         PollsSound(ps, Live!pollUrl(state, leaderboard)),
         ~Live!HearsSocket(state, leaderboard) => w = Live!NoSocket
  PROVE  LiveInv'
<1> DEFINE hears == Live!HearsSocket(s, l)
           polling == Live!Polling(s, l, hears /\ down)
           before == Live!Polling(state, leaderboard, wsDown)
<1>1. state' = s /\ leaderboard' = l
  BY DEF Live!Rerender
<1>2. PollsSound(polls', Live!pollUrl(s, l))
  <2>1. CASE polling = before
    <3>1. polls' = ps
      BY <2>1 DEF Live!Rerender
    <3>2. polling.url = Live!pollUrl(s, l) /\ before.url = Live!pollUrl(state, leaderboard)
      BY DEF Live!Polling
    <3> HIDE DEF polling, before
    <3> QED
      BY <2>1, <3>1, <3>2
  <2>2. CASE polling # before
    <3> DEFINE disowned == {[p EXCEPT !.mounted = FALSE] : p \in {p \in ps : p.id # known}}
               first == Live!Poll(disowned, polling.url)
    <3>1. polls' = disowned \cup {first} \/ polls' = disowned
      BY <2>2 DEF Live!Rerender, Live!RestartPolls
    <3>2. polling.url = Live!pollUrl(s, l)
      BY DEF Live!Polling
    <3>3. \A p \in disowned : /\ DOMAIN p = {"id", "url", "mounted", "asked"}
                              /\ p.url \in Live!Endpoints /\ p.asked \in Nat /\ ~p.mounted
      <4> TAKE p \in disowned
      <4>1. PICK q \in ps : p = [q EXCEPT !.mounted = FALSE]
        OBVIOUS
      <4>2. DOMAIN q = {"id", "url", "mounted", "asked"}
            /\ q.url \in Live!Endpoints /\ q.asked \in Nat
        BY DEF PollsSound
      <4>3. DOMAIN p = {"id", "url", "mounted", "asked"} /\ p.url = q.url /\ p.asked = q.asked /\ p.mounted = FALSE
        BY <4>1, <4>2
      <4> QED
        BY <4>2, <4>3
    <3> HIDE DEF disowned
    <3>4. /\ DOMAIN first = {"id", "url", "mounted", "asked"}
          /\ first.url = Live!pollUrl(s, l) /\ first.url \in Live!Endpoints /\ first.asked \in Nat
      <4>1. polling.url \in Live!Endpoints
        BY <3>2, UrlIsEndpoint
      <4> HIDE DEF polling
      <4> QED
        BY <3>2, <4>1, NewPoll
    <3> HIDE DEF first
    <3> QED
      BY <3>1, <3>3, <3>4 DEF PollsSound
  <2> QED
    BY <2>1, <2>2
<1>3. live' = IF hears = Live!HearsSocket(state, leaderboard) THEN w
              ELSE IF hears /\ ~Live!HearsSocket(state, leaderboard) THEN Live!NewSocket ELSE Live!NoSocket
  BY DEF Live!Rerender
<1>4. SocketSound(Live!NoSocket) /\ SocketSound(Live!NewSocket)
  <2>1. <<>> \in Seq(Messages(racing["service"]))
    OBVIOUS
  <2>2. Live!NoSocket.frames = <<>> /\ Live!NoSocket.rev = Live!Unset
        /\ DOMAIN Live!NoSocket = {"link", "frames", "data", "rev", "retryTimer"}
    BY DEF Live!NoSocket
  <2>3. Live!NewSocket.frames = <<>> /\ Live!NewSocket.rev = Live!Unset
        /\ DOMAIN Live!NewSocket = {"link", "frames", "data", "rev", "retryTimer"}
    BY DEF Live!NewSocket, Live!NoSocket
  <2> QED
    BY <2>1, <2>2, <2>3 DEF SocketSound
<1>5. SocketSound(live')
  BY <1>3, <1>4
<1>6. ~hears => live' = Live!NoSocket
  <2>1. hears \in BOOLEAN /\ Live!HearsSocket(state, leaderboard) \in BOOLEAN
    BY DEF Live!HearsSocket, Live!OnSocket, Live!useService
  <2> HIDE DEF hears
  <2> QED
    BY <1>3, <2>1
<1>8. SocketSound(live)'
  BY <1>5 DEF SocketSound, Messages, Live!Unset
<1>9. PollsSound(polls, Live!pollUrl(state, leaderboard))'
  BY <1>1, <1>2 DEF PollsSound, Live!pollUrl, Live!useService, Live!Endpoints
<1>10. (~Live!HearsSocket(state, leaderboard) => live = Live!NoSocket)'
  BY <1>1, <1>6 DEF Live!HearsSocket, Live!OnSocket, Live!useService, Live!NoSocket, Live!Unset
<1>11. StateShape(state)' /\ racing' \in [Live!Endpoints -> Nat]
  BY <1>1 DEF StateShape
<1>12. RaceReal(state.currentRace)'
  BY <1>1 DEF RaceReal
<1> QED
  BY <1>8, <1>9, <1>10, <1>11, <1>12 DEF LiveInv

(* The page changes its state without a new race: a choice, a failed poll, nothing at all. *)
LEMMA Reshaped ==
  ASSUME NEW s, StateShape(s), NEW choice, NEW paused, NEW errorCount, NEW race
  PROVE  /\ StateShape([s EXCEPT !.source = choice]) /\ [s EXCEPT !.source = choice].currentRace = s.currentRace
         /\ StateShape([s EXCEPT !.paused = paused]) /\ [s EXCEPT !.paused = paused].currentRace = s.currentRace
         /\ StateShape([s EXCEPT !.errorCount = errorCount])
         /\ [s EXCEPT !.errorCount = errorCount].currentRace = s.currentRace
         /\ StateShape([s EXCEPT !.errorCount = errorCount, !.currentRace = race])
         /\ [s EXCEPT !.errorCount = errorCount, !.currentRace = race].currentRace = race
         /\ StateShape([s EXCEPT !.source = choice, !.currentRace = race, !.errorCount = errorCount])
         /\ [s EXCEPT !.source = choice, !.currentRace = race, !.errorCount = errorCount].currentRace = race
  BY DEF StateShape

LEMMA RaceApplied ==
  ASSUME racing \in [Live!Endpoints -> Nat], NEW s, StateShape(s),
         NEW e \in Live!Endpoints, NEW race \in 0 .. racing[e]
  PROVE  /\ StateShape(Live!applyRace(s, e, race))
         /\ RaceReal(Live!applyRace(s, e, race).currentRace)
         /\ Live!applyRace(s, e, race).currentRace \in {Live!Nothing, [from |-> e, race |-> race]}
<1>1. /\ StateShape(Live!applyRace(s, e, race))
      /\ Live!applyRace(s, e, race).currentRace = Live!activeRaceOf(e, race)
  BY DEF Live!applyRace, StateShape
<1>2. race # 0 => race \in 1 .. racing[e]
  OBVIOUS
<1>3. Live!activeRaceOf(e, race) \in {Live!Nothing, [from |-> e, race |-> race]}
  BY DEF Live!activeRaceOf
<1>4. RaceReal(Live!activeRaceOf(e, race))
  BY <1>2 DEF RaceReal, Live!activeRaceOf
<1> QED
  BY <1>1, <1>3, <1>4

(* A first message of the socket: what the page makes of its copy is the version it leads to. *)
LEMMA FirstMessage ==
  ASSUME racing \in [Live!Endpoints -> Nat], SocketSound(live), live.frames # <<>>
  PROVE  /\ Head(live.frames) \in Messages(racing["service"]) /\ Head(live.frames).rev \in 0 .. racing["service"]
         /\ Tail(live.frames) \in Seq(Messages(racing["service"]))
         /\ Head(live.frames).type \in {"snapshot", "patch"}
         /\ Head(live.frames).type = "patch" => Head(live.frames).base \in 0 .. racing["service"]
<1>1. live.frames \in Seq(Messages(racing["service"]))
  BY DEF SocketSound
<1> DEFINE f == live.frames
           M == Messages(racing["service"])
<1> HIDE DEF M
<1>2. f \in Seq(M) /\ f # <<>>
  BY <1>1 DEF M
<1> HIDE DEF f
<1>3. Head(f) \in M /\ Tail(f) \in Seq(M)
  BY <1>2
<1> USE DEF f, M
<1>4. Head(live.frames) \in Messages(racing["service"]) /\ Tail(live.frames) \in Seq(Messages(racing["service"]))
  BY <1>3
<1> HIDE DEF f, M
<1> QED
  BY <1>4 DEF Messages

(* What an action does to the socket. *)
LEMMA SocketUpdated ==
  ASSUME SocketSound(live), NEW link, NEW sent \in Seq(Messages(racing["service"])), NEW copy, NEW rev, NEW timer,
         rev # Live!Unset => rev \in 0 .. racing["service"] /\ copy = rev
  PROVE  /\ SocketSound([live EXCEPT !.link = link, !.retryTimer = timer])
         /\ SocketSound([live EXCEPT !.link = link, !.frames = sent])
         /\ SocketSound([live EXCEPT !.frames = sent])
         /\ SocketSound([live EXCEPT !.link = link, !.frames = sent, !.rev = Live!Unset, !.retryTimer = timer])
         /\ SocketSound([live EXCEPT !.frames = sent, !.data = copy, !.rev = rev])
<1> DEFINE Ok(w) == /\ DOMAIN w = {"link", "frames", "data", "rev", "retryTimer"}
                    /\ w.frames \in Seq(Messages(racing["service"]))
                    /\ w.rev # Live!Unset => w.rev \in 0 .. racing["service"] /\ w.data = w.rev
<1>1. Ok(live)
  BY DEF SocketSound
<1>2. Ok([live EXCEPT !.link = link, !.retryTimer = timer])
  BY <1>1
<1>3. Ok([live EXCEPT !.link = link, !.frames = sent])
  BY <1>1
<1>4. Ok([live EXCEPT !.frames = sent])
  BY <1>1
<1>5. Ok([live EXCEPT !.link = link, !.frames = sent, !.rev = Live!Unset, !.retryTimer = timer])
  BY <1>1
<1>6. Ok([live EXCEPT !.frames = sent, !.data = copy, !.rev = rev])
  BY <1>1
<1> HIDE DEF Ok
<1>7. ASSUME NEW w, Ok(w) PROVE SocketSound(w)
  BY <1>7 DEF Ok, SocketSound
<1> QED
  BY <1>2, <1>3, <1>4, <1>5, <1>6, <1>7

LEMMA LiveInductive ==
  ASSUME LiveInv, [Live!Next]_liveVars
  PROVE  LiveInv'
<1>1. /\ racing \in [Live!Endpoints -> Nat]
      /\ StateShape(state) /\ RaceReal(state.currentRace)
      /\ SocketSound(live)
      /\ PollsSound(polls, Live!pollUrl(state, leaderboard))
      /\ (~Live!HearsSocket(state, leaderboard) => live = Live!NoSocket)
  BY DEF LiveInv
<1>2. "service" \in Live!Endpoints /\ racing["service"] \in Nat
  BY <1>1 DEF Live!Endpoints
<1>3. live.frames \in Seq(Messages(racing["service"])) /\ <<>> \in Seq(Messages(racing["service"]))
  BY <1>1 DEF SocketSound
<1>4. (live.link = "none" /\ live.retryTimer = FALSE) \/ Live!HearsSocket(state, leaderboard)
  BY <1>1 DEF Live!NoSocket
(* Only the socket changes, to w. *)
<1>5. ASSUME NEW w, SocketSound(w), live' = w, Live!HearsSocket(state, leaderboard),
             UNCHANGED <<racing, state, leaderboard, polls>>
      PROVE  LiveInv'
  <2>1. SocketSound(live)'
    BY <1>5 DEF SocketSound, Messages, Live!Unset
  <2>2. PollsSound(polls, Live!pollUrl(state, leaderboard))'
    BY <1>1, <1>5 DEF PollsSound, Live!pollUrl, Live!useService, Live!Endpoints
  <2>3. Live!HearsSocket(state, leaderboard)'
    BY <1>5 DEF Live!HearsSocket, Live!OnSocket, Live!useService
  <2>4. RaceReal(state.currentRace)'
    BY <1>1, <1>5 DEF RaceReal
  <2>5. StateShape(state)'
    BY <1>1, <1>5 DEF StateShape
  <2> QED
    BY <1>1, <1>5, <2>1, <2>2, <2>3, <2>4, <2>5 DEF LiveInv
(* Nothing of what the invariant is about changes, but requests may be added. *)
<1>6. ASSUME UNCHANGED <<racing, state, leaderboard, live>>, PollsSound(polls', Live!pollUrl(state, leaderboard))
      PROVE  LiveInv'
  <2>1. SocketSound(live)'
    BY <1>1, <1>6 DEF SocketSound, Messages, Live!Unset
  <2>2. PollsSound(polls, Live!pollUrl(state, leaderboard))'
    BY <1>6 DEF PollsSound, Live!pollUrl, Live!useService, Live!Endpoints
  <2>3. (~Live!HearsSocket(state, leaderboard) => live = Live!NoSocket)'
    BY <1>1, <1>6 DEF Live!HearsSocket, Live!OnSocket, Live!useService, Live!NoSocket, Live!Unset
  <2>4. RaceReal(state.currentRace)'
    BY <1>1, <1>6 DEF RaceReal
  <2>5. StateShape(state)'
    BY <1>1, <1>6 DEF StateShape
  <2> QED
    BY <1>1, <1>6, <2>1, <2>2, <2>3, <2>4, <2>5 DEF LiveInv
(* A render with a state of the same race, or none. *)
<1>7. ASSUME NEW s, NEW l, NEW known, NEW down, NEW ps \in SUBSET polls,
             StateShape(s), RaceReal(s.currentRace), UNCHANGED racing,
             Live!Rerender(s, l, down, ps, known, live)
      PROVE  LiveInv'
  <2>1. PollsSound(ps, Live!pollUrl(state, leaderboard))
    BY <1>1 DEF PollsSound
  <2> QED
    BY <1>1, <1>7, <2>1, RerenderKeeps
<1>8. RaceReal(Live!Nothing)
  BY DEF RaceReal
<1>9. ASSUME UNCHANGED liveVars PROVE LiveInv'
  BY <1>1, <1>6, <1>9 DEF liveVars
<1>10. ASSUME NEW choice, Live!setSource(choice) PROVE LiveInv'
  <2> DEFINE s == [state EXCEPT !.source = choice, !.currentRace = Live!Nothing, !.errorCount = 0]
  <2>1. Live!Rerender(s, leaderboard, wsDown, polls, inFlightRef, live) /\ UNCHANGED racing
    BY <1>10 DEF Live!setSource, Live!Choose, Live!worldVars
  <2>2. StateShape(s) /\ s.currentRace = Live!Nothing
    BY <1>1 DEF StateShape
  <2> HIDE DEF s
  <2> QED
    BY <1>7, <1>8, <2>1, <2>2
<1>11. ASSUME Live!setUrl PROVE LiveInv'
  <2> DEFINE s == [state EXCEPT !.source = "custom"]
  <2>1. Live!Rerender(s, leaderboard, wsDown, polls, inFlightRef, live) /\ UNCHANGED racing
    BY <1>11 DEF Live!setUrl, Live!Choose, Live!worldVars
  <2>2. StateShape(s) /\ s.currentRace = state.currentRace
    BY <1>1 DEF StateShape
  <2> HIDE DEF s
  <2> QED
    BY <1>1, <1>7, <2>1, <2>2
<1>12. ASSUME Live!setPaused PROVE LiveInv'
  <2> DEFINE s == [state EXCEPT !.paused = ~@]
  <2>1. Live!Rerender(s, leaderboard, wsDown, polls, inFlightRef, live) /\ UNCHANGED racing
    BY <1>12 DEF Live!setPaused, Live!Choose, Live!worldVars
  <2>2. StateShape(s) /\ s.currentRace = state.currentRace
    BY <1>1 DEF StateShape
  <2> HIDE DEF s
  <2> QED
    BY <1>1, <1>7, <2>1, <2>2
<1>13. ASSUME \/ Live!refreshLeaderboard \/ Live!StatusTick
              \/ (\E l \in Live!Integrations : Live!SetIntegration(l))
              \/ (\E e \in {"java", "custom"} : Live!Outage(e))
       PROVE LiveInv'
  <2>1. UNCHANGED <<racing, state, leaderboard, live, polls>>
    BY <1>13 DEF Live!refreshLeaderboard, Live!StatusTick, Live!SetIntegration, Live!Outage, Live!worldVars
  <2> QED
    BY <1>1, <1>6, <2>1
<1>14. ASSUME NEW l, Live!StatusAnswer(l) PROVE LiveInv'
  BY <1>1, <1>7, <1>14 DEF Live!StatusAnswer, Live!worldVars
<1>15. ASSUME Live!PollTick PROVE LiveInv'
  <2> DEFINE url == Live!pollUrl(state, leaderboard)
             next == Live!Poll(polls, url)
  <2>1. polls' = polls \cup {next} /\ UNCHANGED <<racing, state, leaderboard, live>>
    BY <1>15 DEF Live!PollTick, Live!worldVars
  <2>2. url \in Live!Endpoints
    BY UrlIsEndpoint
  <2>3. DOMAIN next = {"id", "url", "mounted", "asked"} /\ next.url = url /\ next.asked \in Nat
    BY <1>1, <2>2, NewPoll
  <2> HIDE DEF next
  <2>4. PollsSound(polls', url)
    BY <1>1, <2>1, <2>2, <2>3 DEF PollsSound
  <2> QED
    BY <1>6, <2>1, <2>4
<1>16. ASSUME NEW p \in polls, Live!PollAnswered(p) PROVE LiveInv'
  <2>1. PICK race \in p.asked .. racing[p.url] :
          Live!Rerender(IF p.mounted THEN Live!applyRace(state, p.url, race) ELSE state,
                        leaderboard, wsDown, polls \ {p}, 0, live)
    BY <1>16 DEF Live!PollAnswered
  <2>2. p.url \in Live!Endpoints /\ p.asked \in Nat /\ racing' = racing
    BY <1>1, <1>16 DEF PollsSound, Live!PollAnswered, Live!worldVars
  <2>3. race \in 0 .. racing[p.url]
    BY <1>1, <2>1, <2>2
  <2> DEFINE s == IF p.mounted THEN Live!applyRace(state, p.url, race) ELSE state
  <2>4. StateShape(s) /\ RaceReal(s.currentRace)
    <3>1. StateShape(Live!applyRace(state, p.url, race)) /\ RaceReal(Live!applyRace(state, p.url, race).currentRace)
      BY <1>1, <2>2, <2>3, RaceApplied
    <3> QED
      BY <1>1, <3>1
  <2>5. Live!Rerender(s, leaderboard, wsDown, polls \ {p}, 0, live)
    BY <2>1
  <2> HIDE DEF s
  <2> QED
    BY <1>7, <2>2, <2>4, <2>5
<1>17. ASSUME NEW p \in polls, Live!PollFailed(p) PROVE LiveInv'
  <2> DEFINE s == IF p.mounted THEN Live!applyError(state) ELSE state
  <2>1. Live!Rerender(s, leaderboard, wsDown, polls \ {p}, 0, live) /\ racing' = racing
    BY <1>17 DEF Live!PollFailed, Live!worldVars
  <2>2. StateShape(s) /\ s.currentRace = state.currentRace
    BY <1>1 DEF StateShape, Live!applyError
  <2> HIDE DEF s
  <2> QED
    BY <1>1, <1>7, <2>1, <2>2
<1>18. ASSUME Live!Opened PROVE LiveInv'
  <2> DEFINE f == [type |-> "snapshot", base |-> Live!Unset, rev |-> racing["service"]]
  <2>1. live.link = "connecting" /\ live' = [live EXCEPT !.link = "open", !.frames = <<f>>]
        /\ UNCHANGED <<racing, state, leaderboard, polls>>
    BY <1>18 DEF Live!Opened, Live!worldVars
  <2>2. f \in Messages(racing["service"])
    BY <1>2 DEF Messages
  <2> HIDE DEF f
  <2>3. <<f>> \in Seq(Messages(racing["service"]))
    BY <2>2
  <2>4. SocketSound([live EXCEPT !.link = "open", !.frames = <<f>>])
    BY <1>1, <2>3, SocketUpdated
  <2> QED
    BY <1>4, <1>5, <2>1, <2>4
<1>19. ASSUME Live!Closed PROVE LiveInv'
  <2> DEFINE w == [live EXCEPT !.link = "none", !.frames = <<>>, !.rev = Live!Unset, !.retryTimer = TRUE]
  <2>1. live.link # "none" /\ Live!Rerender(state, leaderboard, TRUE, polls, inFlightRef, w) /\ racing' = racing
    BY <1>19 DEF Live!Closed, Live!worldVars
  <2>2. SocketSound(w)
    BY <1>1, <1>3, SocketUpdated
  <2> HIDE DEF w
  <2> QED
    BY <1>1, <1>4, <2>1, <2>2, RerenderKeeps
<1>20. ASSUME Live!RetryTimeout PROVE LiveInv'
  <2>1. live.retryTimer /\ live' = [live EXCEPT !.link = "connecting", !.retryTimer = FALSE]
        /\ UNCHANGED <<racing, state, leaderboard, polls>>
    BY <1>20 DEF Live!RetryTimeout, Live!worldVars
  <2>2. SocketSound([live EXCEPT !.link = "connecting", !.retryTimer = FALSE])
    BY <1>1, <1>3, SocketUpdated
  <2> QED
    BY <1>4, <1>5, <2>1, <2>2
<1>21. ASSUME Live!ReceiveData PROVE LiveInv'
  <2> DEFINE f == Head(live.frames)
             copy == IF f.type = "snapshot" THEN f.rev ELSE Live!Patched(live.data, f)
             w == [live EXCEPT !.frames = Tail(live.frames), !.data = copy, !.rev = f.rev]
  <2>1. /\ live.link = "open" /\ live.frames # <<>> /\ (f.type = "patch" => f.base = live.rev)
        /\ Live!Rerender(Live!applyRace(state, "service", copy), leaderboard, FALSE, polls, inFlightRef, w)
        /\ racing' = racing
    BY <1>21 DEF Live!ReceiveData, Live!worldVars
  <2>2. /\ f.rev \in 0 .. racing["service"] /\ Tail(live.frames) \in Seq(Messages(racing["service"]))
        /\ f.type \in {"snapshot", "patch"} /\ (f.type = "patch" => f.base \in 0 .. racing["service"])
    BY <1>1, <2>1, FirstMessage
  <2>3. copy = f.rev
    <3>1. CASE f.type = "snapshot"
      BY <3>1
    <3>2. CASE f.type = "patch"
      <4>1. live.rev # Live!Unset
        BY <1>2, <2>1, <2>2, <3>2 DEF Live!Unset
      <4>2. live.data = f.base
        BY <1>1, <2>1, <3>2, <4>1 DEF SocketSound
      <4> QED
        BY <3>2, <4>2 DEF Live!Patched
    <3> QED
      BY <2>2, <3>1, <3>2
  <2> HIDE DEF f, copy
  <2>4. SocketSound(w)
    BY <1>1, <2>2, <2>3, SocketUpdated
  <2>5. StateShape(Live!applyRace(state, "service", copy)) /\ RaceReal(Live!applyRace(state, "service", copy).currentRace)
    BY <1>1, <1>2, <2>2, <2>3, RaceApplied
  <2>6. Live!HearsSocket(state, leaderboard)
    BY <1>4, <2>1
  <2> HIDE DEF w
  <2> QED
    BY <1>1, <2>1, <2>4, <2>5, <2>6, RerenderKeeps
<1>22. ASSUME Live!ReceiveGap PROVE LiveInv'
  <2>1. live.link = "open" /\ live' = [live EXCEPT !.link = "closing", !.frames = <<>>]
        /\ UNCHANGED <<racing, state, leaderboard, polls>>
    BY <1>22 DEF Live!ReceiveGap, Live!worldVars
  <2>2. SocketSound([live EXCEPT !.link = "closing", !.frames = <<>>])
    BY <1>1, <1>3, SocketUpdated
  <2> QED
    BY <1>4, <1>5, <2>1, <2>2
(* News: what was sent or shown was there before, and what is sent leads to the present race. *)
<1>23. ASSUME NEW e \in Live!Endpoints, Live!News(e) \/ Live!Heartbeat PROVE LiveInv'
  <2>1. /\ UNCHANGED <<state, leaderboard, polls>>
        /\ racing' \in [Live!Endpoints -> Nat] /\ \A d \in Live!Endpoints : racing[d] <= racing'[d]
    BY <1>1, <1>23 DEF Live!News, Live!Heartbeat
  <2>2. live' = live \/ (live.link = "open" /\ live' = Live!Heard(racing["service"]))
    BY <1>23 DEF Live!News, Live!Heartbeat, Live!Heard
  <2>3. racing["service"] \in Nat /\ racing'["service"] \in Nat /\ racing["service"] <= racing'["service"]
    BY <1>2, <2>1
  <2>4. Messages(racing["service"]) \subseteq Messages(racing'["service"])
    BY <2>3 DEF Messages
  <2>5. live.frames \in Seq(Messages(racing'["service"]))
    BY <1>3, <2>4
  <2> DEFINE Ok(w) == /\ DOMAIN w = {"link", "frames", "data", "rev", "retryTimer"}
                      /\ w.frames \in Seq(Messages(racing'["service"]))
                      /\ w.rev # Live!Unset => w.rev \in 0 .. racing'["service"] /\ w.data = w.rev
  <2>6. Ok(live)
    BY <1>1, <2>3, <2>5 DEF SocketSound
  <2>7. Ok(live')
    <3>1. CASE live' = live
      BY <2>6, <3>1
    <3>2. CASE live.link = "open" /\ live' = Live!Heard(racing["service"])
      <4> DEFINE f == [type |-> "patch", base |-> racing["service"], rev |-> racing'["service"]]
      <4>1. f \in Messages(racing'["service"])
        BY <2>3 DEF Messages
      <4>2. live' = [live EXCEPT !.frames = Append(live.frames, f)]
        BY <3>2 DEF Live!Heard
      <4> HIDE DEF f
      <4>3. Append(live.frames, f) \in Seq(Messages(racing'["service"]))
        BY <2>5, <4>1
      <4> QED
        BY <2>6, <4>2, <4>3
    <3> QED
      BY <2>2, <3>1, <3>2
  <2>8. SocketSound(live)'
    BY <2>7 DEF SocketSound, Messages, Live!Unset
  <2>9. PollsSound(polls, Live!pollUrl(state, leaderboard))'
    BY <1>1, <2>1 DEF PollsSound, Live!pollUrl, Live!useService, Live!Endpoints
  <2>10. (~Live!HearsSocket(state, leaderboard) => live = Live!NoSocket)'
    <3>1. live.link = "open" => Live!HearsSocket(state, leaderboard)
      BY <1>4
    <3>2. ~Live!HearsSocket(state, leaderboard) => live' = Live!NoSocket
      BY <1>1, <2>2, <3>1
    <3> QED
      BY <2>1, <3>2 DEF Live!HearsSocket, Live!OnSocket, Live!useService, Live!NoSocket, Live!Unset
  <2>11. RaceReal(state.currentRace)'
    <3>1. CASE state.currentRace = Live!Nothing
      BY <2>1, <3>1 DEF RaceReal, Live!Nothing
    <3>2. CASE \E d \in Live!Endpoints : \E r \in 1 .. racing[d] : state.currentRace = [from |-> d, race |-> r]
      <4>1. PICK d \in Live!Endpoints : \E r \in 1 .. racing[d] : state.currentRace = [from |-> d, race |-> r]
        BY <3>2
      <4>2. PICK r \in 1 .. racing[d] : state.currentRace = [from |-> d, race |-> r]
        BY <4>1
      <4>3. r \in 1 .. racing'[d]
        BY <1>1, <2>1, <4>2
      <4> QED
        BY <2>1, <4>2, <4>3 DEF RaceReal, Live!Endpoints
    <3> QED
      BY <1>1, <3>1, <3>2 DEF RaceReal
  <2>12. StateShape(state)' /\ (racing \in [Live!Endpoints -> Nat])'
    BY <1>1, <2>1 DEF StateShape, Live!Endpoints
  <2> QED
    BY <2>8, <2>9, <2>10, <2>11, <2>12 DEF LiveInv
<1>24. ASSUME Live!Next PROVE LiveInv'
  <2>1. ASSUME Live!Heartbeat PROVE LiveInv'
    BY <1>2, <1>23, <2>1
  <2> QED
    BY <1>10, <1>11, <1>12, <1>13, <1>14, <1>15, <1>16, <1>17, <1>18, <1>19, <1>20, <1>21, <1>22, <1>23, <1>24, <2>1
       DEF Live!Next
<1> QED
  BY <1>9, <1>24

LEMMA LiveInitially == Live!Init => LiveInv
<1> SUFFICES ASSUME Live!Init PROVE LiveInv
  OBVIOUS
<1>1. racing \in [Live!Endpoints -> Nat] /\ leaderboard = "down"
  BY DEF Live!Init
<1>2. PICK choice \in FirstSources :
        state = [source |-> choice, paused |-> FALSE, errorCount |-> 0, currentRace |-> Live!Nothing]
  BY DEF Live!Init
<1>3. StateShape(state) /\ RaceReal(state.currentRace) /\ state.paused = FALSE
  BY <1>2 DEF StateShape, RaceReal
<1>4. Live!HearsSocket(state, leaderboard) = Live!OnSocket(state, "down")
  BY <1>1, <1>3 DEF Live!HearsSocket, Live!OnSocket, Live!useService
<1>5. SocketSound(Live!NoSocket) /\ SocketSound(Live!NewSocket)
  <2>1. <<>> \in Seq(Messages(racing["service"]))
    OBVIOUS
  <2>2. Live!NoSocket.frames = <<>> /\ Live!NoSocket.rev = Live!Unset
        /\ DOMAIN Live!NoSocket = {"link", "frames", "data", "rev", "retryTimer"}
    BY DEF Live!NoSocket
  <2>3. Live!NewSocket.frames = <<>> /\ Live!NewSocket.rev = Live!Unset
        /\ DOMAIN Live!NewSocket = {"link", "frames", "data", "rev", "retryTimer"}
    BY DEF Live!NewSocket, Live!NoSocket
  <2> QED
    BY <2>1, <2>2, <2>3 DEF SocketSound
<1>6. CASE Live!OnSocket(state, "down")
  <2>1. polls = {} /\ live = Live!NewSocket
    BY <1>6 DEF Live!Init
  <2> QED
    BY <1>1, <1>3, <1>4, <1>5, <1>6, <2>1 DEF LiveInv, PollsSound
<1>7. CASE ~Live!OnSocket(state, "down")
  <2> DEFINE first == Live!Poll({}, Live!pollUrl(state, "down"))
  <2>1. polls = {first} /\ live = Live!NoSocket
    BY <1>7 DEF Live!Init
  <2>2. Live!pollUrl(state, "down") \in Live!Endpoints
    BY UrlIsEndpoint
  <2>3. DOMAIN first = {"id", "url", "mounted", "asked"} /\ first.url = Live!pollUrl(state, "down")
        /\ first.asked \in Nat
    BY <1>1, <2>2, NewPoll
  <2> HIDE DEF first
  <2>4. PollsSound(polls, Live!pollUrl(state, leaderboard))
    BY <1>1, <2>1, <2>2, <2>3 DEF PollsSound
  <2> QED
    BY <1>1, <1>3, <1>5, <2>1, <2>4 DEF LiveInv
<1> QED
  BY <1>6, <1>7

LEMMA LiveInvRaceReal == LiveInv => Live!RaceShownReal
<1> SUFFICES ASSUME LiveInv PROVE Live!RaceShownReal
  OBVIOUS
<1>1. RaceReal(state.currentRace) /\ SocketSound(live)
  BY DEF LiveInv
<1>2. state.currentRace # Live!Nothing => state.currentRace.race \in 1 .. racing[state.currentRace.from]
  <2>1. SUFFICES ASSUME state.currentRace # Live!Nothing
                 PROVE  state.currentRace.race \in 1 .. racing[state.currentRace.from]
    OBVIOUS
  <2>2. PICK e \in Live!Endpoints : \E r \in 1 .. racing[e] : state.currentRace = [from |-> e, race |-> r]
    BY <1>1, <2>1 DEF RaceReal
  <2>3. PICK r \in 1 .. racing[e] : state.currentRace = [from |-> e, race |-> r]
    BY <2>2
  <2> QED
    BY <2>3
<1> QED
  BY <1>1, <1>2 DEF Live!RaceShownReal, SocketSound

(* Only an answer that is still heard and a message of the socket bring a race, and both are of the
   endpoint in use. *)
LEMMA LiveStepShows ==
  ASSUME LiveInv, [Live!Next]_liveVars
  PROVE  Live!ShownFromSource
<1>1. /\ racing \in [Live!Endpoints -> Nat] /\ StateShape(state) /\ SocketSound(live)
      /\ PollsSound(polls, Live!pollUrl(state, leaderboard))
      /\ (~Live!HearsSocket(state, leaderboard) => live = Live!NoSocket)
  BY DEF LiveInv
<1>2. ASSUME NEW s, NEW l, NEW down, NEW ps, NEW known, NEW w,
             Live!Rerender(s, l, down, ps, known, w),
             \/ s.currentRace \in {state.currentRace, Live!Nothing}
             \/ s.currentRace.from = Live!pollUrl(state, leaderboard)
      PROVE  Live!ShownFromSource
  BY <1>2 DEF Live!Rerender, Live!ShownFromSource
<1>3. ASSUME state' = state PROVE Live!ShownFromSource
  BY <1>3 DEF Live!ShownFromSource
<1>4. ASSUME NEW choice, Live!setSource(choice) PROVE Live!ShownFromSource
  <2> DEFINE s == [state EXCEPT !.source = choice, !.currentRace = Live!Nothing, !.errorCount = 0]
  <2>1. Live!Rerender(s, leaderboard, wsDown, polls, inFlightRef, live)
    BY <1>4 DEF Live!setSource, Live!Choose
  <2>2. s.currentRace = Live!Nothing
    BY <1>1 DEF StateShape
  <2> HIDE DEF s
  <2> QED
    BY <1>2, <2>1, <2>2
<1>5. ASSUME Live!setUrl PROVE Live!ShownFromSource
  <2> DEFINE s == [state EXCEPT !.source = "custom"]
  <2>1. Live!Rerender(s, leaderboard, wsDown, polls, inFlightRef, live)
    BY <1>5 DEF Live!setUrl, Live!Choose
  <2>2. s.currentRace = state.currentRace
    BY <1>1 DEF StateShape
  <2> HIDE DEF s
  <2> QED
    BY <1>2, <2>1, <2>2
<1>6. ASSUME Live!setPaused PROVE Live!ShownFromSource
  <2> DEFINE s == [state EXCEPT !.paused = ~@]
  <2>1. Live!Rerender(s, leaderboard, wsDown, polls, inFlightRef, live)
    BY <1>6 DEF Live!setPaused, Live!Choose
  <2>2. s.currentRace = state.currentRace
    BY <1>1 DEF StateShape
  <2> HIDE DEF s
  <2> QED
    BY <1>2, <2>1, <2>2
<1>7. ASSUME NEW l, Live!StatusAnswer(l) PROVE Live!ShownFromSource
  BY <1>2, <1>7 DEF Live!StatusAnswer
<1>8. ASSUME NEW p \in polls, Live!PollAnswered(p) PROVE Live!ShownFromSource
  <2>1. PICK race \in p.asked .. racing[p.url] :
          Live!Rerender(IF p.mounted THEN Live!applyRace(state, p.url, race) ELSE state,
                        leaderboard, wsDown, polls \ {p}, 0, live)
    BY <1>8 DEF Live!PollAnswered
  <2>2. p.url \in Live!Endpoints /\ p.asked \in Nat /\ (p.mounted => p.url = Live!pollUrl(state, leaderboard))
    BY <1>1, <1>8 DEF PollsSound
  <2>3. race \in 0 .. racing[p.url]
    BY <1>1, <2>1, <2>2
  <2>4. Live!applyRace(state, p.url, race).currentRace \in {Live!Nothing, [from |-> p.url, race |-> race]}
    BY <1>1, <2>2, <2>3, RaceApplied
  <2> DEFINE s == IF p.mounted THEN Live!applyRace(state, p.url, race) ELSE state
  <2>5. \/ s.currentRace \in {state.currentRace, Live!Nothing}
        \/ s.currentRace.from = Live!pollUrl(state, leaderboard)
    BY <2>2, <2>4
  <2>6. Live!Rerender(s, leaderboard, wsDown, polls \ {p}, 0, live)
    BY <2>1
  <2> HIDE DEF s
  <2> QED
    BY <1>2, <2>5, <2>6
<1>9. ASSUME NEW p \in polls, Live!PollFailed(p) PROVE Live!ShownFromSource
  <2> DEFINE s == IF p.mounted THEN Live!applyError(state) ELSE state
  <2>1. Live!Rerender(s, leaderboard, wsDown, polls \ {p}, 0, live)
    BY <1>9 DEF Live!PollFailed
  <2>2. s.currentRace = state.currentRace
    BY <1>1 DEF StateShape, Live!applyError
  <2> HIDE DEF s
  <2> QED
    BY <1>2, <2>1, <2>2
<1>10. ASSUME Live!Closed PROVE Live!ShownFromSource
  BY <1>2, <1>10 DEF Live!Closed
<1>11. ASSUME Live!ReceiveData PROVE Live!ShownFromSource
  <2> DEFINE f == Head(live.frames)
             copy == IF f.type = "snapshot" THEN f.rev ELSE Live!Patched(live.data, f)
             w == [live EXCEPT !.frames = Tail(live.frames), !.data = copy, !.rev = f.rev]
  <2>1. live.link = "open" /\ Live!Rerender(Live!applyRace(state, "service", copy), leaderboard, FALSE, polls, inFlightRef, w)
    BY <1>11 DEF Live!ReceiveData
  <2> HIDE DEF copy, w
  <2>2. Live!HearsSocket(state, leaderboard)
    BY <1>1, <2>1 DEF Live!NoSocket
  <2>3. Live!pollUrl(state, leaderboard) = "service"
    BY <2>2, UrlIsEndpoint
  <2>4. Live!applyRace(state, "service", copy).currentRace \in {Live!Nothing, [from |-> "service", race |-> copy]}
    BY <1>1 DEF Live!applyRace, StateShape, Live!activeRaceOf
  <2> DEFINE s == Live!applyRace(state, "service", copy)
  <2>5. s.currentRace = Live!Nothing \/ s.currentRace.from = "service"
    BY <2>4
  <2>6. Live!Rerender(s, leaderboard, FALSE, polls, inFlightRef, w)
    BY <2>1
  <2> HIDE DEF s
  <2> QED
    BY <1>2, <2>3, <2>5, <2>6
<1>12. ASSUME \/ Live!refreshLeaderboard \/ Live!StatusTick \/ Live!PollTick
              \/ Live!Opened \/ Live!RetryTimeout \/ Live!ReceiveGap \/ Live!Heartbeat
              \/ (\E e \in Live!Endpoints : Live!News(e))
              \/ (\E l \in Live!Integrations : Live!SetIntegration(l))
              \/ (\E e \in {"java", "custom"} : Live!Outage(e))
       PROVE Live!ShownFromSource
  BY <1>3, <1>12 DEF Live!refreshLeaderboard, Live!StatusTick, Live!PollTick, Live!Opened, Live!RetryTimeout,
                     Live!ReceiveGap, Live!Heartbeat, Live!News, Live!SetIntegration, Live!Outage
<1>13. ASSUME UNCHANGED liveVars PROVE Live!ShownFromSource
  BY <1>3, <1>13 DEF liveVars
<1> QED
  BY <1>4, <1>5, <1>6, <1>7, <1>8, <1>9, <1>10, <1>11, <1>12, <1>13 DEF Live!Next
-----------------------------------------------------------------------------
(* The projection of the live results.  A copy of the session with its present revision is the session,
   a write under way to a running one was made for an earlier revision, and every passing of the
   results is one of their window and of the store, known to a feed that is up to date and not cut off
   by the worker's copy of the session unless by the session itself. *)
SessionShape(s) ==
  /\ DOMAIN s = {"rev", "setup", "running", "from", "to"} /\ s.rev \in Nat
  /\ s.from \in Nat \cup {Absent} /\ s.to \in Nat \cup {Absent}

Known(r) == IF r = Absent THEN {} ELSE r.passings

SessionSound(s, page, pending) ==
  /\ SessionShape(s) /\ SessionShape(page)
  /\ page.rev <= s.rev /\ (page.rev = s.rev => page = s)
  /\ \A w \in pending : /\ w.baseRev \in Nat /\ w.baseRev <= s.rev
                        /\ s.running => w.baseRev # s.rev
  /\ s.running => s.to = Absent

FeedSound(feed, top) ==
  /\ DOMAIN feed = {"key", "isLive", "last"} /\ top \in Nat
  /\ feed.last \in Nat /\ feed.last <= top

ResultsSound(r, feed, top, s, known) ==
  \A seq \in Known(r) :
    /\ seq \in 1 .. top
    /\ r.from \in Nat /\ r.from < seq
    /\ feed.isLive => seq <= feed.last
    /\ seq \in Projecting!InWindow(top, s) /\ known # Absent /\ known.to # Absent => seq <= known.to

ProjectionInv ==
  /\ SessionSound(session, pageSession, activations)
  /\ workerSession # Absent => SessionShape(workerSession)
  /\ FeedSound(passingFeed, lastStored)
  /\ ResultsSound(results, passingFeed, lastStored, session, workerSession)

LEMMA ProjectionConstants == Absent \notin Nat
  BY RaceDayAssumption

LEMMA ProjectionInitially == Projecting!Init => ProjectionInv
<1> SUFFICES ASSUME Projecting!Init PROVE ProjectionInv
  OBVIOUS
<1>1. /\ session.rev = 0 /\ session.from = Absent /\ session.to = Absent
      /\ DOMAIN session = {"rev", "setup", "running", "from", "to"}
  BY DEF Projecting!Init
<1>2. /\ pageSession = session /\ activations = {} /\ workerSession = Absent /\ lastStored = 0
      /\ passingFeed = Projecting!NoFeed /\ results = Absent
  BY DEF Projecting!Init
<1>3. FeedSound(passingFeed, lastStored)
  BY <1>2 DEF Projecting!NoFeed, FeedSound
<1>4. SessionSound(session, pageSession, activations)
  BY <1>1, <1>2 DEF SessionSound, SessionShape
<1>5. ResultsSound(results, passingFeed, lastStored, session, workerSession)
  BY <1>2 DEF ResultsSound, Known
<1> QED
  BY <1>2, <1>3, <1>4, <1>5 DEF ProjectionInv

(* The window only loses what it had, but for the passings that are stored later. *)
LEMMA InTheWindow ==
  ASSUME NEW top \in Nat, NEW s, SessionShape(s), NEW seq \in Nat
  PROVE  seq \in Projecting!InWindow(top, s) <=>
           /\ s.from # Absent /\ s.from < seq /\ seq <= top
           /\ s.to = Absent \/ seq <= s.to
<1>1. CASE s.from = Absent
  BY <1>1 DEF Projecting!InWindow
<1>2. CASE s.from # Absent
  <2>1. s.from \in Nat
    BY <1>2 DEF SessionShape
  <2>2. Projecting!InWindow(top, s) = {n \in s.from + 1 .. top : s.to = Absent \/ n <= s.to}
    BY <1>2 DEF Projecting!InWindow
  <2>3. seq \in s.from + 1 .. top <=> s.from < seq /\ seq <= top
    BY <2>1
  <2> QED
    BY <1>2, <2>2, <2>3
<1> QED
  BY <1>1, <1>2

(* A step of the worker that writes no results: the session rests, a copy of it may come, the feed
   begins anew or catches up. *)
LEMMA WorkerKeeps ==
  ASSUME ProjectionInv, UNCHANGED <<session, pageSession, activations, lastStored, results>>,
         NEW feed, passingFeed' = feed, FeedSound(feed, lastStored),
         feed = passingFeed \/ feed.isLive = FALSE \/ feed.last = lastStored,
         workerSession' \in {workerSession, session}
  PROVE  ProjectionInv'
<1>1. SessionSound(session, pageSession, activations) /\ FeedSound(passingFeed, lastStored)
      /\ (workerSession # Absent => SessionShape(workerSession))
      /\ ResultsSound(results, passingFeed, lastStored, session, workerSession)
  BY DEF ProjectionInv
<1>2. SessionShape(session) /\ lastStored \in Nat
  BY <1>1 DEF SessionSound, FeedSound
<1>3. ASSUME NEW seq \in Known(results)
      PROVE  /\ seq \in 1 .. lastStored
             /\ results.from \in Nat /\ results.from < seq
             /\ feed.isLive => seq <= feed.last
             /\ seq \in Projecting!InWindow(lastStored, session) /\ workerSession' # Absent /\ workerSession'.to # Absent
                  => seq <= workerSession'.to
  <2>1. /\ seq \in 1 .. lastStored /\ results.from \in Nat /\ results.from < seq
        /\ passingFeed.isLive => seq <= passingFeed.last
        /\ seq \in Projecting!InWindow(lastStored, session) /\ workerSession # Absent /\ workerSession.to # Absent
             => seq <= workerSession.to
    BY <1>1, <1>3 DEF ResultsSound
  <2>2. feed.isLive => seq <= feed.last
    BY <2>1
  <2>3. seq \in Projecting!InWindow(lastStored, session) /\ session.to # Absent => seq <= session.to
    BY <1>2, <2>1, InTheWindow
  <2> QED
    BY <2>1, <2>2, <2>3
<1>4. ResultsSound(results, feed, lastStored, session, workerSession')
  BY <1>3 DEF ResultsSound
<1>5. ResultsSound(results, passingFeed, lastStored, session, workerSession)'
  BY <1>4 DEF ResultsSound, Known, Projecting!InWindow
<1>6. (workerSession # Absent => SessionShape(workerSession))'
  BY <1>1, <1>2 DEF SessionShape
<1>7. SessionSound(session, pageSession, activations)'
  BY <1>1 DEF SessionSound, SessionShape
<1>8. FeedSound(passingFeed, lastStored)'
  BY DEF FeedSound
<1> QED
  BY <1>5, <1>6, <1>7, <1>8 DEF ProjectionInv

(* A step of the page, the hub or the store. *)
LEMMA SessionKeeps ==
  ASSUME ProjectionInv, UNCHANGED <<workerSession, passingFeed, results>>,
         NEW s, NEW page, NEW pending, NEW top,
         session' = s, pageSession' = page, activations' = pending, lastStored' = top,
         SessionSound(s, page, pending), top \in Nat, lastStored <= top,
         \A seq \in 1 .. lastStored : seq \in Projecting!InWindow(top, s) =>
           \/ seq \in Projecting!InWindow(lastStored, session)
           \/ workerSession.to = Absent
  PROVE  ProjectionInv'
<1>1. SessionSound(session, pageSession, activations) /\ FeedSound(passingFeed, lastStored)
      /\ (workerSession # Absent => SessionShape(workerSession))
      /\ ResultsSound(results, passingFeed, lastStored, session, workerSession)
  BY DEF ProjectionInv
<1>2. ASSUME NEW seq \in Known(results)
      PROVE  /\ seq \in 1 .. top
             /\ results.from \in Nat /\ results.from < seq
             /\ passingFeed.isLive => seq <= passingFeed.last
             /\ seq \in Projecting!InWindow(top, s) /\ workerSession # Absent /\ workerSession.to # Absent
                  => seq <= workerSession.to
  <2>1. /\ seq \in 1 .. lastStored /\ results.from \in Nat /\ results.from < seq
        /\ passingFeed.isLive => seq <= passingFeed.last
        /\ seq \in Projecting!InWindow(lastStored, session) /\ workerSession # Absent /\ workerSession.to # Absent
             => seq <= workerSession.to
    BY <1>1, <1>2 DEF ResultsSound
  <2>2. lastStored \in Nat
    BY <1>1 DEF FeedSound
  <2>3. seq \in 1 .. top
    BY <2>1, <2>2
  <2> QED
    BY <2>1, <2>3
<1>3. ResultsSound(results, passingFeed, top, s, workerSession)
  BY <1>2 DEF ResultsSound
<1>4. ResultsSound(results, passingFeed, lastStored, session, workerSession)'
  BY <1>3 DEF ResultsSound, Known, Projecting!InWindow
<1>5. FeedSound(passingFeed, lastStored)'
  BY <1>1 DEF FeedSound
<1>6. SessionSound(session, pageSession, activations)'
  BY DEF SessionSound, SessionShape
<1>7. (workerSession # Absent => SessionShape(workerSession))'
  BY <1>1 DEF SessionShape
<1> QED
  BY <1>4, <1>5, <1>6, <1>7 DEF ProjectionInv

(* A command of the operator: the worker has the present session. *)
LEMMA MeasureKeeps ==
  ASSUME ProjectionInv, NEW running, NEW from, NEW to,
         Projecting!Measure(running, from, to),
         \/ to = Absent /\ from \in {lastStored, Absent}
         \/ to = lastStored /\ from = session.from /\ session.running /\ running = FALSE
  PROVE  ProjectionInv'
<1>1. SessionSound(session, pageSession, activations) /\ lastStored \in Nat
  BY DEF ProjectionInv, FeedSound
<1>2. SessionShape(session) /\ SessionShape(pageSession)
  BY <1>1 DEF SessionSound
<1> DEFINE s == [session EXCEPT !.rev = @ + 1, !.running = running, !.from = from, !.to = to]
<1>3. /\ workerSession = session /\ session' = s
      /\ UNCHANGED <<lastStored, pageSession, activations, workerSession, passingFeed, results>>
  BY DEF Projecting!Measure, Projecting!storedDocs, Projecting!workerVars
<1>4. /\ DOMAIN s = {"rev", "setup", "running", "from", "to"}
      /\ s.rev = session.rev + 1 /\ s.running = running /\ s.from = from /\ s.to = to
  BY <1>2 DEF SessionShape
<1> HIDE DEF s
<1>5. SessionShape(s)
  BY <1>1, <1>2, <1>4 DEF SessionShape
<1>6. SessionSound(s, pageSession, activations)
  <2>1. pageSession.rev <= session.rev /\ pageSession.rev \in Nat /\ session.rev \in Nat
    BY <1>1, <1>2 DEF SessionSound, SessionShape
  <2>2. pageSession.rev <= s.rev /\ pageSession.rev # s.rev
    BY <1>4, <2>1
  <2>3. ASSUME NEW w \in activations
        PROVE  w.baseRev \in Nat /\ w.baseRev <= s.rev /\ w.baseRev # s.rev
    <3>1. w.baseRev \in Nat /\ w.baseRev <= session.rev
      BY <1>1, <2>3 DEF SessionSound
    <3> QED
      BY <1>4, <2>1, <3>1
  <2>4. s.running => s.to = Absent
    BY <1>4
  <2> QED
    BY <1>2, <1>5, <2>2, <2>3, <2>4 DEF SessionSound
<1>7. ASSUME NEW seq \in 1 .. lastStored, seq \in Projecting!InWindow(lastStored, s)
      PROVE  seq \in Projecting!InWindow(lastStored, session) \/ workerSession.to = Absent
  <2>1. from # Absent /\ from < seq /\ seq <= lastStored
    BY <1>1, <1>4, <1>5, <1>7, InTheWindow
  <2>2. from # lastStored
    BY <1>1, <2>1
  <2>3. session.running
    BY <2>1, <2>2
  <2>4. session.to = Absent
    BY <1>1, <2>3 DEF SessionSound
  <2> QED
    BY <1>3, <2>4
<1> QED
  BY <1>1, <1>3, <1>6, <1>7, SessionKeeps

LEMMA ProjectionInductive ==
  ASSUME ProjectionInv, [Projecting!Next]_projectionVars
  PROVE  ProjectionInv'
<1>1. /\ SessionSound(session, pageSession, activations) /\ FeedSound(passingFeed, lastStored)
      /\ (workerSession # Absent => SessionShape(workerSession))
      /\ ResultsSound(results, passingFeed, lastStored, session, workerSession)
  BY DEF ProjectionInv
<1>2. SessionShape(session) /\ SessionShape(pageSession) /\ lastStored \in Nat
  BY <1>1 DEF SessionSound, FeedSound
(* The page and the hub, while the windows stay. *)
<1>3. ASSUME NEW s, NEW page, NEW pending, session' = s, pageSession' = page, activations' = pending,
             SessionSound(s, page, pending), s.from = session.from, s.to = session.to,
             UNCHANGED <<lastStored, workerSession, passingFeed, results>>
      PROVE  ProjectionInv'
  <2>1. \A seq \in 1 .. lastStored : seq \in Projecting!InWindow(lastStored, s) =>
          seq \in Projecting!InWindow(lastStored, session)
    BY <1>3 DEF Projecting!InWindow
  <2> QED
    BY <1>2, <1>3, <2>1, SessionKeeps
<1>4. ASSUME Projecting!PageHears PROVE ProjectionInv'
  <2>1. /\ pageSession' = session /\ session' = session /\ activations' = activations
        /\ UNCHANGED <<lastStored, workerSession, passingFeed, results>>
    BY <1>4 DEF Projecting!PageHears, Projecting!storedDocs, Projecting!workerVars
  <2>2. SessionSound(session, session, activations)
    BY <1>1, <1>2 DEF SessionSound, SessionShape
  <2> QED
    BY <1>3, <2>1, <2>2
<1>5. ASSUME NEW setup, Projecting!activate(setup) PROVE ProjectionInv'
  <2> DEFINE write == [baseRev |-> pageSession.rev, setup |-> setup]
  <2>1. /\ ~pageSession.running /\ activations' \in {activations, activations \cup {write}}
        /\ UNCHANGED <<session, pageSession, lastStored, workerSession, passingFeed, results>>
    BY <1>5 DEF Projecting!activate, Projecting!storedDocs, Projecting!workerVars
  <2>2. write.baseRev = pageSession.rev
    OBVIOUS
  <2> HIDE DEF write
  <2>3. pageSession.rev \in Nat /\ pageSession.rev <= session.rev /\ (session.running => pageSession.rev # session.rev)
    BY <1>1, <1>2, <2>1 DEF SessionSound, SessionShape
  <2>4. \A w \in activations \cup {write} : w.baseRev \in Nat /\ w.baseRev <= session.rev
                                            /\ (session.running => w.baseRev # session.rev)
    <3> TAKE w \in activations \cup {write}
    <3>1. CASE w \in activations
      BY <1>1, <3>1 DEF SessionSound
    <3>2. CASE w = write
      BY <2>2, <2>3, <3>2
    <3> QED
      BY <3>1, <3>2
  <2>5. SessionSound(session, pageSession, activations')
    BY <1>1, <2>1, <2>4 DEF SessionSound
  <2> QED
    BY <1>3, <2>1, <2>5
<1>6. ASSUME NEW w \in activations, Projecting!Activated(w) PROVE ProjectionInv'
  <2> DEFINE s == [session EXCEPT !.rev = @ + 1, !.setup = w.setup]
  <2>1. /\ activations' = activations \ {w} /\ UNCHANGED <<pageSession, lastStored, workerSession, passingFeed, results>>
        /\ session' = IF w.baseRev = session.rev THEN s ELSE session
    BY <1>6 DEF Projecting!Activated, Projecting!storedDocs, Projecting!workerVars
  <2>2. CASE w.baseRev # session.rev
    <3>1. SessionSound(session, pageSession, activations \ {w})
      BY <1>1 DEF SessionSound
    <3> QED
      BY <1>3, <2>1, <2>2, <3>1
  <2>3. CASE w.baseRev = session.rev
    <3>1. ~session.running /\ session.rev \in Nat /\ pageSession.rev \in Nat /\ pageSession.rev <= session.rev
      BY <1>1, <1>2, <1>6, <2>3 DEF SessionSound, SessionShape
    <3>2. /\ DOMAIN s = {"rev", "setup", "running", "from", "to"} /\ s.rev = session.rev + 1
          /\ s.from = session.from /\ s.to = session.to /\ s.running = session.running
      BY <1>2 DEF SessionShape
    <3> HIDE DEF s
    <3>3. SessionShape(s)
      BY <1>2, <3>1, <3>2 DEF SessionShape
    <3>4. \A v \in activations \ {w} : v.baseRev \in Nat /\ v.baseRev <= s.rev
      <4> TAKE v \in activations \ {w}
      <4>1. v.baseRev \in Nat /\ v.baseRev <= session.rev
        BY <1>1 DEF SessionSound
      <4> QED
        BY <3>1, <3>2, <4>1
    <3>5. pageSession.rev <= s.rev /\ pageSession.rev # s.rev
      BY <3>1, <3>2
    <3>6. SessionSound(s, pageSession, activations \ {w})
      BY <1>2, <3>1, <3>2, <3>3, <3>4, <3>5 DEF SessionSound
    <3> QED
      BY <1>3, <2>1, <2>3, <3>2, <3>6
  <2> QED
    BY <2>2, <2>3
<1>7. ASSUME \/ \E setup \in Setups, pools \in SUBSET Pools : Projecting!EditSetup(setup, pools)
             \/ \E pool \in Pools : Projecting!EditPool(pool)
      PROVE  ProjectionInv'
  <2>1. UNCHANGED <<session, pageSession, activations, lastStored, workerSession, passingFeed, results>>
    BY <1>7 DEF Projecting!EditSetup, Projecting!EditPool, Projecting!workerVars
  <2> QED
    BY <1>1, <1>3, <2>1
<1>8. ASSUME Projecting!Start \/ Projecting!Stop \/ Projecting!Reset PROVE ProjectionInv'
  <2>1. CASE Projecting!Start
    BY <2>1, MeasureKeeps DEF Projecting!Start
  <2>2. CASE Projecting!Stop
    BY <2>2, MeasureKeeps DEF Projecting!Stop
  <2>3. CASE Projecting!Reset
    BY <2>3, MeasureKeeps DEF Projecting!Reset
  <2> QED
    BY <1>8, <2>1, <2>2, <2>3
<1>9. ASSUME Projecting!PassingStored PROVE ProjectionInv'
  <2>1. lastStored' = lastStored + 1
        /\ UNCHANGED <<session, pageSession, activations, workerSession, passingFeed, results>>
    BY <1>9 DEF Projecting!PassingStored, Projecting!workerVars
  <2>2. ASSUME NEW seq \in 1 .. lastStored, seq \in Projecting!InWindow(lastStored + 1, session)
        PROVE  seq \in Projecting!InWindow(lastStored, session)
    BY <1>2, <2>2, InTheWindow
  <2> QED
    BY <1>1, <1>2, <2>1, <2>2, SessionKeeps
(* The worker. *)
<1>10. ASSUME NEW feed, passingFeed' = feed, FeedSound(feed, lastStored),
              feed = passingFeed \/ feed.isLive = FALSE \/ feed.last = lastStored,
              workerSession' \in {workerSession, session}, Projecting!Unchanged
       PROVE  ProjectionInv'
  BY <1>10, WorkerKeeps DEF Projecting!Unchanged, Projecting!storedDocs
<1>11. ASSUME \/ Projecting!SetupData \/ Projecting!RuntimeData \/ Projecting!syncAdapterLifecycle
              \/ Projecting!ProjectLater \/ Projecting!ProjectNothing
              \/ \E pool \in Pools : Projecting!PoolData(pool)
       PROVE  ProjectionInv'
  <2>1. Projecting!Unchanged /\ UNCHANGED <<workerSession, passingFeed>>
    BY <1>11 DEF Projecting!SetupData, Projecting!RuntimeData, Projecting!syncAdapterLifecycle,
                 Projecting!ProjectLater, Projecting!ProjectNothing, Projecting!PoolData
  <2> QED
    BY <1>1, <1>10, <2>1
<1>12. ASSUME Projecting!SessionData PROVE ProjectionInv'
  <2>1. Projecting!Unchanged /\ workerSession' = session /\ passingFeed' = passingFeed
    BY <1>12 DEF Projecting!SessionData
  <2> QED
    BY <1>1, <1>10, <2>1
<1>13. ASSUME Projecting!FeedChange PROVE ProjectionInv'
  <2> DEFINE feed == [passingFeed EXCEPT !.isLive = TRUE, !.last = lastStored]
  <2>1. Projecting!Unchanged /\ workerSession' = workerSession /\ passingFeed' = feed
    BY <1>13 DEF Projecting!FeedChange
  <2>2. DOMAIN feed = {"key", "isLive", "last"} /\ feed.last = lastStored
    BY <1>1 DEF FeedSound
  <2> HIDE DEF feed
  <2>3. FeedSound(feed, lastStored)
    BY <1>2, <2>2 DEF FeedSound
  <2> QED
    BY <1>10, <2>1, <2>2, <2>3
<1>14. ASSUME NEW k PROVE LET feed == [Projecting!NoFeed EXCEPT !.key = k]
                          IN  FeedSound(feed, lastStored) /\ feed.isLive = FALSE
  BY <1>2 DEF FeedSound, Projecting!NoFeed
<1>15. ASSUME Projecting!FeedReopens PROVE ProjectionInv'
  <2> DEFINE feed == [Projecting!NoFeed EXCEPT !.key = passingFeed.key]
  <2>1. Projecting!Unchanged /\ workerSession' = workerSession /\ passingFeed' = feed
    BY <1>15 DEF Projecting!FeedReopens
  <2>2. FeedSound(feed, lastStored) /\ feed.isLive = FALSE
    BY <1>14
  <2> HIDE DEF feed
  <2> QED
    BY <1>10, <2>1, <2>2
<1>16. ASSUME Projecting!Project PROVE ProjectionInv'
  <2> DEFINE feed == Projecting!configured
             r == [Projecting!Projected(feed) EXCEPT !.athletes = poolClients']
  <2>1. /\ passingFeed' = feed /\ workerSession # Absent
        /\ UNCHANGED <<session, pageSession, activations, lastStored, workerSession>>
        /\ results' = results \/ (Projecting!CanProject(feed) /\ results' = r)
    BY <1>16 DEF Projecting!Project, Projecting!storedDocs
  <2>2. feed = passingFeed \/ \E k : feed = [Projecting!NoFeed EXCEPT !.key = k]
    BY DEF Projecting!configured
  <2>3. FeedSound(feed, lastStored) /\ (feed = passingFeed \/ feed.isLive = FALSE)
    BY <1>1, <1>14, <2>2
  <2>4. r.from = workerSession.from /\ r.passings = Projecting!InWindow(feed.last, workerSession)
    BY DEF Projecting!Projected
  <2> HIDE DEF feed, r
  <2>5. CASE results' = results
    BY <2>1, <2>3, <2>5, WorkerKeeps
  <2>6. CASE Projecting!CanProject(feed) /\ results' = r
    <3>1. ASSUME NEW seq \in Known(r)
          PROVE  /\ seq \in 1 .. lastStored /\ r.from \in Nat /\ r.from < seq /\ seq <= feed.last
                 /\ workerSession.to # Absent => seq <= workerSession.to
      <4>1. seq \in Projecting!InWindow(feed.last, workerSession)
        BY <2>4, <3>1 DEF Known
      <4>2. workerSession.from # Absent
        BY <4>1 DEF Projecting!InWindow
      <4>3. SessionShape(workerSession) /\ feed.last \in Nat /\ feed.last <= lastStored
        BY <1>1, <2>1, <2>3 DEF FeedSound
      <4>4. workerSession.from \in Nat
        BY <4>2, <4>3 DEF SessionShape
      <4>5. seq \in workerSession.from + 1 .. feed.last
        BY <4>1, <4>2 DEF Projecting!InWindow
      <4>6. seq \in Nat /\ seq \in 1 .. lastStored
        BY <1>2, <4>3, <4>4, <4>5
      <4> QED
        BY <2>4, <4>1, <4>3, <4>4, <4>6, InTheWindow
    <3>2. ResultsSound(r, feed, lastStored, session, workerSession)
      BY <3>1 DEF ResultsSound
    <3>3. ResultsSound(results, passingFeed, lastStored, session, workerSession)'
      BY <2>1, <2>6, <3>2 DEF ResultsSound, Known, Projecting!InWindow
    <3>4. SessionSound(session, pageSession, activations)'
      BY <1>1, <2>1 DEF SessionSound, SessionShape
    <3>5. FeedSound(passingFeed, lastStored)'
      BY <2>1, <2>3 DEF FeedSound
    <3>6. (workerSession # Absent => SessionShape(workerSession))'
      BY <1>1, <2>1 DEF SessionShape
    <3> QED
      BY <3>3, <3>4, <3>5, <3>6 DEF ProjectionInv
  <2> QED
    BY <2>1, <2>5, <2>6
<1>17. ASSUME UNCHANGED projectionVars PROVE ProjectionInv'
  <2>1. UNCHANGED <<session, pageSession, activations, lastStored, workerSession, passingFeed, results>>
    BY <1>17 DEF projectionVars
  <2> QED
    BY <1>1, <1>3, <2>1
<1> QED
  BY <1>4, <1>5, <1>6, <1>7, <1>8, <1>9, <1>11, <1>12, <1>13, <1>15, <1>16, <1>17 DEF Projecting!Next

(* What a step does to the setup and the results. *)
LEMMA ProjectionStepStays ==
  ASSUME ProjectionInv, [Projecting!Next]_projectionVars
  PROVE  Projecting!MeasurementStays
<1>1. /\ SessionSound(session, pageSession, activations) /\ FeedSound(passingFeed, lastStored)
      /\ (workerSession # Absent => SessionShape(workerSession))
      /\ ResultsSound(results, passingFeed, lastStored, session, workerSession)
  BY DEF ProjectionInv
<1>2. SessionShape(session)
  BY <1>1 DEF SessionSound
<1>3. session.running => session'.setup = session.setup
  <2> SUFFICES ASSUME session.running PROVE session'.setup = session.setup
    OBVIOUS
  <2>1. ASSUME NEW w \in activations, Projecting!Activated(w) PROVE session' = session
    BY <1>1, <2>1 DEF Projecting!Activated, SessionSound
  <2>2. ASSUME Projecting!Stop \/ Projecting!Reset \/ Projecting!Start PROVE session'.setup = session.setup
    BY <1>2, <2>2 DEF Projecting!Stop, Projecting!Reset, Projecting!Start, Projecting!Measure, SessionShape
  <2>3. ASSUME \/ Projecting!PageHears \/ Projecting!PassingStored \/ UNCHANGED projectionVars
               \/ \E setup \in Setups : Projecting!activate(setup)
               \/ \E setup \in Setups, pools \in SUBSET Pools : Projecting!EditSetup(setup, pools)
               \/ \E pool \in Pools : Projecting!EditPool(pool) \/ Projecting!PoolData(pool)
               \/ Projecting!SessionData \/ Projecting!SetupData \/ Projecting!RuntimeData \/ Projecting!FeedChange
               \/ Projecting!FeedReopens \/ Projecting!syncAdapterLifecycle
               \/ Projecting!ProjectLater \/ Projecting!Project \/ Projecting!ProjectNothing
        PROVE  session' = session
    BY <2>3 DEF Projecting!PageHears, Projecting!PassingStored, projectionVars, Projecting!activate,
                Projecting!EditSetup, Projecting!EditPool, Projecting!PoolData, Projecting!SessionData,
                Projecting!SetupData, Projecting!RuntimeData, Projecting!FeedChange, Projecting!FeedReopens,
                Projecting!syncAdapterLifecycle, Projecting!ProjectLater, Projecting!Project,
                Projecting!ProjectNothing, Projecting!Unchanged
  <2> QED
    BY <2>1, <2>2, <2>3 DEF Projecting!Next
<1>4. ASSUME results # Absent, results'.setup = results.setup, results'.from = results.from,
             NEW seq \in results.passings \cap Projecting!InWindow(lastStored, session)
      PROVE  seq \in results'.passings
  <2>1. /\ seq \in 1 .. lastStored /\ results.from \in Nat /\ results.from < seq
        /\ passingFeed.isLive => seq <= passingFeed.last
        /\ workerSession # Absent /\ workerSession.to # Absent => seq <= workerSession.to
    BY <1>1, <1>4 DEF ResultsSound, Known
  <2>2. CASE results' = results
    BY <1>4, <2>2
  <2>3. ASSUME Projecting!Project, results' # results PROVE seq \in results'.passings
    <3> DEFINE feed == Projecting!configured
               r == [Projecting!Projected(feed) EXCEPT !.athletes = poolClients']
    <3>1. workerSession # Absent /\ Projecting!CanProject(feed) /\ results' = r
      BY <2>3 DEF Projecting!Project
    <3>2. feed = passingFeed \/ feed.isLive = FALSE
      BY DEF Projecting!configured, Projecting!NoFeed
    <3>3. r.from = workerSession.from /\ r.passings = Projecting!InWindow(feed.last, workerSession)
      BY DEF Projecting!Projected
    <3> HIDE DEF feed, r
    <3>4. workerSession.from = results.from /\ SessionShape(workerSession) /\ workerSession.from # Absent
      BY <1>1, <1>4, <2>1, <3>1, <3>3, ProjectionConstants
    <3>5. feed = passingFeed /\ passingFeed.isLive
      BY <3>1, <3>2, <3>4 DEF Projecting!CanProject
    <3>6. seq <= feed.last /\ feed.last \in Nat /\ seq \in Nat
      BY <1>1, <2>1, <3>5 DEF FeedSound
    <3>7. seq \in Projecting!InWindow(feed.last, workerSession)
      BY <2>1, <3>1, <3>4, <3>6, InTheWindow
    <3> QED
      BY <3>1, <3>3, <3>7
  <2>4. ASSUME ~Projecting!Project PROVE results' = results
    BY <2>4 DEF Projecting!Next, projectionVars, Projecting!PageHears, Projecting!PassingStored, Projecting!activate,
                Projecting!Activated, Projecting!Start, Projecting!Stop, Projecting!Reset, Projecting!Measure,
                Projecting!EditSetup, Projecting!EditPool, Projecting!PoolData, Projecting!SessionData,
                Projecting!SetupData, Projecting!RuntimeData, Projecting!FeedChange, Projecting!FeedReopens,
                Projecting!syncAdapterLifecycle, Projecting!ProjectLater,
                Projecting!ProjectNothing, Projecting!Unchanged
  <2> QED
    BY <2>2, <2>3, <2>4
<1> QED
  BY <1>3, <1>4 DEF Projecting!MeasurementStays
-----------------------------------------------------------------------------
(* The race streams of the leaderboard service.  Channels and messages carry revisions and data of races;
   a message that leads to a channel's next state was made from its present one, and who is not
   connected has nothing on its way. *)
Datas == {Null} \cup [id : Races \cup {Null}, value : Values \cup {Null}]
Channel == [rev : Nat, data : Datas]
StreamMessage == [type : {"snapshot"}, rev : Nat, data : Datas]
                   \cup [type : {"patch"}, base : Nat, rev : Nat, from : Datas, to : Datas]

Leads(m, ch, new) ==
  /\ m \in StreamMessage /\ m.rev = new.rev
  /\ \/ m.type = "snapshot" /\ m.data = new.data
     \/ m.type = "patch" /\ m.base = ch.rev /\ m.from = ch.data /\ ch.data # Null /\ m.to = new.data

RaceStateTyped(races, shownRaceId) == races \in [Races -> Values \cup {Null}] /\ shownRaceId \in Races \cup {Null}

ChannelsSound(ch, ln, gh) ==
  /\ DOMAIN ch = Streams!Keys /\ gh \in [Streams!Keys -> Nat]
  /\ \A k \in Streams!Keys : ch[k] # Null => ch[k] \in Channel
  /\ \A k \in Streams!Keys : ch[k] = Null <=> (gh[k] = 0 /\ \A v \in ln : ChannelOf[v] # k)

WiresSound(ln, wr, vw, ch) ==
  /\ ln \subseteq Viewers /\ wr \in [Viewers -> Seq(StreamMessage)] /\ DOMAIN vw = Viewers
  /\ \A v \in Viewers : v \notin ln => wr[v] = <<>>
  /\ \A v \in ln : Streams!Faithful(vw[v], wr[v], ch[ChannelOf[v]])

StreamsInv ==
  /\ RaceStateTyped(stored, display)
  /\ ChannelsSound(channels, linked, ghosts)
  /\ WiresSound(linked, wire, view, channels)
  /\ changes \in 0 .. MaxChanges /\ drops \in 0 .. MaxDrops

LEMMA StreamsConstants ==
  /\ Current \notin Races /\ Null \notin Races /\ Null \notin Nat /\ Null \notin Channel
  /\ ChannelOf \in [Viewers -> Streams!Keys]
  /\ MaxChanges \in Nat /\ MaxDrops \in Nat
  BY RaceDayAssumption, RaceDayBounds DEF Streams!Keys, Channel, Datas

LEMMA ComputeTyped ==
  ASSUME NEW races, NEW shownRaceId, RaceStateTyped(races, shownRaceId), NEW k \in Streams!Keys
  PROVE  Streams!Compute(k, races, shownRaceId) \in Datas
<1>1. CASE k # Current
  <2>1. k \in Races
    BY <1>1 DEF Streams!Keys
  <2> QED
    BY <1>1, <2>1 DEF Streams!Compute, Datas, RaceStateTyped
<1>2. CASE k = Current
  <2>1. Streams!Compute(k, races, shownRaceId)
          = [id |-> shownRaceId, value |-> IF shownRaceId = Null THEN Null ELSE races[shownRaceId]]
    BY <1>2 DEF Streams!Compute
  <2>2. (IF shownRaceId = Null THEN Null ELSE races[shownRaceId]) \in Values \cup {Null}
    BY DEF RaceStateTyped
  <2> QED
    BY <2>1, <2>2 DEF Datas, RaceStateTyped
<1> QED
  BY <1>1, <1>2

(* Viewers at the first channel state: a snapshot of it is all they need. *)
LEMMA FirstMessageFaithful ==
  ASSUME NEW w, NEW ch \in Channel
  PROVE  /\ Streams!Snapshot(ch) \in StreamMessage
         /\ <<Streams!Snapshot(ch)>> \in Seq(StreamMessage)
         /\ Streams!Faithful(w, <<Streams!Snapshot(ch)>>, ch)
<1> DEFINE m == Streams!Snapshot(ch)
<1>1. m \in StreamMessage /\ m.type = "snapshot" /\ m.rev = ch.rev /\ m.data = ch.data
  BY DEF Streams!Snapshot, StreamMessage, Channel
<1> HIDE DEF m
<1>2. Len(<<m>>) = 1 /\ <<m>>[1] = m
  OBVIOUS
<1>3. Streams!Had(w, <<m>>, 1) = [rev |-> ch.rev, data |-> ch.data]
  BY <1>1, <1>2 DEF Streams!Had
<1>4. \A i \in 1 .. Len(<<m>>) : <<m>>[i].type # "patch"
  BY <1>1, <1>2
<1>5. Streams!Faithful(w, <<m>>, ch)
  BY <1>2, <1>3, <1>4 DEF Streams!Faithful
<1> QED
  BY <1>1, <1>5 DEF m

(* A message that leads on is sent after the others. *)
LEMMA FaithfulAppend ==
  ASSUME NEW w, NEW ms \in Seq(StreamMessage), NEW ch \in Channel, Streams!Faithful(w, ms, ch),
         NEW new, NEW m, Leads(m, ch, new)
  PROVE  Append(ms, m) \in Seq(StreamMessage) /\ Streams!Faithful(w, Append(ms, m), new)
<1> DEFINE n == Len(ms)
           all == Append(ms, m)
<1>1. /\ n \in Nat /\ all \in Seq(StreamMessage) /\ Len(all) = n + 1
      /\ all[n + 1] = m /\ \A i \in 1 .. n : all[i] = ms[i]
  BY DEF Leads
<1>2. \A i \in 0 .. n : Streams!Had(w, all, i) = Streams!Had(w, ms, i)
  BY <1>1 DEF Streams!Had
<1>3. Streams!Had(w, all, n + 1) = [rev |-> m.rev, data |-> IF m.type = "snapshot" THEN m.data ELSE m.to]
  BY <1>1 DEF Streams!Had
<1>4. Streams!Had(w, ms, n).data = ch.data /\ (ch.data # Null => Streams!Had(w, ms, n).rev = ch.rev)
  BY DEF Streams!Faithful
<1> HIDE DEF n, all
<1>5. ASSUME NEW i \in 1 .. n + 1, all[i].type = "patch"
      PROVE  /\ Streams!Applicable(Streams!Had(w, all, i - 1), all[i])
             /\ all[i].from = Streams!Had(w, all, i - 1).data
  <2>1. CASE i \in 1 .. n
    <3>1. i - 1 \in 0 .. n /\ all[i] = ms[i]
      BY <1>1, <2>1
    <3> QED
      BY <1>2, <1>5, <2>1, <3>1 DEF Streams!Faithful, n
  <2>2. CASE i = n + 1
    <3>1. i - 1 = n /\ n \in 0 .. n /\ all[i] = m
      BY <1>1, <2>2
    <3>2. m.base = ch.rev /\ m.from = ch.data /\ ch.data # Null
      BY <1>5, <3>1 DEF Leads
    <3>3. ch.rev # Null
      BY StreamsConstants DEF Channel
    <3>4. Streams!Had(w, all, i - 1) = Streams!Had(w, ms, n)
      BY <1>2, <3>1
    <3> QED
      BY <1>4, <3>1, <3>2, <3>3, <3>4 DEF Streams!Applicable
  <2> QED
    BY <1>1, <2>1, <2>2
<1>6. m.rev = new.rev /\ (IF m.type = "snapshot" THEN m.data ELSE m.to) = new.data
  BY DEF Leads
<1> QED
  BY <1>1, <1>3, <1>5, <1>6 DEF Streams!Faithful, all

(* What a flush does to one viewer of a channel. *)
LEMMA FaithfulFlush ==
  ASSUME NEW w, NEW ms \in Seq(StreamMessage), NEW ch \in Channel, Streams!Faithful(w, ms, ch),
         NEW next \in Datas, NEW tick
  PROVE  LET new == Streams!FlushedChannel(ch, next, tick)
             sent == ms \o Streams!FlushMessages(ch, next, tick)
         IN  new \in Channel /\ sent \in Seq(StreamMessage) /\ Streams!Faithful(w, sent, new)
<1> DEFINE new == Streams!FlushedChannel(ch, next, tick)
           messages == Streams!FlushMessages(ch, next, tick)
<1>1. ch.rev \in Nat /\ ch.data \in Datas
  BY DEF Channel
<1>2. new \in Channel
  BY <1>1 DEF Streams!FlushedChannel, Channel
<1>3. CASE ch.data = next /\ ~tick
  BY <1>2, <1>3 DEF Streams!FlushedChannel, Streams!FlushMessages
<1>4. ASSUME ~(ch.data = next /\ ~tick)
      PROVE  new.rev = ch.rev + 1 /\ new.data = next
  BY <1>4 DEF Streams!FlushedChannel
<1>5. CASE ~(ch.data = next /\ ~tick) /\ Streams!OtherRace(ch.data, next)
  <2> DEFINE m == Streams!Snapshot([rev |-> ch.rev + 1, data |-> next])
  <2>1. messages = <<m>>
    BY <1>5 DEF Streams!FlushMessages
  <2>2. Leads(m, ch, new)
    BY <1>1, <1>4, <1>5 DEF Leads, Streams!Snapshot, StreamMessage
  <2> HIDE DEF m, messages, new
  <2>3. ms \o messages = Append(ms, m)
    BY <2>1
  <2> QED
    BY <1>2, <2>2, <2>3, FaithfulAppend DEF new, messages
<1>6. CASE ~(ch.data = next /\ ~tick) /\ ~Streams!OtherRace(ch.data, next) /\ next = Null
  <2>1. ms \o messages = ms /\ ch.data = Null
    BY <1>6 DEF Streams!FlushMessages, Streams!OtherRace
  <2>2. Streams!Faithful(w, ms, new)
    BY <1>4, <1>6, <2>1 DEF Streams!Faithful
  <2> QED
    BY <1>2, <2>1, <2>2
<1>7. CASE ~(ch.data = next /\ ~tick) /\ ~Streams!OtherRace(ch.data, next) /\ next # Null
  <2> DEFINE m == [type |-> "patch", base |-> ch.rev, rev |-> ch.rev + 1, from |-> ch.data, to |-> next]
  <2>1. messages = <<m>>
    BY <1>7 DEF Streams!FlushMessages
  <2>2. ch.data # Null
    BY <1>7 DEF Streams!OtherRace
  <2>3. Leads(m, ch, new)
    BY <1>1, <1>4, <1>7, <2>2 DEF Leads, StreamMessage
  <2> HIDE DEF m, messages, new
  <2>4. ms \o messages = Append(ms, m)
    BY <2>1
  <2> QED
    BY <1>2, <2>3, <2>4, FaithfulAppend DEF new, messages
<1> QED
  BY <1>3, <1>5, <1>6, <1>7

(* What a viewer makes of the first message on its way. *)
LEMMA FaithfulReceive ==
  ASSUME NEW w, NEW ms \in Seq(StreamMessage), NEW ch, Streams!Faithful(w, ms, ch), ms # <<>>
  PROVE  LET m == Head(ms)
             next == IF m.type = "snapshot" THEN Streams!ApplySnapshot(w, m) ELSE Streams!ApplyPatch(w, m)
         IN  /\ m.type = "snapshot" \/ Streams!Applicable(w, m)
             /\ Tail(ms) \in Seq(StreamMessage) /\ Streams!Faithful(next, Tail(ms), ch)
<1> DEFINE m == Head(ms)
           left == Tail(ms)
           next == Streams!Had(w, ms, 1)
           n == Len(ms)
<1>1. /\ n \in Nat \ {0} /\ m = ms[1] /\ m \in StreamMessage
      /\ left \in Seq(StreamMessage) /\ Len(left) = n - 1 /\ \A i \in 1 .. n - 1 : left[i] = ms[i + 1]
  OBVIOUS
<1>2. m.type \in {"snapshot", "patch"}
  BY <1>1 DEF StreamMessage
<1>3. m.type = "patch" => Streams!Applicable(w, m) /\ m.from = w.data
  <2>1. 1 \in 1 .. n /\ 1 - 1 = 0 /\ Streams!Had(w, ms, 0) = w
    BY <1>1 DEF Streams!Had
  <2> QED
    BY <1>1, <2>1 DEF Streams!Faithful
<1>4. next = IF m.type = "snapshot" THEN Streams!ApplySnapshot(w, m) ELSE Streams!ApplyPatch(w, m)
  BY <1>1, <1>2, <1>3 DEF Streams!Had, Streams!ApplySnapshot, Streams!ApplyPatch
<1>5. \A i \in 0 .. n - 1 : Streams!Had(next, left, i) = Streams!Had(w, ms, i + 1)
  <2> SUFFICES ASSUME NEW i \in 0 .. n - 1 PROVE Streams!Had(next, left, i) = Streams!Had(w, ms, i + 1)
    OBVIOUS
  <2> HIDE DEF next, left, n
  <2>1. CASE i = 0
    BY <2>1 DEF Streams!Had, next
  <2>2. CASE i # 0
    <3>1. i \in 1 .. n - 1 /\ i + 1 # 0 /\ left[i] = ms[i + 1]
      BY <1>1, <2>2
    <3> QED
      BY <2>2, <3>1 DEF Streams!Had
  <2> QED
    BY <2>1, <2>2
<1> HIDE DEF m, left, next, n
<1>6. ASSUME NEW i \in 1 .. n - 1, left[i].type = "patch"
      PROVE  /\ Streams!Applicable(Streams!Had(next, left, i - 1), left[i])
             /\ left[i].from = Streams!Had(next, left, i - 1).data
  <2>1. /\ i - 1 \in 0 .. n - 1 /\ (i - 1) + 1 = i /\ i + 1 \in 1 .. n /\ (i + 1) - 1 = i
        /\ left[i] = ms[i + 1]
    BY <1>1
  <2>2. Streams!Had(next, left, i - 1) = Streams!Had(w, ms, i)
    BY <1>5, <2>1
  <2> QED
    BY <1>6, <2>1, <2>2 DEF Streams!Faithful, n
<1>7. Streams!Had(next, left, n - 1) = Streams!Had(w, ms, n)
  <2>1. n - 1 \in 0 .. n - 1 /\ (n - 1) + 1 = n
    BY <1>1
  <2> QED
    BY <1>5, <2>1
<1>8. Streams!Faithful(next, left, ch)
  BY <1>1, <1>6, <1>7 DEF Streams!Faithful, n
<1> QED
  BY <1>1, <1>2, <1>3, <1>4, <1>8 DEF m, left, n

(* A flush takes every channel and every viewer along. *)
LEMMA FlushKeeps ==
  ASSUME StreamsInv, NEW tick
  PROVE  /\ ChannelsSound(Streams!FlushAll(tick), linked, ghosts)
         /\ WiresSound(linked, Streams!Broadcast(tick), view, Streams!FlushAll(tick))
<1> DEFINE all == Streams!FlushAll(tick)
           next(k) == Streams!Compute(k, stored, display)
<1>1. /\ RaceStateTyped(stored, display) /\ ChannelsSound(channels, linked, ghosts)
      /\ WiresSound(linked, wire, view, channels)
  BY DEF StreamsInv
<1>2. \A k \in Streams!Keys : next(k) \in Datas
  BY <1>1, ComputeTyped
<1>3. DOMAIN all = Streams!Keys
      /\ \A k \in Streams!Keys : all[k] = IF channels[k] = Null THEN Null
                                          ELSE Streams!FlushedChannel(channels[k], next(k), tick)
  BY DEF Streams!FlushAll
<1> HIDE DEF all, next
<1>4. \A k \in Streams!Keys : channels[k] # Null => all[k] \in Channel
  <2> SUFFICES ASSUME NEW k \in Streams!Keys, channels[k] # Null PROVE all[k] \in Channel
    OBVIOUS
  <2>1. channels[k] \in Channel
    BY <1>1 DEF ChannelsSound
  <2> QED
    BY <1>2, <1>3, <2>1 DEF Streams!FlushedChannel, Channel
<1>5. ChannelsSound(all, linked, ghosts)
  BY <1>1, <1>3, <1>4, StreamsConstants DEF ChannelsSound
<1>6. ASSUME NEW v \in linked
      PROVE  /\ Streams!Broadcast(tick)[v] \in Seq(StreamMessage)
             /\ Streams!Faithful(view[v], Streams!Broadcast(tick)[v], all[ChannelOf[v]])
  <2> DEFINE k == ChannelOf[v]
  <2>1. v \in Viewers /\ k \in Streams!Keys
    BY <1>1, StreamsConstants DEF WiresSound
  <2>2. channels[k] # Null /\ channels[k] \in Channel
    BY <1>1, <2>1 DEF ChannelsSound
  <2>3. wire[v] \in Seq(StreamMessage) /\ Streams!Faithful(view[v], wire[v], channels[k])
    BY <1>1, <2>1 DEF WiresSound
  <2>4. all[k] = Streams!FlushedChannel(channels[k], next(k), tick)
    BY <1>3, <2>1, <2>2
  <2>5. Streams!Broadcast(tick)[v] = wire[v] \o Streams!FlushMessages(channels[k], next(k), tick)
    BY <2>1 DEF Streams!Broadcast, next
  <2> QED
    BY <1>2, <2>1, <2>2, <2>3, <2>4, <2>5, FaithfulFlush
<1>7. ASSUME NEW v \in Viewers, v \notin linked
      PROVE  Streams!Broadcast(tick)[v] = wire[v]
  BY <1>7 DEF Streams!Broadcast
<1>8. DOMAIN Streams!Broadcast(tick) = Viewers
      /\ \A v \in Viewers : Streams!Broadcast(tick)[v] \in Seq(StreamMessage)
  <2>1. DOMAIN Streams!Broadcast(tick) = Viewers
    BY DEF Streams!Broadcast
  <2> QED
    BY <1>1, <1>6, <1>7, <2>1 DEF WiresSound
<1>9. Streams!Broadcast(tick) = [v \in Viewers |-> Streams!Broadcast(tick)[v]]
  BY DEF Streams!Broadcast
<1>10. Streams!Broadcast(tick) \in [Viewers -> Seq(StreamMessage)]
  BY <1>8, <1>9
<1> QED
  BY <1>1, <1>5, <1>6, <1>7, <1>10 DEF WiresSound, all

(* Every viewer gets the snapshot of its channel behind what is on its way. *)
LEMMA SnapshotAppended ==
  ASSUME NEW ms \in Seq(StreamMessage), NEW w, NEW ch \in Channel, Streams!Faithful(w, ms, ch),
         NEW new \in Channel
  PROVE  /\ Append(ms, Streams!Snapshot(new)) \in Seq(StreamMessage)
         /\ Streams!Faithful(w, Append(ms, Streams!Snapshot(new)), new)
<1>1. Leads(Streams!Snapshot(new), ch, new)
  BY DEF Leads, Streams!Snapshot, StreamMessage, Channel
<1> QED
  BY <1>1, FaithfulAppend

LEMMA RaceStateMoves ==
  ASSUME RaceStateTyped(stored, display), [Streams!Next]_streamsVars
  PROVE  RaceStateTyped(stored, display)'
<1> USE DEF RaceStateTyped
<1>1. ASSUME NEW r \in Races, NEW d \in SUBSET Races, Streams!StartRace(r, d) PROVE RaceStateTyped(stored, display)'
  BY <1>1 DEF Streams!StartRace
<1>2. ASSUME NEW b \in BOOLEAN, Streams!UpdateRace(b) PROVE RaceStateTyped(stored, display)'
  BY <1>2 DEF Streams!UpdateRace
<1>3. ASSUME Streams!Reset \/ Streams!Restart PROVE RaceStateTyped(stored, display)'
  BY <1>3 DEF Streams!Reset, Streams!Restart
<1>4. ASSUME Streams!Flush \/ Streams!HiddenHeartbeat \/ UNCHANGED streamsVars PROVE RaceStateTyped(stored, display)'
  BY <1>4 DEF Streams!Flush, Streams!HiddenHeartbeat, streamsVars
<1>5. ASSUME NEW k \in Streams!Keys, Streams!Unsubscribe(k) PROVE RaceStateTyped(stored, display)'
  BY <1>5 DEF Streams!Unsubscribe
<1>6. ASSUME NEW v \in Viewers, Streams!Join(v) \/ Streams!Resync(v) \/ Streams!Lose(v) \/ Streams!Receive(v)
      PROVE  RaceStateTyped(stored, display)'
  BY <1>6 DEF Streams!Join, Streams!Resync, Streams!Lose, Streams!Receive
<1> QED
  BY <1>1, <1>2, <1>3, <1>4, <1>5, <1>6 DEF Streams!Next

LEMMA StreamBounds ==
  ASSUME changes \in 0 .. MaxChanges, drops \in 0 .. MaxDrops, [Streams!Next]_streamsVars
  PROVE  changes' \in 0 .. MaxChanges /\ drops' \in 0 .. MaxDrops
<1> USE StreamsConstants DEF Streams!Change, Streams!Drop
<1> DEFINE Bounds == changes' \in 0 .. MaxChanges /\ drops' \in 0 .. MaxDrops
<1>1. ASSUME NEW r \in Races, NEW d \in SUBSET Races, Streams!StartRace(r, d) PROVE Bounds
  BY <1>1 DEF Streams!StartRace
<1>2. ASSUME NEW b \in BOOLEAN, Streams!UpdateRace(b) PROVE Bounds
  BY <1>2 DEF Streams!UpdateRace
<1>3. ASSUME Streams!Reset \/ Streams!Restart PROVE Bounds
  BY <1>3 DEF Streams!Reset, Streams!Restart
<1>4. ASSUME Streams!Flush \/ Streams!HiddenHeartbeat \/ UNCHANGED streamsVars PROVE Bounds
  <2>1. changes' = changes \/ (changes < MaxChanges /\ changes' = changes + 1)
    BY <1>4 DEF Streams!Flush, Streams!HiddenHeartbeat, streamsVars
  <2>2. drops' = drops
    BY <1>4 DEF Streams!Flush, Streams!HiddenHeartbeat, streamsVars
  <2> QED
    BY <2>1, <2>2
<1>5. ASSUME NEW k \in Streams!Keys, Streams!Unsubscribe(k) PROVE Bounds
  BY <1>5 DEF Streams!Unsubscribe
<1>6. ASSUME NEW v \in Viewers, Streams!Join(v) \/ Streams!Resync(v) \/ Streams!Lose(v) \/ Streams!Receive(v)
      PROVE  Bounds
  BY <1>6 DEF Streams!Join, Streams!Resync, Streams!Lose, Streams!Receive
<1> QED
  BY <1>1, <1>2, <1>3, <1>4, <1>5, <1>6 DEF Streams!Next

LEMMA StreamsInductive ==
  ASSUME StreamsInv, [Streams!Next]_streamsVars
  PROVE  StreamsInv'
<1>1. /\ ChannelsSound(channels, linked, ghosts) /\ WiresSound(linked, wire, view, channels)
      /\ RaceStateTyped(stored, display)
  BY DEF StreamsInv
<1>2. RaceStateTyped(stored, display)' /\ changes' \in 0 .. MaxChanges /\ drops' \in 0 .. MaxDrops
  BY RaceStateMoves, StreamBounds DEF StreamsInv
<1>3. ASSUME ChannelsSound(channels', linked', ghosts'), WiresSound(linked', wire', view', channels')
      PROVE  StreamsInv'
  BY <1>2, <1>3 DEF StreamsInv
<1>4. ASSUME UNCHANGED <<channels, ghosts, linked, wire, view>> PROVE StreamsInv'
  BY <1>1, <1>3, <1>4
<1>5. CASE Streams!Flush
  BY <1>3, <1>5, FlushKeeps DEF Streams!Flush
<1>6. ASSUME \/ Streams!HiddenHeartbeat \/ UNCHANGED streamsVars
             \/ \E r \in Races, d \in SUBSET Races : Streams!StartRace(r, d)
             \/ \E b \in BOOLEAN : Streams!UpdateRace(b)
      PROVE  StreamsInv'
  BY <1>4, <1>6 DEF Streams!HiddenHeartbeat, streamsVars, Streams!StartRace, Streams!UpdateRace, Streams!viewerVars
<1>7. CASE Streams!Reset
  <2>1. /\ channels' = [k \in Streams!Keys |-> IF channels[k] = Null THEN Null
                          ELSE [rev |-> channels[k].rev + 1, data |-> Streams!Compute(k, stored', display')]]
        /\ wire' = [v \in Viewers |-> IF v \in linked
                      THEN Append(wire[v], Streams!Snapshot(channels'[ChannelOf[v]])) ELSE wire[v]]
        /\ UNCHANGED <<ghosts, linked, view>>
    BY <1>7 DEF Streams!Reset
  <2>2. \A k \in Streams!Keys : Streams!Compute(k, stored', display') \in Datas
    BY <1>2, ComputeTyped
  <2>3. \A k \in Streams!Keys : channels[k] # Null => channels'[k] \in Channel
    <3> SUFFICES ASSUME NEW k \in Streams!Keys, channels[k] # Null PROVE channels'[k] \in Channel
      OBVIOUS
    <3>1. channels[k].rev \in Nat
      BY <1>1 DEF ChannelsSound, Channel
    <3>2. channels'[k] = [rev |-> channels[k].rev + 1, data |-> Streams!Compute(k, stored', display')]
      BY <2>1
    <3> QED
      BY <2>2, <3>1, <3>2 DEF Channel
  <2>4. ChannelsSound(channels', linked', ghosts')
    BY <1>1, <2>1, <2>3, StreamsConstants DEF ChannelsSound
  <2>5. ASSUME NEW v \in linked
        PROVE  wire'[v] \in Seq(StreamMessage) /\ Streams!Faithful(view[v], wire'[v], channels'[ChannelOf[v]])
    <3>1. v \in Viewers /\ ChannelOf[v] \in Streams!Keys
      BY <1>1, StreamsConstants DEF WiresSound
    <3>2. channels[ChannelOf[v]] # Null /\ channels[ChannelOf[v]] \in Channel
      BY <1>1, <3>1 DEF ChannelsSound
    <3>3. wire[v] \in Seq(StreamMessage) /\ Streams!Faithful(view[v], wire[v], channels[ChannelOf[v]])
      BY <1>1, <3>1 DEF WiresSound
    <3>4. wire'[v] = Append(wire[v], Streams!Snapshot(channels'[ChannelOf[v]]))
      BY <2>1, <3>1
    <3> QED
      BY <2>3, <3>1, <3>2, <3>3, <3>4, SnapshotAppended
  <2>6. \A v \in Viewers : v \notin linked => wire'[v] = wire[v]
    BY <2>1
  <2>7. wire' \in [Viewers -> Seq(StreamMessage)]
    <3>1. \A v \in Viewers : wire'[v] \in Seq(StreamMessage)
      BY <1>1, <2>5, <2>6 DEF WiresSound
    <3> QED
      BY <2>1, <3>1
  <2>8. WiresSound(linked', wire', view', channels')
    BY <1>1, <2>1, <2>5, <2>6, <2>7 DEF WiresSound
  <2> QED
    BY <1>3, <2>4, <2>8
<1>8. CASE Streams!Restart
  <2>1. /\ channels' = [k \in Streams!Keys |-> Null] /\ ghosts' = [k \in Streams!Keys |-> 0]
        /\ linked' = {} /\ wire' = [v \in Viewers |-> <<>>] /\ DOMAIN view' = Viewers
    BY <1>8 DEF Streams!Restart
  <2>2. ChannelsSound(channels', linked', ghosts')
    BY <2>1 DEF ChannelsSound
  <2>3. <<>> \in Seq(StreamMessage)
    OBVIOUS
  <2>4. WiresSound(linked', wire', view', channels')
    BY <2>1, <2>3 DEF WiresSound
  <2> QED
    BY <1>3, <2>2, <2>4
<1>9. ASSUME NEW k \in Streams!Keys, Streams!Unsubscribe(k) PROVE StreamsInv'
  <2>1. /\ ghosts[k] > 0 /\ ghosts' = [ghosts EXCEPT ![k] = ghosts[k] - 1]
        /\ channels' = IF ghosts[k] = 1 /\ Streams!Live(k) = {} THEN [channels EXCEPT ![k] = Null] ELSE channels
        /\ UNCHANGED <<linked, wire, view>>
    BY <1>9 DEF Streams!Unsubscribe, Streams!viewerVars
  <2>2. ghosts[k] \in Nat /\ ghosts' \in [Streams!Keys -> Nat] /\ ghosts'[k] = ghosts[k] - 1
        /\ \A c \in Streams!Keys : c # k => ghosts'[c] = ghosts[c]
    BY <1>1, <2>1 DEF ChannelsSound
  <2>3. Streams!Live(k) = {} <=> \A v \in linked : ChannelOf[v] # k
    BY DEF Streams!Live
  <2>4. CASE ghosts[k] = 1 /\ Streams!Live(k) = {}
    <3>1. /\ DOMAIN channels' = Streams!Keys /\ channels'[k] = Null
          /\ \A c \in Streams!Keys : c # k => channels'[c] = channels[c]
      BY <1>1, <2>1, <2>4 DEF ChannelsSound
    <3>2. \A v \in linked : channels'[ChannelOf[v]] = channels[ChannelOf[v]]
      BY <1>1, <2>3, <2>4, <3>1, StreamsConstants DEF WiresSound
    <3>3. ChannelsSound(channels', linked', ghosts')
      BY <1>1, <2>1, <2>2, <2>3, <2>4, <3>1 DEF ChannelsSound
    <3>4. WiresSound(linked', wire', view', channels')
      BY <1>1, <2>1, <3>2 DEF WiresSound
    <3> QED
      BY <1>3, <3>3, <3>4
  <2>5. CASE ~(ghosts[k] = 1 /\ Streams!Live(k) = {})
    <3>1. channels' = channels
      BY <2>1, <2>5
    <3>2. channels[k] # Null /\ ~(ghosts'[k] = 0 /\ \A v \in linked : ChannelOf[v] # k)
      BY <1>1, <2>1, <2>2, <2>3, <2>5 DEF ChannelsSound
    <3>3. ChannelsSound(channels', linked', ghosts')
      BY <1>1, <2>1, <2>2, <3>1, <3>2 DEF ChannelsSound
    <3>4. WiresSound(linked', wire', view', channels')
      BY <1>1, <2>1, <3>1
    <3> QED
      BY <1>3, <3>3, <3>4
  <2> QED
    BY <2>4, <2>5
<1>10. ASSUME NEW v \in Viewers, Streams!Join(v) PROVE StreamsInv'
  <2> DEFINE k == ChannelOf[v]
             ch == IF channels[k] = Null THEN [rev |-> 0, data |-> Streams!Compute(k, stored, display)]
                                         ELSE channels[k]
  <2>1. /\ v \notin linked /\ channels' = [channels EXCEPT ![k] = ch]
        /\ linked' = linked \cup {v} /\ wire' = [wire EXCEPT ![v] = <<Streams!Snapshot(ch)>>]
        /\ UNCHANGED <<ghosts, view>>
    BY <1>10 DEF Streams!Join, Streams!FirstSnapshot
  <2>2. k \in Streams!Keys
    BY StreamsConstants
  <2>3. ch \in Channel
    <3>1. Streams!Compute(k, stored, display) \in Datas
      BY <1>1, <2>2, ComputeTyped
    <3> QED
      BY <1>1, <2>2, <3>1 DEF ChannelsSound, Channel
  <2>4. channels[k] # Null => ch = channels[k]
    OBVIOUS
  <2> HIDE DEF ch
  <2>5. /\ DOMAIN channels' = Streams!Keys /\ channels'[k] = ch
        /\ \A c \in Streams!Keys : c # k => channels'[c] = channels[c]
    BY <1>1, <2>1, <2>2 DEF ChannelsSound
  <2>6. ch # Null
    BY <2>3, StreamsConstants
  <2>7. ChannelsSound(channels', linked', ghosts')
    <3>1. \A c \in Streams!Keys : channels'[c] # Null => channels'[c] \in Channel
      BY <1>1, <2>3, <2>5 DEF ChannelsSound
    <3>2. \A c \in Streams!Keys : channels'[c] = Null <=> (ghosts[c] = 0 /\ \A u \in linked \cup {v} : ChannelOf[u] # c)
      BY <1>1, <2>2, <2>5, <2>6 DEF ChannelsSound
    <3> QED
      BY <1>1, <2>1, <2>5, <3>1, <3>2 DEF ChannelsSound
  <2>8. \A u \in linked : channels'[ChannelOf[u]] = channels[ChannelOf[u]]
    <3> SUFFICES ASSUME NEW u \in linked PROVE channels'[ChannelOf[u]] = channels[ChannelOf[u]]
      OBVIOUS
    <3>1. ChannelOf[u] \in Streams!Keys
      BY <1>1, StreamsConstants DEF WiresSound
    <3>2. channels[ChannelOf[u]] # Null
      BY <1>1, <3>1 DEF ChannelsSound
    <3> QED
      BY <2>4, <2>5, <3>1, <3>2
  <2>9. /\ <<Streams!Snapshot(ch)>> \in Seq(StreamMessage)
        /\ Streams!Faithful(view[v], <<Streams!Snapshot(ch)>>, ch)
    BY <2>3, FirstMessageFaithful
  <2>10. /\ wire' \in [Viewers -> Seq(StreamMessage)] /\ wire'[v] = <<Streams!Snapshot(ch)>>
         /\ \A u \in Viewers : u # v => wire'[u] = wire[u]
    BY <1>1, <2>1, <2>9 DEF WiresSound
  <2>11. WiresSound(linked', wire', view', channels')
    <3>1. \A u \in linked' : Streams!Faithful(view[u], wire'[u], channels'[ChannelOf[u]])
      BY <1>1, <2>1, <2>5, <2>8, <2>9, <2>10 DEF WiresSound
    <3> QED
      BY <1>1, <2>1, <2>10, <3>1 DEF WiresSound
  <2> QED
    BY <1>3, <2>7, <2>11
<1>11. ASSUME NEW v \in Viewers, Streams!Resync(v) PROVE StreamsInv'
  <2> DEFINE sent == Streams!Broadcast(pendingTick)
             m == Streams!Snapshot(channels'[ChannelOf[v]])
  <2>1. /\ v \in linked /\ channels' = Streams!FlushAll(pendingTick)
        /\ wire' = [sent EXCEPT ![v] = Append(sent[v], m)]
        /\ UNCHANGED <<ghosts, linked, view>>
    BY <1>11 DEF Streams!Resync
  <2> HIDE DEF sent
  <2>2. ChannelsSound(channels', linked, ghosts) /\ WiresSound(linked, sent, view, channels')
    BY <2>1, FlushKeeps DEF sent
  <2>3. ChannelOf[v] \in Streams!Keys /\ channels'[ChannelOf[v]] # Null
    BY <2>1, <2>2, StreamsConstants DEF ChannelsSound
  <2>4. channels'[ChannelOf[v]] \in Channel
    BY <2>2, <2>3 DEF ChannelsSound
  <2>5. sent[v] \in Seq(StreamMessage) /\ Streams!Faithful(view[v], sent[v], channels'[ChannelOf[v]])
    BY <2>1, <2>2 DEF WiresSound
  <2>6. Append(sent[v], m) \in Seq(StreamMessage) /\ Streams!Faithful(view[v], Append(sent[v], m), channels'[ChannelOf[v]])
    BY <2>4, <2>5, SnapshotAppended
  <2> HIDE DEF m
  <2>7. /\ wire' \in [Viewers -> Seq(StreamMessage)] /\ wire'[v] = Append(sent[v], m)
        /\ \A u \in Viewers : u # v => wire'[u] = sent[u]
    BY <2>1, <2>2, <2>6 DEF WiresSound
  <2>8. WiresSound(linked', wire', view', channels')
    BY <2>1, <2>2, <2>6, <2>7 DEF WiresSound
  <2> QED
    BY <1>3, <2>1, <2>2, <2>8
<1>12. ASSUME NEW v \in Viewers, Streams!Lose(v) PROVE StreamsInv'
  <2>1. /\ v \in linked /\ linked' = linked \ {v} /\ wire' = [wire EXCEPT ![v] = <<>>]
        /\ view' = [view EXCEPT ![v].rev = Null] /\ channels' = channels
        /\ ghosts' = [ghosts EXCEPT ![ChannelOf[v]] = ghosts[ChannelOf[v]] + 1]
    BY <1>12 DEF Streams!Lose, Streams!Unlink
  <2> DEFINE k == ChannelOf[v]
  <2>2. k \in Streams!Keys /\ channels[k] # Null
    BY <1>1, <2>1, StreamsConstants DEF ChannelsSound
  <2>3. ghosts' \in [Streams!Keys -> Nat] /\ ghosts'[k] # 0 /\ \A c \in Streams!Keys : c # k => ghosts'[c] = ghosts[c]
    BY <1>1, <2>1, <2>2 DEF ChannelsSound
  <2>4. \A c \in Streams!Keys : c # k =>
          ((\A u \in linked \ {v} : ChannelOf[u] # c) <=> (\A u \in linked : ChannelOf[u] # c))
    OBVIOUS
  <2>5. ChannelsSound(channels', linked', ghosts')
    BY <1>1, <2>1, <2>2, <2>3, <2>4 DEF ChannelsSound
  <2>6. <<>> \in Seq(StreamMessage)
    OBVIOUS
  <2>7. /\ wire' \in [Viewers -> Seq(StreamMessage)] /\ wire'[v] = <<>>
        /\ \A u \in Viewers : u # v => wire'[u] = wire[u] /\ view'[u] = view[u]
        /\ DOMAIN view' = Viewers
    BY <1>1, <2>1, <2>6 DEF WiresSound
  <2>8. WiresSound(linked', wire', view', channels')
    BY <1>1, <2>1, <2>7 DEF WiresSound
  <2> QED
    BY <1>3, <2>5, <2>8
<1>13. ASSUME NEW v \in Viewers, Streams!Receive(v) PROVE StreamsInv'
  <2> DEFINE m == Head(wire[v])
             next == IF m.type = "snapshot" THEN Streams!ApplySnapshot(view[v], m) ELSE Streams!ApplyPatch(view[v], m)
  <2>1. wire[v] # <<>> /\ channels' = channels
    BY <1>13 DEF Streams!Receive
  <2>2. v \in linked
    BY <1>1, <2>1 DEF WiresSound
  <2>3. wire[v] \in Seq(StreamMessage) /\ Streams!Faithful(view[v], wire[v], channels[ChannelOf[v]])
    BY <1>1, <2>2 DEF WiresSound
  <2>4. /\ m.type = "snapshot" \/ Streams!Applicable(view[v], m)
        /\ Tail(wire[v]) \in Seq(StreamMessage) /\ Streams!Faithful(next, Tail(wire[v]), channels[ChannelOf[v]])
    BY <2>1, <2>3, FaithfulReceive
  <2>5. /\ view' = [view EXCEPT ![v] = next] /\ wire' = [wire EXCEPT ![v] = Tail(wire[v])]
        /\ linked' = linked /\ ghosts' = ghosts
    BY <1>13, <2>4 DEF Streams!Receive
  <2> HIDE DEF next, m
  <2>6. /\ wire' \in [Viewers -> Seq(StreamMessage)] /\ wire'[v] = Tail(wire[v]) /\ view'[v] = next
        /\ \A u \in Viewers : u # v => wire'[u] = wire[u] /\ view'[u] = view[u]
        /\ DOMAIN view' = Viewers
    BY <1>1, <2>4, <2>5 DEF WiresSound
  <2>7. WiresSound(linked', wire', view', channels')
    BY <1>1, <2>1, <2>2, <2>4, <2>5, <2>6 DEF WiresSound
  <2> QED
    BY <1>1, <1>3, <2>1, <2>5, <2>7
<1> QED
  BY <1>5, <1>6, <1>7, <1>8, <1>9, <1>10, <1>11, <1>12, <1>13 DEF Streams!Next

LEMMA StreamsInitially ==
  ASSUME Streams!Init
  PROVE  StreamsInv
<1>1. RaceStateTyped(stored, display)
  BY DEF Streams!Init, RaceStateTyped
<1>2. ChannelsSound(channels, linked, ghosts)
  BY DEF Streams!Init, ChannelsSound
<1>3. <<>> \in Seq(StreamMessage)
  OBVIOUS
<1>4. WiresSound(linked, wire, view, channels)
  BY <1>3 DEF Streams!Init, WiresSound
<1>5. changes \in 0 .. MaxChanges /\ drops \in 0 .. MaxDrops
  BY StreamsConstants DEF Streams!Init
<1> QED
  BY <1>1, <1>2, <1>4, <1>5 DEF StreamsInv

LEMMA StreamsInvFaithful ==
  ASSUME StreamsInv
  PROVE  Streams!TypeOK /\ Streams!ViewersFaithful
<1>1. \A k \in Streams!Keys : channels[k] # Null => channels[k].rev \in Nat
  BY DEF StreamsInv, ChannelsSound, Channel
<1>2. \A k \in Streams!Keys : (channels[k] = Null) <=> (Streams!Live(k) = {} /\ ghosts[k] = 0)
  BY DEF StreamsInv, ChannelsSound, Streams!Live
<1>3. Streams!TypeOK
  BY <1>1, <1>2 DEF StreamsInv, RaceStateTyped, WiresSound, Streams!TypeOK
<1> QED
  BY <1>3 DEF StreamsInv, WiresSound, Streams!ViewersFaithful

-----------------------------------------------------------------------------
(* A page with its document.  Its copies are versions a document has had; the messages of its socket
   are a snapshot and the patches that follow it, without a gap until the page is told to open another. *)
PageCopies(dr) == {copy \in Page!Committed : copy = Page!NoCopy \/ copy.rev <= dr[copy.doc]}

PageWrite == [doc : Docs, base : Nat, on : Page!Committed, ready : BOOLEAN, heard : BOOLEAN]

PageFrame(dr) ==
  [type : {"rev_mismatch"}]
    \cup {f \in [type : {"snapshot", "patch"}, doc : Docs, rev : Nat] : f.rev \in 1 .. dr[f.doc]}

Unbroken(fs, n) == \A i \in 1 .. n : fs[i].type # "rev_mismatch"

(* fs follows version base of document d, whose present version is r. *)
FollowsFrom(fs, base, d, r) ==
  /\ \A i \in 1 .. Len(fs) : fs[i].type # "rev_mismatch" => fs[i].doc = d
  /\ \A i \in 1 .. Len(fs) : Unbroken(fs, i) => fs[i].rev = base + i
  /\ Unbroken(fs, Len(fs)) => r = base + Len(fs)

PageSocketSound ==
  /\ docId \in Docs \cup {NoDoc}
  /\ pageLink \in {"none", "connecting", "open", "broken", "closed"}
  /\ pageLink = "none" <=> docId = NoDoc
  /\ pageTimer \in BOOLEAN /\ (pageTimer => pageLink = "closed")
  /\ synced \in BOOLEAN /\ (pageLink = "connecting" => ~synced)
  /\ (synced => docId \in Docs /\ rendered.doc = docId /\ refs.doc = docId)

FramesFollow ==
  /\ frames \in Seq(PageFrame(docRev)) /\ (pageLink # "open" => frames = <<>>)
  /\ pageLink = "open" /\ synced =>
       /\ \A i \in 1 .. Len(frames) : frames[i].type # "snapshot"
       /\ FollowsFrom(frames, rendered.rev, docId, docRev[docId])
  /\ pageLink = "open" /\ ~synced =>
       /\ frames # <<>> /\ \A i \in 1 .. Len(frames) : frames[i].type = "snapshot" <=> i = 1
       /\ FollowsFrom(frames, frames[1].rev - 1, docId, docRev[docId])

WritesSound ==
  /\ writes \in Seq(PageWrite)
  /\ \A i \in 1 .. Len(writes) : writes[i].base = writes[i].on.rev
  /\ \A i \in 1 .. Len(writes) : writes[i].ready => writes[i].on.doc = writes[i].doc

PageCounts ==
  turns \in 0 .. MaxTurns /\ outages \in 0 .. MaxOutages /\ updates \in 0 .. MaxUpdates

PageTyped ==
  /\ docRev \in [Docs -> 1 .. MaxRev]
  /\ refs \in PageCopies(docRev) /\ data \in PageCopies(docRev) /\ rendered \in PageCopies(docRev)
  /\ patched \in BOOLEAN /\ reconnects \in BOOLEAN

PageSound == PageTyped /\ PageSocketSound /\ FramesFollow /\ WritesSound
PageInv == PageSound /\ PageCounts

LEMMA PageConstants ==
  NoDoc \notin Docs /\ MaxRev \in Nat \ {0} /\ MaxTurns \in Nat /\ MaxOutages \in Nat /\ MaxUpdates \in Nat
  BY RaceDayAssumption, RaceDayBounds

(* What a copy is. *)
LEMMA PageCopyTyped ==
  ASSUME NEW dr \in [Docs -> 1 .. MaxRev], NEW copy \in PageCopies(dr)
  PROVE  /\ copy.rev \in Nat /\ DOMAIN copy = {"doc", "rev"}
         /\ copy # Page!NoCopy => copy.doc \in Docs /\ copy.rev \in 1 .. dr[copy.doc]
  BY PageConstants DEF PageCopies, Page!Committed, Page!NoCopy, Page!Copy

LEMMA PageCopyOfDoc ==
  ASSUME NEW dr \in [Docs -> 1 .. MaxRev], NEW d \in Docs, NEW r \in 1 .. dr[d]
  PROVE  Page!Copy(d, r) \in PageCopies(dr)
  BY PageConstants DEF PageCopies, Page!Committed, Page!NoCopy, Page!Copy

(* Documents only get newer versions, copies and messages stay those of versions there have been. *)
LEMMA PageCopiesKept ==
  ASSUME NEW dr \in [Docs -> 1 .. MaxRev], NEW dw \in [Docs -> 1 .. MaxRev],
         \A d \in Docs : dr[d] <= dw[d]
  PROVE  PageCopies(dr) \subseteq PageCopies(dw) /\ PageFrame(dr) \subseteq PageFrame(dw)
<1>1. PageCopies(dr) \subseteq PageCopies(dw)
  BY PageConstants DEF PageCopies, Page!Committed, Page!NoCopy, Page!Copy
<1>2. PageFrame(dr) \subseteq PageFrame(dw)
  BY DEF PageFrame
<1> QED
  BY <1>1, <1>2

(* The messages that follow a version, with one more or one less. *)
LEMMA FollowsAppend ==
  ASSUME NEW dr \in [Docs -> 1 .. MaxRev], NEW fs \in Seq(PageFrame(dr)), NEW base \in Int, NEW d,
         NEW r \in Int, FollowsFrom(fs, base, d, r), NEW m, m.type # "rev_mismatch", m.doc = d, m.rev = r + 1
  PROVE  FollowsFrom(Append(fs, m), base, d, r + 1)
<1> DEFINE gs == Append(fs, m)
<1>1. /\ Len(gs) = Len(fs) + 1 /\ Len(fs) \in Nat /\ gs[Len(fs) + 1] = m
      /\ \A i \in 1 .. Len(fs) : gs[i] = fs[i]
  BY AppendProperties
<1> HIDE DEF gs
<1>2. ASSUME NEW i \in 1 .. Len(gs), gs[i].type # "rev_mismatch" PROVE gs[i].doc = d
  BY <1>1, <1>2 DEF FollowsFrom
<1>3. ASSUME NEW n \in 1 .. Len(fs), Unbroken(gs, n) PROVE Unbroken(fs, n)
  BY <1>1, <1>3 DEF Unbroken
<1>4. Unbroken(fs, Len(fs)) => r = base + Len(fs)
  BY DEF FollowsFrom
<1>5. Unbroken(gs, Len(gs)) => Unbroken(fs, Len(fs))
  BY <1>1 DEF Unbroken
<1>6. ASSUME NEW i \in 1 .. Len(gs), Unbroken(gs, i) PROVE gs[i].rev = base + i
  <2>1. CASE i \in 1 .. Len(fs)
    BY <1>1, <1>3, <1>6, <2>1 DEF FollowsFrom
  <2>2. CASE i = Len(gs)
    BY <1>1, <1>4, <1>5, <1>6, <2>2
  <2> QED
    BY <1>1, <2>1, <2>2
<1>7. Unbroken(gs, Len(gs)) => r + 1 = base + Len(gs)
  BY <1>1, <1>4, <1>5
<1>8. FollowsFrom(gs, base, d, r + 1)
  BY <1>2, <1>6, <1>7 DEF FollowsFrom
<1> QED
  BY <1>8 DEF gs

LEMMA FollowsRefused ==
  ASSUME NEW dr \in [Docs -> 1 .. MaxRev], NEW fs \in Seq(PageFrame(dr)), NEW base \in Int, NEW d,
         NEW r \in Int, FollowsFrom(fs, base, d, r), NEW m, m.type = "rev_mismatch"
  PROVE  FollowsFrom(Append(fs, m), base, d, r)
<1> DEFINE gs == Append(fs, m)
<1>1. /\ Len(gs) = Len(fs) + 1 /\ Len(fs) \in Nat /\ gs[Len(fs) + 1] = m
      /\ \A i \in 1 .. Len(fs) : gs[i] = fs[i]
  BY AppendProperties
<1> HIDE DEF gs
<1>2. ASSUME NEW i \in 1 .. Len(gs), gs[i].type # "rev_mismatch" PROVE gs[i].doc = d
  BY <1>1, <1>2 DEF FollowsFrom
<1>3. ASSUME NEW n \in 1 .. Len(fs), Unbroken(gs, n) PROVE Unbroken(fs, n)
  BY <1>1, <1>3 DEF Unbroken
<1>4. ~Unbroken(gs, Len(gs))
  BY <1>1 DEF Unbroken
<1>5. ASSUME NEW i \in 1 .. Len(gs), Unbroken(gs, i) PROVE gs[i].rev = base + i
  <2>1. i \in 1 .. Len(fs)
    BY <1>1, <1>4, <1>5
  <2> QED
    BY <1>1, <1>3, <1>5, <2>1 DEF FollowsFrom
<1>6. FollowsFrom(gs, base, d, r)
  BY <1>2, <1>4, <1>5 DEF FollowsFrom
<1> QED
  BY <1>6 DEF gs

LEMMA FollowsTail ==
  ASSUME NEW dr \in [Docs -> 1 .. MaxRev], NEW fs \in Seq(PageFrame(dr)), fs # <<>>, NEW base \in Int, NEW d,
         NEW r \in Int, FollowsFrom(fs, base, d, r), fs[1].type # "rev_mismatch"
  PROVE  /\ fs[1].rev = base + 1 /\ fs[1].doc = d
         /\ FollowsFrom(Tail(fs), base + 1, d, r)
<1> DEFINE gs == Tail(fs)
<1>1. /\ Len(gs) = Len(fs) - 1 /\ Len(fs) \in Nat \ {0}
      /\ \A i \in 1 .. Len(gs) : gs[i] = fs[i + 1]
  BY HeadTailProperties, EmptySeq
<1> HIDE DEF gs
<1>2. Unbroken(fs, 1)
  BY DEF Unbroken
<1>3. fs[1].rev = base + 1 /\ fs[1].doc = d
  BY <1>1, <1>2 DEF FollowsFrom
<1>4. ASSUME NEW i \in 1 .. Len(gs), gs[i].type # "rev_mismatch" PROVE gs[i].doc = d
  BY <1>1, <1>4 DEF FollowsFrom
<1>5. ASSUME NEW n \in 0 .. Len(gs), Unbroken(gs, n) PROVE Unbroken(fs, n + 1)
  <2>1. ASSUME NEW i \in 1 .. n + 1 PROVE fs[i].type # "rev_mismatch"
    <3>1. CASE i = 1
      BY <3>1
    <3>2. CASE i # 1
      <4>1. i - 1 \in 1 .. n /\ i - 1 \in 1 .. Len(gs) /\ (i - 1) + 1 = i
        BY <1>1, <3>2
      <4>2. gs[i - 1] = fs[i]
        BY <1>1, <4>1
      <4> QED
        BY <1>5, <4>1, <4>2 DEF Unbroken
    <3> QED
      BY <3>1, <3>2
  <2> QED
    BY <2>1 DEF Unbroken
<1>6. ASSUME NEW i \in 1 .. Len(gs), Unbroken(gs, i) PROVE gs[i].rev = base + 1 + i
  <2>1. Unbroken(fs, i + 1) /\ i + 1 \in 1 .. Len(fs)
    BY <1>1, <1>5, <1>6
  <2>2. fs[i + 1].rev = base + (i + 1)
    BY <2>1 DEF FollowsFrom
  <2> QED
    BY <1>1, <2>2
<1>7. Unbroken(gs, Len(gs)) => r = base + 1 + Len(gs)
  <2>1. Unbroken(gs, Len(gs)) => Unbroken(fs, Len(gs) + 1)
    BY <1>1, <1>5
  <2>2. Unbroken(fs, Len(fs)) => r = base + Len(fs)
    BY DEF FollowsFrom
  <2> QED
    BY <1>1, <2>1, <2>2
<1>8. FollowsFrom(gs, base + 1, d, r)
  BY <1>4, <1>6, <1>7 DEF FollowsFrom
<1> QED
  BY <1>3, <1>8 DEF gs

(* A new socket starts from nothing; what was to be shown is shown, and the old answers go unheard. *)
LEMMA MutedWrites ==
  ASSUME WritesSound, writes' = [i \in DOMAIN writes |-> [writes[i] EXCEPT !.heard = FALSE]]
  PROVE  WritesSound'
<1>1. writes \in Seq(PageWrite) /\ Len(writes) \in Nat /\ DOMAIN writes = 1 .. Len(writes)
  BY DEF WritesSound
<1>2. \A i \in 1 .. Len(writes) : writes[i] \in PageWrite
  BY <1>1
<1>3. \A w \in PageWrite : /\ [w EXCEPT !.heard = FALSE] \in PageWrite
                           /\ [w EXCEPT !.heard = FALSE].base = w.base
                           /\ [w EXCEPT !.heard = FALSE].on = w.on
                           /\ [w EXCEPT !.heard = FALSE].doc = w.doc
                           /\ [w EXCEPT !.heard = FALSE].ready = w.ready
  BY DEF PageWrite
<1>4. writes' \in Seq(PageWrite) /\ Len(writes') = Len(writes)
  <2>1. \A i \in 1 .. Len(writes) : [writes[i] EXCEPT !.heard = FALSE] \in PageWrite
    BY <1>2, <1>3
  <2>2. writes' \in [1 .. Len(writes) -> PageWrite]
    BY <1>1, <2>1
  <2> QED
    BY <1>1, <2>2, SeqDef, LenProperties
<1>5. \A i \in 1 .. Len(writes) : writes'[i] = [writes[i] EXCEPT !.heard = FALSE]
  BY <1>1
<1>6. \A i \in 1 .. Len(writes') : writes'[i].base = writes'[i].on.rev
  BY <1>2, <1>3, <1>4, <1>5 DEF WritesSound
<1>7. ASSUME NEW i \in 1 .. Len(writes'), writes'[i].ready PROVE writes'[i].on.doc = writes'[i].doc
  <2>1. i \in 1 .. Len(writes)
    BY <1>4
  <2>2. writes[i].ready /\ writes'[i].on = writes[i].on /\ writes'[i].doc = writes[i].doc
    BY <1>2, <1>3, <1>5, <1>7, <2>1
  <2> QED
    BY <2>1, <2>2 DEF WritesSound
<1> QED
  BY <1>4, <1>6, <1>7 DEF WritesSound

LEMMA SettleKeeps ==
  ASSUME PageTyped, Page!Settle, UNCHANGED <<docRev, reconnects>>
  PROVE  PageTyped'
<1>1. refs' \in PageCopies(docRev)
  <2>1. CASE patched
    BY <2>1 DEF PageTyped, Page!Settle
  <2>2. CASE ~patched
    BY <2>2 DEF PageTyped, Page!Settle
  <2> QED
    BY <2>1, <2>2
<1>2. data' \in PageCopies(docRev) /\ rendered' \in PageCopies(docRev) /\ patched' = FALSE
  BY DEF PageTyped, Page!Settle
<1>3. docRev' = docRev /\ docRev \in [Docs -> 1 .. MaxRev] /\ reconnects' \in BOOLEAN
  BY DEF PageTyped
<1> QED
  BY <1>1, <1>2, <1>3 DEF PageTyped

LEMMA SocketOpened ==
  ASSUME WritesSound, Page!OpenSocket, docId' \in Docs
  PROVE  PageSocketSound' /\ FramesFollow' /\ WritesSound'
<1>1. PageSocketSound'
  BY PageConstants DEF PageSocketSound, Page!OpenSocket
<1>2. frames' = <<>> /\ pageLink' = "connecting"
  BY DEF Page!OpenSocket
<1>3. <<>> \in Seq(PageFrame(docRev'))
  OBVIOUS
<1>4. FramesFollow'
  BY <1>2, <1>3 DEF FramesFollow
<1>5. WritesSound'
  BY MutedWrites DEF Page!OpenSocket
<1> QED
  BY <1>1, <1>4, <1>5

(* A document gets a new version, which the page is sent when its socket is open. *)
LEMMA CommitKeeps ==
  ASSUME PageTyped, PageSocketSound, FramesFollow, NEW d \in Docs, Page!Commit(d),
         UNCHANGED <<docId, pageLink, synced, rendered, refs, data, patched, reconnects>>
  PROVE  PageTyped' /\ FramesFollow'
<1>1. /\ docRev \in [Docs -> 1 .. MaxRev] /\ docRev[d] < MaxRev
      /\ docRev' = [docRev EXCEPT ![d] = docRev[d] + 1]
  BY DEF PageTyped, Page!Commit
<1>2. docRev' \in [Docs -> 1 .. MaxRev] /\ docRev'[d] = docRev[d] + 1 /\ docRev[d] \in 1 .. MaxRev
  BY <1>1, PageConstants
<1>3. \A e \in Docs : docRev[e] <= docRev'[e] /\ (e # d => docRev'[e] = docRev[e])
  BY <1>1, PageConstants
<1>4. PageCopies(docRev) \subseteq PageCopies(docRev') /\ PageFrame(docRev) \subseteq PageFrame(docRev')
  BY <1>1, <1>2, <1>3, PageCopiesKept
<1>5. PageTyped'
  BY <1>2, <1>4 DEF PageTyped
<1>6. frames \in Seq(PageFrame(docRev)) /\ frames \in Seq(PageFrame(docRev'))
  BY <1>4 DEF FramesFollow
<1>7. ASSUME ~(pageLink = "open" /\ docId = d) PROVE FramesFollow'
  <2>1. frames' = frames
    BY <1>7 DEF Page!Commit
  <2>2. pageLink = "open" => docId \in Docs /\ docRev'[docId] = docRev[docId]
    BY <1>3, <1>7 DEF PageSocketSound
  <2>3. frames' \in Seq(PageFrame(docRev')) /\ (pageLink' # "open" => frames' = <<>>)
    BY <1>6, <2>1 DEF FramesFollow
  <2> QED
    BY <2>1, <2>2, <2>3 DEF FramesFollow
<1>8. ASSUME pageLink = "open", docId = d PROVE FramesFollow'
  <2> DEFINE m == [type |-> "patch", doc |-> d, rev |-> docRev[d] + 1]
  <2>1. frames' = Append(frames, m)
    BY <1>8 DEF Page!Commit
  <2>2. m \in PageFrame(docRev')
    BY <1>2 DEF PageFrame
  <2>3. m.type = "patch" /\ m.doc = d /\ m.rev = docRev[d] + 1
    OBVIOUS
  <2> HIDE DEF m
  <2>4. /\ frames' \in Seq(PageFrame(docRev')) /\ Len(frames') = Len(frames) + 1 /\ Len(frames) \in Nat
        /\ frames'[Len(frames) + 1] = m /\ \A i \in 1 .. Len(frames) : frames'[i] = frames[i]
    BY <1>6, <2>1, <2>2, AppendProperties
  <2>5. ASSUME synced PROVE FramesFollow'
    <3>1. FollowsFrom(frames, rendered.rev, d, docRev[d]) /\ rendered.rev \in Nat
      BY <1>1, <1>8, <2>5, PageCopyTyped DEF FramesFollow, PageTyped
    <3>2. FollowsFrom(frames', rendered.rev, d, docRev[d] + 1)
      BY <1>1, <1>2, <1>6, <2>1, <2>3, <3>1, FollowsAppend
    <3>3. \A i \in 1 .. Len(frames) : frames[i].type # "snapshot"
      BY <1>8, <2>5 DEF FramesFollow
    <3>4. \A i \in 1 .. Len(frames') : frames'[i].type # "snapshot"
      BY <2>3, <2>4, <3>3
    <3> QED
      BY <1>2, <1>8, <2>4, <2>5, <3>2, <3>4 DEF FramesFollow
  <2>6. ASSUME ~synced PROVE FramesFollow'
    <3>1. /\ frames # <<>> /\ \A i \in 1 .. Len(frames) : frames[i].type = "snapshot" <=> i = 1
          /\ FollowsFrom(frames, frames[1].rev - 1, d, docRev[d])
      BY <1>8, <2>6 DEF FramesFollow
    <3>2. Len(frames) \in Nat \ {0} /\ frames[1] \in PageFrame(docRev) /\ frames[1].type = "snapshot"
      BY <1>6, <2>4, <3>1, EmptySeq
    <3>3. frames[1].rev - 1 \in Int /\ docRev[d] \in Int /\ frames'[1] = frames[1] /\ frames' # <<>>
      BY <1>2, <2>4, <3>2, EmptySeq DEF PageFrame
    <3>4. FollowsFrom(frames', frames[1].rev - 1, d, docRev[d] + 1)
      <4>1. ASSUME NEW base \in Int, base = frames[1].rev - 1
            PROVE  FollowsFrom(frames', base, d, docRev[d] + 1)
        BY <1>1, <1>6, <2>1, <2>3, <3>1, <3>3, <4>1, FollowsAppend
      <4> QED
        BY <3>3, <4>1
    <3>5. \A i \in 1 .. Len(frames') : frames'[i].type = "snapshot" <=> i = 1
      BY <2>3, <2>4, <3>1, <3>2
    <3> QED
      BY <1>2, <1>8, <2>4, <2>6, <3>3, <3>4, <3>5 DEF FramesFollow
  <2> QED
    BY <2>5, <2>6
<1> QED
  BY <1>5, <1>7, <1>8

(* A write refused is answered on the socket it came by. *)
LEMMA RefusalKeeps ==
  ASSUME PageTyped, PageSocketSound, FramesFollow, pageLink = "open",
         frames' = Append(frames, [type |-> "rev_mismatch"]),
         UNCHANGED <<docRev, docId, pageLink, synced, rendered>>
  PROVE  FramesFollow'
<1> DEFINE m == [type |-> "rev_mismatch"]
<1>1. docRev \in [Docs -> 1 .. MaxRev] /\ docId \in Docs /\ docRev[docId] \in Int
  BY PageConstants DEF PageTyped, PageSocketSound
<1>2. m \in PageFrame(docRev) /\ m.type = "rev_mismatch" /\ frames' = Append(frames, m)
  BY DEF PageFrame
<1> HIDE DEF m
<1>3. frames \in Seq(PageFrame(docRev))
  BY DEF FramesFollow
<1>4. /\ frames' \in Seq(PageFrame(docRev)) /\ Len(frames') = Len(frames) + 1 /\ Len(frames) \in Nat
      /\ frames'[Len(frames) + 1] = m /\ \A i \in 1 .. Len(frames) : frames'[i] = frames[i]
  BY <1>2, <1>3, AppendProperties
<1>5. ASSUME synced PROVE FramesFollow'
  <2>1. FollowsFrom(frames, rendered.rev, docId, docRev[docId]) /\ rendered.rev \in Nat
    BY <1>1, <1>5, PageCopyTyped DEF FramesFollow, PageTyped
  <2>2. FollowsFrom(frames', rendered.rev, docId, docRev[docId])
    BY <1>1, <1>2, <1>3, <2>1, FollowsRefused
  <2>3. \A i \in 1 .. Len(frames') : frames'[i].type # "snapshot"
    BY <1>2, <1>4, <1>5 DEF FramesFollow
  <2> QED
    BY <1>4, <1>5, <2>2, <2>3 DEF FramesFollow
<1>6. ASSUME ~synced PROVE FramesFollow'
  <2>1. /\ frames # <<>> /\ \A i \in 1 .. Len(frames) : frames[i].type = "snapshot" <=> i = 1
        /\ FollowsFrom(frames, frames[1].rev - 1, docId, docRev[docId])
    BY <1>6 DEF FramesFollow
  <2>2. Len(frames) \in Nat \ {0} /\ frames[1] \in PageFrame(docRev) /\ frames[1].type = "snapshot"
    BY <1>3, <1>4, <2>1, EmptySeq
  <2>3. frames[1].rev \in Int /\ frames'[1] = frames[1] /\ frames' # <<>>
    BY <1>4, <2>2, EmptySeq DEF PageFrame
  <2>4. FollowsFrom(frames', frames[1].rev - 1, docId, docRev[docId])
    BY <1>1, <1>2, <1>3, <2>1, <2>3, FollowsRefused
  <2>5. \A i \in 1 .. Len(frames') : frames'[i].type = "snapshot" <=> i = 1
    BY <1>2, <1>4, <2>1, <2>2
  <2> QED
    BY <1>4, <1>6, <2>3, <2>4, <2>5 DEF FramesFollow
<1> QED
  BY <1>5, <1>6

(* A message that comes moves the copy to be shown to its version. *)
LEMMA SnapshotReceived ==
  ASSUME PageTyped, PageSocketSound, FramesFollow, Page!ReceiveSnapshot
  PROVE  PageTyped' /\ PageSocketSound' /\ FramesFollow'
<1>1. /\ pageLink = "open" /\ frames # <<>> /\ Head(frames) = frames[1] /\ frames[1].type = "snapshot"
      /\ frames' = Tail(frames) /\ rendered' = Page!Copy(frames[1].doc, frames[1].rev)
      /\ refs' = rendered' /\ synced' = TRUE
      /\ UNCHANGED <<docRev, reconnects, docId, pageLink, pageTimer, data, patched>>
  BY DEF Page!ReceiveSnapshot
<1>2. docRev \in [Docs -> 1 .. MaxRev] /\ docId \in Docs /\ frames \in Seq(PageFrame(docRev))
  BY <1>1 DEF PageTyped, PageSocketSound, FramesFollow
<1>3. docRev[docId] \in Int /\ Len(frames) \in Nat \ {0} /\ frames[1] \in PageFrame(docRev)
  BY <1>1, <1>2, PageConstants, EmptySeq
<1>4. ~synced
  BY <1>1, <1>3 DEF FramesFollow, PageSocketSound
<1>5. /\ \A i \in 1 .. Len(frames) : frames[i].type = "snapshot" <=> i = 1
      /\ FollowsFrom(frames, frames[1].rev - 1, docId, docRev[docId])
  BY <1>1, <1>4 DEF FramesFollow
<1>6. frames[1].rev \in Nat /\ frames[1].doc \in Docs /\ frames[1].rev \in 1 .. docRev[frames[1].doc]
  BY <1>1, <1>3 DEF PageFrame
<1>7. frames[1].doc = docId /\ FollowsFrom(frames', frames[1].rev, docId, docRev[docId])
  <2>1. ASSUME NEW base \in Int, base = frames[1].rev - 1
        PROVE  frames[1].doc = docId /\ FollowsFrom(frames', base + 1, docId, docRev[docId])
    BY <1>1, <1>2, <1>3, <1>5, <2>1, FollowsTail
  <2> QED
    BY <1>6, <2>1
<1>8. /\ Tail(frames) \in Seq(PageFrame(docRev)) /\ Len(Tail(frames)) = Len(frames) - 1
      /\ \A i \in 1 .. Len(Tail(frames)) : Tail(frames)[i] = frames[i + 1]
  BY <1>1, <1>2, HeadTailProperties
<1>9. \A i \in 1 .. Len(frames') : frames'[i].type # "snapshot"
  BY <1>1, <1>3, <1>5, <1>8
<1>10. rendered'.doc = docId /\ rendered'.rev = frames[1].rev
  BY <1>1, <1>7 DEF Page!Copy
<1>11. FramesFollow'
  BY <1>1, <1>2, <1>7, <1>8, <1>9, <1>10 DEF FramesFollow
<1>12. PageSocketSound'
  BY <1>1, <1>2, <1>10 DEF PageSocketSound
<1>13. rendered' \in PageCopies(docRev)
  BY <1>1, <1>2, <1>6, PageCopyOfDoc
<1>14. PageTyped'
  BY <1>1, <1>13 DEF PageTyped
<1> QED
  BY <1>11, <1>12, <1>14

LEMMA PatchReceived ==
  ASSUME PageTyped, PageSocketSound, FramesFollow, Page!ReceivePatch
  PROVE  PageTyped' /\ PageSocketSound' /\ FramesFollow'
<1>1. /\ pageLink = "open" /\ frames # <<>> /\ Head(frames) = frames[1] /\ frames[1].type = "patch"
      /\ frames' = Tail(frames) /\ rendered' = Page!Patched(rendered, frames[1]) /\ patched' = TRUE
      /\ UNCHANGED <<docRev, reconnects, docId, pageLink, pageTimer, refs, data, synced>>
  BY DEF Page!ReceivePatch
<1>2. docRev \in [Docs -> 1 .. MaxRev] /\ docId \in Docs /\ frames \in Seq(PageFrame(docRev))
  BY <1>1 DEF PageTyped, PageSocketSound, FramesFollow
<1>3. docRev[docId] \in Int /\ Len(frames) \in Nat \ {0} /\ frames[1] \in PageFrame(docRev)
  BY <1>1, <1>2, PageConstants, EmptySeq
<1>4. synced
  BY <1>1, <1>3 DEF FramesFollow, PageSocketSound
<1>5. /\ \A i \in 1 .. Len(frames) : frames[i].type # "snapshot"
      /\ FollowsFrom(frames, rendered.rev, docId, docRev[docId])
  BY <1>1, <1>4 DEF FramesFollow
<1>6. /\ rendered.rev \in Nat /\ DOMAIN rendered = {"doc", "rev"} /\ rendered.doc = docId
      /\ rendered # Page!NoCopy /\ rendered = Page!Copy(docId, rendered.rev)
  <2>1. rendered.rev \in Nat /\ DOMAIN rendered = {"doc", "rev"} /\ rendered.doc = docId
    BY <1>2, <1>4, PageCopyTyped DEF PageTyped, PageSocketSound
  <2>2. rendered # Page!NoCopy
    BY <1>2, <2>1, PageConstants DEF Page!NoCopy, Page!Copy
  <2>3. rendered = Page!Copy(docId, rendered.rev)
    BY <2>1, <2>2 DEF PageTyped, PageCopies, Page!Committed, Page!Copy
  <2> QED
    BY <2>1, <2>2, <2>3
<1>7. frames[1].rev = rendered.rev + 1 /\ frames[1].doc = docId
  BY <1>1, <1>2, <1>3, <1>5, <1>6, FollowsTail
<1>8. FollowsFrom(frames', rendered.rev + 1, docId, docRev[docId])
  BY <1>1, <1>2, <1>3, <1>5, <1>6, FollowsTail
<1>9. rendered' = Page!Copy(docId, rendered.rev + 1)
  BY <1>1, <1>6, <1>7 DEF Page!Patched
<1>10. rendered'.doc = docId /\ rendered'.rev = rendered.rev + 1
  BY <1>9 DEF Page!Copy
<1>11. /\ Tail(frames) \in Seq(PageFrame(docRev)) /\ Len(Tail(frames)) = Len(frames) - 1
       /\ \A i \in 1 .. Len(Tail(frames)) : Tail(frames)[i] = frames[i + 1]
  BY <1>1, <1>2, HeadTailProperties
<1>12. \A i \in 1 .. Len(frames') : frames'[i].type # "snapshot"
  BY <1>1, <1>3, <1>5, <1>11
<1>13. FramesFollow'
  BY <1>1, <1>4, <1>8, <1>10, <1>11, <1>12 DEF FramesFollow
<1>14. PageSocketSound'
  BY <1>1, <1>10 DEF PageSocketSound
<1>15. rendered' \in PageCopies(docRev)
  <2>1. frames[1].rev \in 1 .. docRev[frames[1].doc]
    BY <1>1, <1>3 DEF PageFrame
  <2> QED
    BY <1>2, <1>7, <1>9, <2>1, PageCopyOfDoc
<1>16. PageTyped'
  BY <1>1, <1>15 DEF PageTyped
<1> QED
  BY <1>13, <1>14, <1>16

(* A change is sent with the copy it was computed from. *)
LEMMA UpdateKeeps ==
  ASSUME PageTyped, PageSocketSound, WritesSound, Page!Update
  PROVE  WritesSound'
<1>1. CASE pageLink = "broken"
  BY <1>1 DEF WritesSound, Page!Update
<1>2. CASE pageLink # "broken"
  <2> DEFINE w == [doc |-> docId, base |-> refs.rev, on |-> refs, ready |-> synced, heard |-> TRUE]
  <2>1. writes' = Append(writes, w) /\ pageLink = "open"
    BY <1>2 DEF Page!Update
  <2>2. docId \in Docs /\ synced \in BOOLEAN
    BY <2>1 DEF PageSocketSound
  <2>3. refs.rev \in Nat /\ refs \in Page!Committed
    BY PageCopyTyped DEF PageTyped, PageCopies
  <2>4. w \in PageWrite
    BY <2>2, <2>3 DEF PageWrite
  <2>5. w.base = w.on.rev
    OBVIOUS
  <2>6. w.ready => w.on.doc = w.doc
    BY <2>2 DEF PageSocketSound
  <2> HIDE DEF w
  <2>7. writes \in Seq(PageWrite)
    BY DEF WritesSound
  <2>8. /\ writes' \in Seq(PageWrite) /\ Len(writes') = Len(writes) + 1 /\ Len(writes) \in Nat
        /\ writes'[Len(writes) + 1] = w /\ \A i \in 1 .. Len(writes) : writes'[i] = writes[i]
    BY <2>1, <2>4, <2>7, AppendProperties
  <2>9. \A i \in 1 .. Len(writes') : writes'[i].base = writes'[i].on.rev
    BY <2>5, <2>8 DEF WritesSound
  <2>10. ASSUME NEW i \in 1 .. Len(writes'), writes'[i].ready PROVE writes'[i].on.doc = writes'[i].doc
    <3>1. CASE i \in 1 .. Len(writes)
      BY <2>8, <2>10, <3>1 DEF WritesSound
    <3>2. CASE i = Len(writes) + 1
      BY <2>6, <2>8, <2>10, <3>2
    <3> QED
      BY <2>8, <3>1, <3>2
  <2> QED
    BY <2>8, <2>9, <2>10 DEF WritesSound
<1> QED
  BY <1>1, <1>2

(* Of the writes under way, those that reach the hub stay as they were sent. *)
LEMMA FewerWrites ==
  ASSUME WritesSound, NEW m \in 1 .. Len(writes) + 1, NEW n \in 0 .. Len(writes),
         writes' = SubSeq(writes, m, n)
  PROVE  WritesSound'
<1>1. writes \in Seq(PageWrite) /\ Len(writes) \in Nat /\ \A i \in m .. n : writes[i] \in PageWrite
  BY DEF WritesSound
<1>2. /\ writes' \in Seq(PageWrite) /\ Len(writes') = IF m <= n THEN n - m + 1 ELSE 0
      /\ \A i \in 1 .. n - m + 1 : writes'[i] = writes[m + i - 1]
  BY <1>1, SubSeqProperties
<1>3. ASSUME NEW i \in 1 .. Len(writes')
      PROVE  writes'[i] = writes[m + i - 1] /\ m + i - 1 \in 1 .. Len(writes)
  BY <1>1, <1>2
<1>4. \A i \in 1 .. Len(writes') : writes'[i].base = writes'[i].on.rev
  BY <1>3 DEF WritesSound
<1>5. \A i \in 1 .. Len(writes') : writes'[i].ready => writes'[i].on.doc = writes'[i].doc
  BY <1>3 DEF WritesSound
<1> QED
  BY <1>2, <1>4, <1>5 DEF WritesSound

LEMMA PageBounds ==
  ASSUME PageCounts, [Page!Next]_pageVars
  PROVE  PageCounts'
<1> USE PageConstants DEF PageCounts, Page!Outage
<1>1. ASSUME NEW d \in Docs, Page!Turn(d) \/ Page!OtherWrite(d) PROVE PageCounts'
  BY <1>1 DEF Page!Turn, Page!OtherWrite
<1>2. CASE Page!TurnAway
  BY <1>2 DEF Page!TurnAway
<1>3. CASE Page!Opened \/ Page!Closed \/ Page!Break
  BY <1>3 DEF Page!Opened, Page!Closed, Page!Break
<1>4. CASE Page!ReconnectTimer \/ Page!ReceiveMismatch \/ Page!Render
  BY <1>4 DEF Page!ReconnectTimer, Page!ReceiveMismatch, Page!Render
<1>5. CASE Page!ReceiveSnapshot \/ Page!ReceivePatch
  BY <1>5 DEF Page!ReceiveSnapshot, Page!ReceivePatch
<1>6. CASE Page!Update
  BY <1>6 DEF Page!Update
<1>7. CASE Page!HandleWrite
  BY <1>7 DEF Page!HandleWrite
<1>8. CASE UNCHANGED pageVars
  BY <1>8 DEF pageVars
<1> QED
  BY <1>1, <1>2, <1>3, <1>4, <1>5, <1>6, <1>7, <1>8 DEF Page!Next

LEMMA PageInductive ==
  ASSUME PageInv, [Page!Next]_pageVars
  PROVE  PageInv'
<1> USE DEF PageSound
<1>1. PageTyped /\ PageSocketSound /\ FramesFollow /\ WritesSound
  BY DEF PageInv, PageSound
<1>2. PageCounts'
  BY PageBounds DEF PageInv
<1>3. ASSUME NEW d \in Docs, Page!Turn(d) PROVE PageSound'
  BY <1>1, <1>3, SettleKeeps, SocketOpened DEF Page!Turn
<1>4. ASSUME NEW d \in Docs, Page!OtherWrite(d) PROVE PageSound'
  <2>1. PageTyped' /\ FramesFollow'
    BY <1>1, <1>4, CommitKeeps DEF Page!OtherWrite
  <2>2. PageSocketSound' /\ WritesSound'
    BY <1>1, <1>4 DEF Page!OtherWrite, PageSocketSound, WritesSound
  <2> QED
    BY <2>1, <2>2
<1>5. ASSUME Page!TurnAway PROVE PageSound'
  <2>1. Page!NoCopy \in PageCopies(docRev)
    BY DEF PageCopies, Page!Committed
  <2>2. PageTyped'
    BY <1>1, <1>5, <2>1 DEF Page!TurnAway, PageTyped
  <2>3. PageSocketSound'
    BY <1>1, <1>5 DEF Page!TurnAway, PageSocketSound
  <2>4. <<>> \in Seq(PageFrame(docRev'))
    OBVIOUS
  <2>5. FramesFollow'
    BY <1>5, <2>4 DEF Page!TurnAway, FramesFollow
  <2>6. WritesSound'
    BY <1>1, <1>5, MutedWrites DEF Page!TurnAway
  <2> QED
    BY <2>2, <2>3, <2>5, <2>6
<1>6. ASSUME Page!Opened PROVE PageSound'
  <2> DEFINE m == [type |-> "snapshot", doc |-> docId, rev |-> docRev[docId]]
  <2>1. pageLink = "connecting" /\ docId \in Docs /\ docRev \in [Docs -> 1 .. MaxRev]
    BY <1>1, <1>6 DEF Page!Opened, PageSocketSound, PageTyped
  <2>2. frames' = <<m>> /\ pageLink' = "open" /\ docRev' = docRev /\ docId' = docId /\ synced' = synced
    BY <1>6 DEF Page!Opened
  <2>3. m \in PageFrame(docRev) /\ m.type = "snapshot" /\ m.doc = docId /\ m.rev = docRev[docId] /\ m.rev \in Int
    BY <2>1, PageConstants DEF PageFrame
  <2> HIDE DEF m
  <2>4. <<m>> \in Seq(PageFrame(docRev)) /\ Len(<<m>>) = 1 /\ <<m>>[1] = m /\ <<m>> # <<>>
    BY <2>3
  <2>5. FollowsFrom(<<m>>, m.rev - 1, docId, docRev[docId])
    BY <2>3, <2>4 DEF FollowsFrom
  <2>6. ~synced
    BY <1>1, <2>1 DEF PageSocketSound
  <2>7. FramesFollow'
    BY <2>2, <2>3, <2>4, <2>5, <2>6 DEF FramesFollow
  <2>8. PageTyped' /\ PageSocketSound' /\ WritesSound'
    BY <1>1, <1>6, <2>1 DEF Page!Opened, PageTyped, PageSocketSound, WritesSound
  <2> QED
    BY <2>7, <2>8
<1>7. ASSUME Page!Closed PROVE PageSound'
  BY <1>1, <1>7 DEF Page!Closed, PageTyped, PageSocketSound, FramesFollow, WritesSound
<1>8. ASSUME Page!Break PROVE PageSound'
  <2>1. PageTyped' /\ PageSocketSound'
    BY <1>1, <1>8 DEF Page!Break, PageTyped, PageSocketSound
  <2>2. <<>> \in Seq(PageFrame(docRev'))
    OBVIOUS
  <2>3. FramesFollow'
    BY <1>8, <2>2 DEF Page!Break, FramesFollow
  <2>4. WritesSound'
    <3>1. PICK n \in 0 .. Len(writes) : writes' = SubSeq(writes, 1, n)
      BY <1>8 DEF Page!Break
    <3>2. 1 \in 1 .. Len(writes) + 1
      BY <1>1 DEF WritesSound
    <3> QED
      BY <1>1, <3>1, <3>2, FewerWrites
  <2> QED
    BY <2>1, <2>3, <2>4
<1>9. ASSUME Page!ReconnectTimer PROVE PageSound'
  <2>1. docId' \in Docs
    BY <1>1, <1>9 DEF Page!ReconnectTimer, PageSocketSound
  <2> QED
    BY <1>1, <1>9, <2>1, SettleKeeps, SocketOpened DEF Page!ReconnectTimer
<1>10. ASSUME Page!ReceiveSnapshot PROVE PageSound'
  <2>1. WritesSound'
    BY <1>1, <1>10 DEF Page!ReceiveSnapshot, WritesSound
  <2> QED
    BY <1>1, <1>10, <2>1, SnapshotReceived
<1>11. ASSUME Page!ReceivePatch PROVE PageSound'
  <2>1. WritesSound'
    BY <1>1, <1>11 DEF Page!ReceivePatch, WritesSound
  <2> QED
    BY <1>1, <1>11, <2>1, PatchReceived
<1>12. ASSUME Page!ReceiveMismatch PROVE PageSound'
  <2>1. docId' \in Docs
    BY <1>1, <1>12 DEF Page!ReceiveMismatch, PageSocketSound
  <2> QED
    BY <1>1, <1>12, <2>1, SettleKeeps, SocketOpened DEF Page!ReceiveMismatch
<1>13. ASSUME Page!Render PROVE PageSound'
  <2>1. PageTyped'
    BY <1>1, <1>13, SettleKeeps DEF Page!Render
  <2>2. PageSocketSound'
    BY <1>1, <1>13 DEF Page!Render, Page!Settle, PageSocketSound
  <2>3. FramesFollow' /\ WritesSound'
    BY <1>1, <1>13 DEF Page!Render, Page!Settle, FramesFollow, WritesSound
  <2> QED
    BY <2>1, <2>2, <2>3
<1>14. ASSUME Page!Update PROVE PageSound'
  <2>1. PageTyped' /\ PageSocketSound' /\ FramesFollow'
    BY <1>1, <1>14 DEF Page!Update, PageTyped, PageSocketSound, FramesFollow
  <2> QED
    BY <1>1, <1>14, <2>1, UpdateKeeps
<1>15. ASSUME Page!HandleWrite PROVE PageSound'
  <2>1. /\ writes # <<>> /\ writes' = Tail(writes)
        /\ UNCHANGED <<reconnects, docId, pageLink, pageTimer, refs, data, rendered, patched, synced>>
    BY <1>15 DEF Page!HandleWrite
  <2>2. WritesSound'
    <3>1. writes \in Seq(PageWrite) /\ Len(writes) \in Nat \ {0}
      BY <1>1, <2>1, EmptySeq DEF WritesSound
    <3>2. Tail(writes) = SubSeq(writes, 2, Len(writes))
      BY <2>1, <3>1, TailIsSubSeq
    <3> QED
      BY <1>1, <2>1, <3>1, <3>2, FewerWrites
  <2>3. PageSocketSound'
    BY <1>1, <2>1 DEF PageSocketSound
  <2>4. Head(writes) \in PageWrite
    BY <1>1, <2>1, HeadTailProperties DEF WritesSound
  <2>5. ASSUME Page!Commit(Head(writes).doc) PROVE PageSound'
    <3>1. Head(writes).doc \in Docs
      BY <2>4 DEF PageWrite
    <3> QED
      BY <1>1, <2>1, <2>2, <2>3, <2>5, <3>1, CommitKeeps
  <2>6. ASSUME docRev' = docRev, pageLink = "open", frames' = Append(frames, [type |-> "rev_mismatch"])
        PROVE  PageSound'
    <3>1. FramesFollow'
      BY <1>1, <2>1, <2>6, RefusalKeeps
    <3>2. PageTyped'
      BY <1>1, <2>1, <2>6 DEF PageTyped
    <3> QED
      BY <2>2, <2>3, <3>1, <3>2
  <2>7. ASSUME docRev' = docRev, frames' = frames PROVE PageSound'
    BY <1>1, <2>1, <2>2, <2>3, <2>7 DEF PageTyped, FramesFollow
  <2> QED
    BY <1>15, <2>5, <2>6, <2>7 DEF Page!HandleWrite
<1>16. ASSUME UNCHANGED pageVars PROVE PageSound'
  BY <1>1, <1>16 DEF pageVars, PageTyped, PageSocketSound, FramesFollow, WritesSound
<1>17. PageSound'
  BY <1>3, <1>4, <1>5, <1>6, <1>7, <1>8, <1>9, <1>10, <1>11, <1>12, <1>13, <1>14, <1>15, <1>16 DEF Page!Next
<1> QED
  BY <1>2, <1>17 DEF PageInv

LEMMA PageInitially ==
  ASSUME Page!Init
  PROVE  PageInv
<1>1. Page!NoCopy \in PageCopies(docRev)
  BY DEF PageCopies, Page!Committed
<1>2. PageTyped
  <2>1. 1 \in 1 .. MaxRev /\ docRev = [d \in Docs |-> 1]
    BY PageConstants DEF Page!Init
  <2>2. docRev \in [Docs -> 1 .. MaxRev]
    BY <2>1
  <2> QED
    BY <1>1, <2>2 DEF Page!Init, PageTyped
<1>3. PageSocketSound
  BY PageConstants DEF Page!Init, PageSocketSound
<1>4. <<>> \in Seq(PageFrame(docRev)) /\ <<>> \in Seq(PageWrite) /\ Len(<<>>) = 0
  OBVIOUS
<1>5. FramesFollow /\ WritesSound
  BY <1>4 DEF Page!Init, FramesFollow, WritesSound
<1>6. PageCounts
  BY PageConstants DEF Page!Init, PageCounts
<1> QED
  BY <1>2, <1>3, <1>5, <1>6 DEF PageInv, PageSound

LEMMA PageInvTrue ==
  ASSUME PageInv
  PROVE  Page!TypeOK /\ Page!CopyTrue
<1>1. docRev \in [Docs -> 1 .. MaxRev] /\ {refs, data, rendered} \subseteq Page!Committed
  BY DEF PageInv, PageSound, PageTyped, PageCopies
<1>2. Page!TypeOK
  BY <1>1 DEF PageInv, PageSound, PageTyped, PageSocketSound, PageCounts, Page!TypeOK
<1>3. data.rev <= IF data = Page!NoCopy THEN 0 ELSE docRev[data.doc]
  BY DEF PageInv, PageSound, PageTyped, PageCopies, Page!NoCopy, Page!Copy
<1>4. DOMAIN writes = 1 .. Len(writes)
  BY DEF PageInv, PageSound, WritesSound
<1>5. Page!CopyTrue
  BY <1>1, <1>3, <1>4 DEF PageInv, PageSound, WritesSound, Page!CopyTrue
<1> QED
  BY <1>2, <1>5

-----------------------------------------------------------------------------
(* The invariants of the parts hold throughout, in the part that runs and in those that rest. *)
RaceDayInv ==
  /\ ProcessInv /\ SourcesInv /\ StreamsInv
  /\ ConnectionsInv /\ SimulatorInv /\ ClientInv
  /\ PageInv /\ LiveInv /\ ProjectionInv /\ FeedInv

LEMMA RaceDayInvariant == Spec => []RaceDayInv
<1>1. Init => RaceDayInv
  BY ProcessInitially, SourcesInitially, StreamsInitially, ConnectionsInitially, SimulatorInitially, ClientInitially,
     PageInitially, LiveInitially, ProjectionInitially, FeedInitially
     DEF Init, RaceDayInv
<1>2. ASSUME RaceDayInv, [Next]_allVars PROVE RaceDayInv'
  <2>1. ProcessInv' /\ SourcesInv' /\ StreamsInv'
    BY <1>2, StepOfAPart, ProcessInductive, SourcesInductive, StreamsInductive DEF RaceDayInv
  <2>2. ConnectionsInv' /\ SimulatorInv' /\ ClientInv'
    BY <1>2, StepOfAPart, ConnectionsInductive, SimulatorInductive, ClientInductive DEF RaceDayInv
  <2>3. PageInv' /\ LiveInv' /\ ProjectionInv' /\ FeedInv'
    BY <1>2, StepOfAPart, PageInductive, LiveInductive, ProjectionInductive, FeedInductive DEF RaceDayInv
  <2> QED
    BY <2>1, <2>2, <2>3 DEF RaceDayInv
<1> QED
  BY <1>1, <1>2, PTL DEF Spec

(* No service process runs that a stop cannot reach, for any number of launches, restarts and
   breakdowns, and no simulator process that its worker would not end. *)
THEOREM ServiceAlwaysManaged == Spec => []ServiceManaged
<1>1. RaceDayInv => ServiceManaged
  BY DEF RaceDayInv, ProcessInv, SimulatorInv, ServiceManaged
<1> QED
  BY <1>1, RaceDayInvariant, PTL

(* Whatever the operator switches to and whenever timers and sockets report, the live connection is
   there, or about to be retried, only while the service has it as its source. *)
THEOREM LiveStaysSource == Spec => []LiveOnlyAsSource
<1>1. RaceDayInv => LiveOnlyAsSource
  BY DEF RaceDayInv, SourcesInv, LiveOnlyAsSource
<1> QED
  BY <1>1, RaceDayInvariant, PTL

(* A decoder is reported connected, a simulator running and a test connection open only while it is,
   for any number of decoders, configurations and connections. *)
THEOREM StatusStaysTruthful == Spec => []StatusTruthful
<1>1. RaceDayInv => StatusTruthful
  BY DEF RaceDayInv, ConnectionsInv, SimulatorInv, ClientInv, StatusTruthful
<1> QED
  BY <1>1, RaceDayInvariant, PTL

(* The rows a feed has, or is being sent, are those of the store that it asked for, for any uploads,
   deletions, pages, limits and lost connections. *)
THEOREM FeedAlwaysReflectsStore == Spec => []FeedReflectsStore
<1>1. RaceDayInv => FeedReflectsStore
  BY FeedInvReflects DEF RaceDayInv, FeedReflectsStore
<1> QED
  BY <1>1, RaceDayInvariant, PTL

(* The live race on a scoring page is one its source has had, and the copy that patches change is the
   one they are made for. *)
THEOREM LiveRaceFaithful == Spec => [](part = "live" => Live!RaceShownReal)
<1>1. RaceDayInv => (part = "live" => Live!RaceShownReal)
  BY LiveInvRaceReal DEF RaceDayInv
<1> QED
  BY <1>1, RaceDayInvariant, PTL

(* The live race comes from the source chosen, never from a late answer of another; a running
   measurement keeps its setup, and results never lose passings of their window. *)
THEOREM OperatorAlwaysDecides == Spec => OperatorDecides
<1>1. ASSUME RaceDayInv, [Next]_allVars
      PROVE  [/\ part = "live" => Live!ShownFromSource
              /\ part = "projection" => Projecting!MeasurementStays]_<<liveVars, projectionVars>>
  <2>1. Live!ShownFromSource
    BY <1>1, StepOfAPart, LiveStepShows DEF RaceDayInv
  <2>2. Projecting!MeasurementStays
    BY <1>1, StepOfAPart, ProjectionStepStays DEF RaceDayInv
  <2> QED
    BY <2>1, <2>2
<1> QED
  BY <1>1, RaceDayInvariant, PTL DEF Spec, OperatorDecides

(* Whoever watches a race of the leaderboard sees a state it has had, and once the messages on their way
   have come the state the service now has, for any number of viewers, races, changes and broken
   connections: what a viewer misses it gets with the next snapshot, never by a patch of another state. *)
THEOREM StreamsFaithful == Spec => [](part = "streams" => Streams!ViewersFaithful)
<1>1. RaceDayInv => (part = "streams" => Streams!ViewersFaithful)
  BY StreamsInvFaithful DEF RaceDayInv
<1> QED
  BY <1>1, RaceDayInvariant, PTL

(* A page shows, and computes changes from, only versions its documents have had, whatever it turns to
   and whenever sockets break: no patch meets a version it was not made for, a change is sent with the
   revision of the copy it was made from and, on a socket that has had its snapshot, to its document. *)
THEOREM PageStaysTrue == Spec => [](part = "page" => Page!CopyTrue)
<1>1. RaceDayInv => (part = "page" => Page!CopyTrue)
  BY PageInvTrue DEF RaceDayInv
<1> QED
  BY <1>1, RaceDayInvariant, PTL

(* Type correctness of the parts whose data needs no induction: the processes, the sources, the
   streams, the page, the decoders and the feed. *)
THEOREM PartsTypeCorrect ==
  Spec => []/\ Process!TypeOK /\ Sources!TypeOK /\ Streams!TypeOK /\ Connections!TypeOK /\ Page!TypeOK
            /\ Simulator!TypeOK /\ TestClient!TypeOK /\ Feed!TypeOK
<1>1. RaceDayInv => /\ Process!TypeOK /\ Sources!TypeOK /\ Streams!TypeOK /\ Connections!TypeOK /\ Page!TypeOK
                    /\ Simulator!TypeOK /\ TestClient!TypeOK /\ Feed!TypeOK
  BY StreamsInvFaithful, PageInvTrue DEF RaceDayInv, ProcessInv, SourcesInv, ConnectionsInv, SimulatorInv, ClientInv, FeedInv
<1> QED
  BY <1>1, RaceDayInvariant, PTL
=============================================================================
