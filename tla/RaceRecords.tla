----------------------------- MODULE RaceRecords -----------------------------
(***************************************************************************)
(* What is recorded and entered on a race day, as far as more is proved    *)
(* than small instances show (RaceRecordsProofs, StreamProofs): the race   *)
(* state and the finish line log of the leaderboard, the bytes of a P3     *)
(* decoder, the page of events, the panels for eliminations, points and    *)
(* the order of arrival, and the activities of a scoring page.             *)
(* Each module has the environment of its part in its own actions and no   *)
(* two parts interact, so a behaviour is one of a single part: `part` says *)
(* of which, the others keep their first state.                            *)
(***************************************************************************)
EXTENDS Integers, Sequences, FiniteSets

CONSTANTS
  Parts,
  RaceIds, NoRaceId, MaxRaces, MaxRaceObjects, MaxLaps, MaxClock, MaxCorrections,
  Bibs, Entered, Feeds, MaxInputs, MaxNews, MaxRank, MaxOthers,
  MaxPageInputs,
  Events, Copy, None, AgeGroups, EventNames, NoName, ImportName, CopyName,
  StarterRaces, NoRace,
  Activities, Recordings, TypedLaps, TypedBibs, Invalid,
  LogRaces, Riders, Times, Positions, PerRace, MaxLogRaces, Burst, MaxLogLines,
  Frames, MaxSends, MaxCuts

ASSUME RecordsAssumption ==
  /\ NoRaceId \notin RaceIds /\ MaxRaces \in Nat \ {0} /\ MaxRaceObjects \in Nat \ {0}
  /\ Bibs \subseteq Nat \ {0} /\ IsFiniteSet(Bibs) /\ Bibs # {} /\ Entered \subseteq Bibs
  /\ MaxInputs \in Nat /\ MaxRank \in Nat /\ MaxOthers \in Nat
  /\ \A f \in Feeds : f.order \in Seq(Bibs) /\ f.laps \in Int /\ \A i \in DOMAIN f.order : f.done[f.order[i]] \in Nat
  /\ Events # {} /\ Copy \notin Events /\ None \notin Events \cup {Copy}
  /\ "list" \notin Events \cup {Copy} \* the other document of the page
  /\ NoName \notin EventNames \cup {ImportName, CopyName}
  /\ NoRace \notin StarterRaces /\ 0 \notin Activities /\ Activities # {}
  /\ NoRace \notin LogRaces /\ Times \subseteq Int
  /\ PerRace \in Nat \ {0} /\ MaxLogRaces \in Nat \ {0} /\ MaxLogLines \in Nat

VARIABLES
  part,
  raceId, flag, races, current, previous, rider, feed,
  eventList, eventDoc, unheard, shownList, editor, conflictImport, importTarget, clashed,
  panelStarters, outOfRace, liveFeed, syncEnabled, asked, pendingSave, awaited, inFlight, inputs, news,
    form, fields, lastSprint,
  arrivals, entry, sent, clicks, others,
  scoringEvent, scoringShown, scoringUnheard, scoringRace, activityEdit, removeAllOpen, versions,
  logs, lastSeq, shownRace, announced, wentBack, sockRace, queue, needSnapshot, batchTimer,
    logWire, logView, logLines,
  p3Open, onLine, buffer, heard, meant, sends, cuts

RaceState == INSTANCE RMonitorState
EventPage == INSTANCE EventEditing WITH MaxInputs <- MaxPageInputs, Names <- EventNames, Groups <- AgeGroups
Elimination == INSTANCE EliminationScoring
PointsPanel == INSTANCE PointsScoring
Finish == INSTANCE FinishLineScoring WITH MaxNews <- MaxOthers
ScoringPageEdits == INSTANCE ActivityEditing WITH Races <- StarterRaces, Riders <- Entered, event <- scoringEvent,
  shown <- scoringShown, unheard <- scoringUnheard, raceId <- scoringRace, editing <- activityEdit
Log == INSTANCE FinishLineLog
Bytes == INSTANCE P3Frames

(* Frames are of bytes; and each of them alone, encoded by the decoder and parsed again, tells what it
   means, whatever comes before and after it. *)
ASSUME FramesAssumption ==
  \A f \in Frames :
    /\ f.checksum \in 0 .. 255 /\ f.tor \in 0 .. 255
    /\ f.fields \in Seq([type : 0 .. 255, value : {v \in Seq(0 .. 255) : Len(v) <= 255}])
    /\ Bytes!Dispatch(Bytes!Encode(f)) = Bytes!Meaning(f)

raceStateVars == <<raceId, flag, races, current, previous, rider, feed>>
eventVars == <<eventList, eventDoc, unheard, shownList, editor, conflictImport, importTarget, clashed>>
livePanelVars == <<panelStarters, outOfRace, liveFeed, syncEnabled, asked, pendingSave, awaited, inFlight, news>>
pointsVars == <<fields, lastSprint>>
finishVars == <<arrivals, entry, sent, clicks>>
activityVars == <<scoringEvent, scoringShown, scoringUnheard, scoringRace, activityEdit, removeAllOpen, versions>>
logVars == <<logs, lastSeq, shownRace, announced, wentBack, sockRace, queue, needSnapshot, batchTimer,
             logWire, logView, logLines>>
bytesVars == <<p3Open, onLine, buffer, heard, meant, sends, cuts>>

recordVars == <<part, raceStateVars, eventVars, livePanelVars, form, pointsVars, finishVars, activityVars, logVars, bytesVars, inputs, others>>

RecordsInit ==
  /\ part \in Parts
  /\ RaceState!Init /\ EventPage!Init /\ Elimination!Init /\ PointsPanel!Init /\ Finish!Init /\ ScoringPageEdits!Init
  /\ Log!Init /\ Bytes!Init

RaceStateStep ==
  /\ part = "raceState" /\ RaceState!Next
  /\ UNCHANGED <<part, eventVars, livePanelVars, form, pointsVars, finishVars, activityVars, logVars, bytesVars, inputs, others>>

EventStep ==
  /\ part = "events" /\ EventPage!Next
  /\ UNCHANGED <<part, raceStateVars, livePanelVars, form, pointsVars, finishVars, activityVars, logVars, bytesVars>>

EliminationStep ==
  /\ part = "elimination" /\ Elimination!Next
  /\ UNCHANGED <<part, raceStateVars, eventVars, pointsVars, finishVars, activityVars, logVars, bytesVars, others>>

PointsStep ==
  /\ part = "points" /\ PointsPanel!Next
  /\ UNCHANGED <<part, raceStateVars, eventVars, form, finishVars, activityVars, logVars, bytesVars, others>>

FinishStep ==
  /\ part = "finish" /\ Finish!Next
  /\ UNCHANGED <<part, raceStateVars, eventVars, livePanelVars, form, pointsVars, activityVars, logVars, bytesVars, inputs>>

ActivityStep ==
  /\ part = "activities" /\ ScoringPageEdits!Next
  /\ UNCHANGED <<part, raceStateVars, eventVars, livePanelVars, form, pointsVars, finishVars, logVars, bytesVars>>

LogStep ==
  /\ part = "log" /\ Log!Next
  /\ UNCHANGED <<part, raceStateVars, eventVars, livePanelVars, form, pointsVars, finishVars, activityVars, bytesVars, inputs, others>>

BytesStep ==
  /\ part = "bytes" /\ Bytes!Next
  /\ UNCHANGED <<part, raceStateVars, eventVars, livePanelVars, form, pointsVars, finishVars, activityVars, logVars, inputs, others>>

RecordsNext == RaceStateStep \/ EventStep \/ EliminationStep \/ PointsStep \/ FinishStep \/ ActivityStep \/ LogStep \/ BytesStep

RecordsSpec == RecordsInit /\ [][RecordsNext]_recordVars

-----------------------------------------------------------------------------
(* What a panel proposes fits the present feed, or the present order of arrival. *)
ProposalsRight ==
  /\ part = "elimination" => Elimination!ProposalsRight
  /\ part = "points" => PointsPanel!ProposalsRight
  /\ part = "finish" => Finish!ProposalsRight

(* The log of the finish line a viewer shows is complete. *)
LogComplete == part = "log" => Log!LogComplete

(* The frames of a P3 decoder are told whole, once and in order. *)
FramesIntact == part = "bytes" => Bytes!FramesIntact
=============================================================================
