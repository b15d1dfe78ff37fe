---------------------------- MODULE MCRaceRecords ----------------------------
(***************************************************************************)
(* Small instances of what is recorded and entered on a race day: the race *)
(* state and the finish line log of the leaderboard, the bytes of a P3     *)
(* decoder, the live results, the scoring and its panels, and the pages on *)
(* which events, races, athletes and visualizations are edited.            *)
(* Each module has the environment of its part in its own actions and no   *)
(* two parts interact, so a behaviour is one of a single part: `part` says *)
(* of which, the others keep their first state.                            *)
(***************************************************************************)
EXTENDS RaceRecords, TLC

CONSTANTS
  Track, ClockOffset, Athletes, PassingTimes, DebounceTime, MinSectorTime, LeastLapTime, KeepLapTimes, MaxStored,
  Recordable, FinishRanks, MaxEdits,
  Pools, NoPool, NoBib, Names, Imports, Typed, FirstRows,
  NoGroup, MaxStage,
  NotNamed, NoFile, Files, TypedStarters, FirstStarters,
  Visualizations, Looks, DefaultLook, TableColumns, Blank, MaxColumns, FileId, FileDoc,
  Setups, NoSetup, FirstSetups, SetupNames, Unlisted, TimingPoints, NewDistance, TypedDistances, TypedLengths, NoId, NoIp, Addresses, FirstRegister, FoundDecoders

ASSUME RaceRecordsAssumption ==
  /\ Burst \in Nat
  /\ KeepLapTimes \in Nat \ {0} /\ 0 \in FinishRanks
  /\ NoPool \notin Pools /\ NoBib \notin Bibs
  /\ NoGroup \notin AgeGroups
  /\ NotNamed \notin Names
  /\ NoFile \notin DOMAIN Files
  /\ DefaultLook \in Looks /\ Blank \notin TableColumns /\ FileId \in Visualizations
  /\ NoSetup \notin Setups /\ Unlisted \notin SetupNames

VARIABLES
  recorded, board,
  raceStarters, raceActivities, raceResults, page, used, edits,
  participantPools, setup, athletes, completed, shown, stale, viewingPoolId, editing, lastId, usedPools, behind,
  raceDoc, raceHeard, raceShown, raceEditor, lastRaceId,
  listed, resultsKept, listShown, listStale, routeRace, editedId, importer, overlapped, handedOn, lastStarterId,
  app, visualizationList, fullVisualization, visListShown, visListStale, visEditor, visReads, visImport, visUnwritten,
  timingPage, setupNames, setupDocs, sessionSetup, register, connected, setupId, namesShown, namesUnheard, setupShown, setupUnheard, registerShown, registerUnheard, draft, touched, decoderDraft, deleting

Results == INSTANCE LiveResults WITH Times <- PassingTimes, MinLapTime <- LeastLapTime
Scoring == INSTANCE RaceScoring
Participants == INSTANCE ParticipantPools WITH MaxInputs <- MaxPageInputs
RacesPage == INSTANCE EventRaces WITH MaxInputs <- MaxPageInputs, Groups <- AgeGroups,
  eventDoc <- raceDoc, heard <- raceHeard, shown <- raceShown, editor <- raceEditor, lastId <- lastRaceId
StartersPage == INSTANCE RaceStarters WITH MaxInputs <- MaxPageInputs, Races <- StarterRaces, Unnamed <- NotNamed,
  Typed <- TypedStarters, FirstRows <- FirstStarters, starters <- listed, recorded <- resultsKept, shown <- listShown,
  unheard <- listStale, raceId <- routeRace, editing <- editedId, lastId <- lastStarterId
VisualizationsPage == INSTANCE VisualizationEditing WITH MaxInputs <- MaxPageInputs, Names <- EventNames,
  Columns <- TableColumns, shownList <- visListShown, listUnheard <- visListStale, editor <- visEditor, reads <- visReads,
  importTarget <- visImport, unwritten <- visUnwritten
TimingPages == INSTANCE TimingSetups

resultsVars == <<recorded, board>>
scoringVars == <<raceStarters, raceActivities, raceResults, page, used, edits>>
participantsVars == <<participantPools, setup, athletes, completed, shown, stale, viewingPoolId, editing, lastId,
                      usedPools, behind>>
racesVars == <<raceDoc, raceHeard, raceShown, raceEditor, lastRaceId>>
startersVars == <<listed, resultsKept, listShown, listStale, routeRace, editedId, importer, overlapped, handedOn, lastStarterId>>
visualizationVars == <<app, visualizationList, fullVisualization, visListShown, visListStale, visEditor, visReads, visImport, visUnwritten>>
setupsVars == <<timingPage, setupNames, setupDocs, sessionSetup, register, connected, setupId, namesShown, namesUnheard, setupShown, setupUnheard, registerShown, registerUnheard, draft, touched, decoderDraft, deleting>>

otherVars == <<resultsVars, scoringVars, participantsVars, racesVars,
                startersVars, visualizationVars, setupsVars>>
allVars == <<recordVars, otherVars>>

Init ==
  /\ RecordsInit
  /\ Results!Init /\ Scoring!Init
  /\ Participants!Init /\ RacesPage!Init /\ StartersPage!Init /\ VisualizationsPage!Init /\ TimingPages!Init
  /\ part # "races" => ~raceDoc.legacy /\ raceDoc.races[1].recorded = 0 \* one of its first states
  /\ part # "visualizations" => app = "scoring"
  /\ part # "setups" => timingPage = "setups" /\ sessionSetup = NoSetup
  /\ part # "activities" => scoringEvent.races = {scoringRace} /\ scoringEvent.activities[1].type = "dns"

(* Whatever is not of the part that runs stays as it is. *)
Rest ==
  LET Of(parts) == part \in parts
  IN /\ UNCHANGED <<part, raceStateVars, eventVars, livePanelVars, form, pointsVars, finishVars, activityVars, logVars, bytesVars>>
     /\ IF Of({"results"}) THEN TRUE ELSE UNCHANGED resultsVars
     /\ IF Of({"scoring"}) THEN TRUE ELSE UNCHANGED scoringVars
     /\ IF Of({"participants"}) THEN TRUE ELSE UNCHANGED participantsVars
     /\ IF Of({"races"}) THEN TRUE ELSE UNCHANGED racesVars
     /\ IF Of({"starters"}) THEN TRUE ELSE UNCHANGED startersVars
     /\ IF Of({"visualizations"}) THEN TRUE ELSE UNCHANGED visualizationVars
     /\ IF Of({"setups"}) THEN TRUE ELSE UNCHANGED setupsVars
     /\ IF Of({"participants", "races", "starters", "visualizations", "setups"}) THEN TRUE ELSE UNCHANGED inputs
     /\ IF Of({"participants", "races", "starters", "visualizations", "setups"}) THEN TRUE ELSE UNCHANGED others

Next ==
  \/ RecordsNext /\ UNCHANGED otherVars
  \/ part = "results" /\ Results!Next /\ Rest
  \/ part = "scoring" /\ Scoring!Next /\ Rest
  \/ part = "participants" /\ Participants!Next /\ Rest
  \/ part = "races" /\ RacesPage!Next /\ Rest
  \/ part = "starters" /\ StartersPage!Next /\ Rest
  \/ part = "visualizations" /\ VisualizationsPage!Next /\ Rest
  \/ part = "setups" /\ TimingPages!Next /\ Rest

Spec == Init /\ [][Next]_allVars

-----------------------------------------------------------------------------
(* The properties of the parts, each stated and explained in its module. *)

(* The variables of the part that runs have their types. *)
TypeOK ==
  CASE part = "raceState" -> RaceState!TypeOK
    [] part = "log" -> Log!TypeOK
    [] part = "results" -> Results!TypeOK
    [] part = "scoring" -> Scoring!TypeOK
    [] part = "bytes" -> Bytes!TypeOK
    [] part = "elimination" -> Elimination!TypeOK
    [] part = "points" -> PointsPanel!TypeOK
    [] part = "finish" -> Finish!TypeOK
    [] part = "participants" -> Participants!TypeOK
    [] part = "events" -> EventPage!TypeOK
    [] part = "races" -> RacesPage!TypeOK
    [] part = "starters" -> StartersPage!TypeOK
    [] part = "visualizations" -> VisualizationsPage!TypeOK
    [] part = "activities" -> ScoringPageEdits!TypeOK
    [] part = "setups" -> TimingPages!TypeOK

(* Times are those of the passings: laps, total and best time of a rider on the display agree, also
   after corrections, as the display keeps its race; a lap or sector time of the live results is the
   time between two passings that count. *)
LapsMeasured ==
  /\ part = "raceState" => RaceState!RacesConsistent /\ RaceState!LapsConsistent
  /\ part = "results" => Results!LapsMeasured

(* The ranking and the points of a race are those its activities give. *)
ScoresRight == part = "scoring" => Scoring!ScoresRight

(* A click on a starter adds the rider to the order shown, at the rank shown. *)
ClicksCurrent == part = "finish" => Finish!ClicksCurrent

(* What an operator has entered in a panel or on a page stays, and is what is saved, of others' entries
   nothing else. *)
EntriesStay ==
  [][/\ part = "elimination" => Elimination!EntriesStay
     /\ part = "points" => PointsPanel!EntriesStay
     /\ part = "finish" => Finish!EntriesStay
     /\ part = "participants" => Participants!BibsStayUnique /\ Participants!OthersStay
     /\ part = "events" => EventPage!SavedAsTyped
     /\ part = "races" => RacesPage!RacesKept
     /\ part = "starters" => StartersPage!BibsStayUnique /\ StartersPage!OthersStay
     /\ part = "visualizations" => VisualizationsPage!SavedAsTyped
     /\ part = "activities" => ScoringPageEdits!ActivitiesStay /\ ScoringPageEdits!PanelStays
     /\ part = "setups" => TimingPages!SavedAsEdited /\ TimingPages!OneEntry]_allVars

(* The documents a page writes together agree with each other, what it shows with what was typed or
   read, and what is recorded with the starter it was recorded for. *)
DocumentsAgree ==
  /\ part = "participants" => Participants!LinksKnown
  /\ part = "events" => EventPage!NamesAgree /\ EventPage!ActiveListed /\ EventPage!GroupsAsTyped
  /\ part = "races" => RacesPage!ActiveIsRace /\ RacesPage!NameAsTyped
  /\ part = "starters" => StartersPage!RecordsStay /\ StartersPage!FileAsNamed
  /\ part = "visualizations" => VisualizationsPage!NamesAgree /\ VisualizationsPage!ActiveListed /\ VisualizationsPage!FieldsAsTyped
  /\ part = "activities" => ScoringPageEdits!HistoryComplete

(* A setup the page calls complete can be run as it is stored. *)
CompleteIsRunnable == part = "setups" => TimingPages!CompleteIsRunnable

-----------------------------------------------------------------------------
(* The constants. *)

(* A start/finish line, a split of a second decoder and a disabled split after it. *)
MCTrack == <<[decoder |-> "A", role |-> "start_finish", enabled |-> TRUE],
             [decoder |-> "B", role |-> "split", enabled |-> TRUE],
             [decoder |-> "B", role |-> "split", enabled |-> FALSE]>>
MCClockOffset == ("A" :> 0) @@ ("B" :> 1)

(* Two athletes that both claim transponder 2. *)
MCAthletes == <<[id |-> "x", transponders |-> {1, 2}], [id |-> "y", transponders |-> {2}]>>

Activity(type, lap, dnfType, points) == [type |-> type, lap |-> lap, dnfType |-> dnfType, results |-> points]
MCRecordable ==
  "s1" :> Activity("pointsSprint", 1, "", (1 :> 2) @@ (2 :> 1))
    @@ "s2" :> Activity("pointsSprint", 2, "", (2 :> 2) @@ (3 :> 1))
    @@ "cut" :> Activity("pointsRemoval", 1, "", (1 :> 0) @@ (2 :> 0))
    @@ "elim" :> Activity("DNF", 2, "elimination", (2 :> 0) @@ (3 :> 0))
    @@ "dnf" :> Activity("DNF", 2, "dnf", 1 :> 0)
    @@ "out" :> Activity("DNF", 0, "dnf", 3 :> 0)
    @@ "dsq" :> Activity("DSQ", 0, "", 1 :> 0)
    @@ "dns" :> Activity("DNS", 0, "", 3 :> 0)

(* The leader with riders one and three laps behind, the end of a race led by another, and a first
   rider with two laps while two have none; and no race at all. *)
MCFeeds ==
  {[laps |-> 3, toGo |-> 1, order |-> <<1, 2, 3>>, done |-> <<3, 2, 0>>],
   [laps |-> 3, toGo |-> 0, order |-> <<2, 1, 3>>, done |-> <<2, 3, 1>>],
   [laps |-> 2, toGo |-> 1, order |-> <<1, 2, 3>>, done |-> <<2, 0, 0>>],
   [laps |-> -1, toGo |-> -1, order |-> <<>>, done |-> <<>>]}

(* A passing with control bytes in every part, one with its fields in another order and a UTC time
   before the RTC time, one without decoder id, a state and an identification. *)
Field(type, value) == [type |-> type, value |-> value]
MCFrames ==
  {[checksum |-> 143, tor |-> 1,
    fields |-> <<Field(1, <<142, 1>>), Field(3, <<143>>), Field(4, <<5>>), Field(129, <<141, 173>>)>>],
   [checksum |-> 10, tor |-> 1,
    fields |-> <<Field(16, <<6>>), Field(4, <<7>>), Field(129, <<1, 2>>), Field(3, <<8>>), Field(1, <<141, 142>>)>>],
   [checksum |-> 142, tor |-> 1, fields |-> <<Field(1, <<3>>), Field(3, <<8>>), Field(4, <<7>>)>>],
   [checksum |-> 2, tor |-> 2, fields |-> <<Field(6, <<1>>), Field(12, <<142>>), Field(129, <<9, 143>>)>>],
   [checksum |-> 1, tor |-> 3, fields |-> <<Field(129, <<141, 2>>)>>]}

(* Two known athletes; a file whose first row knows one of them and whose second is a namesake of the
   other; a row to be typed. *)
Row(bib, name) == [bib |-> bib, name |-> name]
MCFirstRows == <<Row(1, "x"), Row(2, "y")>>
MCImports == {<<Row(1, "y"), Row(3, "y")>>}
MCTyped == {Row(2, "x")}

(* A file with a row about one starter by name, an empty one, one about the same starter by bib, and
   one without a name; an empty file; a namesake of a starter, a free bib, an edit that empties a name. *)
MCFiles == [file1 |-> <<Row(3, "x"), Row(0, ""), Row(1, "z"), Row(2, "")>>, file2 |-> <<>>]
MCTypedStarters == {Row(1, "y"), Row(3, "y"), Row(2, "")}
MCFirstStarters == <<<<Row(1, "x"), Row(2, "y")>>, <<>>>>

(* A setup of two points, each with a decoder: the first with one known by its address, the second with
   one known by its hardware.  The scan finds another one where the second was, and one without id where
   the first is. *)
AtAddress == [backend |-> "p3", ip |-> "ip1"]
Hardware(n) == [hardware |-> n]
TimingPoint(id, order, role, decoder, m) ==
  [id |-> id, order |-> order, role |-> role, decoder |-> decoder, distanceFromPrevious |-> m, enabled |-> TRUE]
MCFirstSetups ==
  "s1" :> [name |-> "b", trackId |-> TRUE, lengthM |-> 150, pools |-> 0,
           points |-> <<TimingPoint("p1", 1, "start_finish", AtAddress, 0), TimingPoint("p2", 2, "split", Hardware(1), 100)>>]
Registered(id, ip, hardwareId) ==
  [id |-> id, backend |-> "p3", ip |-> ip, offset |-> 0, hardwareId |-> hardwareId]
MCFirstRegister == <<Registered(AtAddress, "ip1", NoId), Registered(Hardware(1), "ip2", Hardware(1))>>
MCFoundDecoders == {[hardwareId |-> Hardware(2), ip |-> "ip2"], [hardwareId |-> NoId, ip |-> "ip1"]}

(* A sprint of two riders, a retirement and a start not made, which has no lap. *)
MCRecordings ==
  {[type |-> "points", lap |-> 1, results |-> {1, 2}], [type |-> "dnf", lap |-> 2, results |-> {1}],
   [type |-> "dns", lap |-> 0, results |-> {2}]}

(* The visualization that is there, and was exported. *)
MCFileDoc == [name |-> "a", look |-> "light", columns |-> <<"bib">>]
=============================================================================
