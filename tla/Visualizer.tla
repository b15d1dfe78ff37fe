------------------------------ MODULE Visualizer ------------------------------
(***************************************************************************)
(* The pages for a video wall: VisualizerPage of the scoring frontend in   *)
(* its VisualizationLayout, and LiveTrackingVisualizerPage.  Each shows    *)
(* results in pages of a few lines and turns them by itself: React state,  *)
(* effects that run after the rendering and an interval that counts with   *)
(* the number of pages of its effect.  Beside them the Scoreboard, by      *)
(* which the operator sees the results of the race the wall shows.         *)
(*                                                                         *)
(* The documents come and change as BrowserDoc says: here each is what the *)
(* hook has.  Left out: layout, colours, the columns of a visualization    *)
(* and their templates, names, times but for the best among the laps.      *)
(***************************************************************************)
EXTENDS Integers, SequencesExt

CONSTANTS
  Walls,         \* ids of visualizations
  NoWall,        \* `null`, and no id in the route
  WallSettings,  \* documents of visualizations
  NoSettings,    \* no document yet
  NoField,       \* a field that is not in the document
  WallRaces,     \* what an event document says of its active race
  WallResults,   \* results documents of LiveTracking
  NoRace,        \* no active race, no event or no document yet
  MaxWallChanges \* bound: what changes, and what is typed

VARIABLES
  application,       \* "scoring" or "liveTracking"
  visualizationIdParam, \* of the route
  activeVisualization,  \* of the list of visualizations
  settings,          \* the document of the visualization
  shownRace,         \* the active race, or the results document
  qualifying,        \* is the mode of the session "qualifying"?
  setupKnown,        \* has the document of the setup come?
  rows,              \* those of the paged table, memoized
  autoPagingRunning, currentPage,
  effectDeps,        \* what the effects last ran with
  mode,              \* of the Scoreboard
  wallChanges

wallVars == <<application, visualizationIdParam, activeVisualization, settings, shownRace, qualifying, setupKnown,
              rows, autoPagingRunning, currentPage, effectDeps, mode, wallChanges>>

Change == wallChanges < MaxWallChanges /\ wallChanges' = wallChanges + 1

-----------------------------------------------------------------------------
(* The settings. *)

effectiveVisualizationId ==
  IF visualizationIdParam # NoWall THEN visualizationIdParam ELSE activeVisualization

OrElse(value, default) == IF value = NoField THEN default ELSE value
AtLeast(n, bound) == IF n < bound THEN bound ELSE n

(* What both pages make of a document: one that has not come is an empty one, none is needed if no
   visualization is chosen.  0 lines become 10 on the scoring page, whose `||` takes 0 for a missing value. *)
normalizeFullVisualization ==
  LET raw == IF effectiveVisualizationId = NoWall \/ settings = NoSettings
             THEN [usePaging |-> NoField, showSkippedRowsIndicator |-> NoField,
                   pagingLines |-> NoField, pagingTime |-> NoField]
             ELSE settings
      atLeastZero == AtLeast(OrElse(raw.pagingLines, 10), 0)
  IN [usePaging |-> OrElse(raw.usePaging, FALSE),
      showSkippedRowsIndicator |-> OrElse(raw.showSkippedRowsIndicator, FALSE),
      pagingLines |-> IF atLeastZero = 0 THEN 10 ELSE atLeastZero,
      pagingTime |-> AtLeast(OrElse(raw.pagingTime, 0), 0)]

(* That of LiveTracking: 0 lines are 1. *)
normalizeFullLiveTrackingVisualization ==
  [normalizeFullVisualization EXCEPT !.pagingLines =
     IF effectiveVisualizationId = NoWall \/ settings = NoSettings THEN 10
     ELSE AtLeast(OrElse(settings.pagingLines, 10), 1)]

visualization ==
  IF application = "scoring" THEN normalizeFullVisualization ELSE normalizeFullLiveTrackingVisualization

-----------------------------------------------------------------------------
(* The rows of VisualizerPage. *)

raceResults == IF shownRace = NoRace THEN <<>> ELSE shownRace.raceResults
isPointsRace == shownRace # NoRace /\ shownRace.isPointsRace

(* A cell shows a state, or else points, or neither but a time. *)
NoPoints == -1
SkippedRow == [bib |-> 0, rank |-> 0, result |-> [status |-> "...", points |-> NoPoints]]

getStatus(r) ==
  CASE r.dsq -> "DSQ"
    [] ~r.dsq /\ r.dns -> "DNS"
    [] ~r.dsq /\ ~r.dns /\ r.dnf = "elimination" -> "ELIM"
    [] ~r.dsq /\ ~r.dns /\ r.dnf = "dnf" -> "DNF"
    [] OTHER -> "none"

hasDisplayResult(r) == r.dsq \/ r.dnf # "no" \/ r.finishRank > 0 \/ r.points # 0

(* By rank, those without one last, and by bib. *)
Before(a, b) ==
  \/ a.rank > 0 /\ (b.rank <= 0 \/ a.rank < b.rank)
  \/ a.rank = b.rank /\ a.bib < b.bib
  \/ a.rank <= 0 /\ b.rank <= 0 /\ a.bib < b.bib

renderDynamicResultNode(r) ==
  [status |-> getStatus(r), points |-> IF getStatus(r) = "none" /\ isPointsRace THEN r.points ELSE NoPoints]

Row(r) == [bib |-> r.bib, rank |-> r.rank, result |-> renderDynamicResultNode(r)]

(* One turn of the loop: DNS leaves no trace, others without a result only that they were skipped, which
   the next row shows unless it is the first. *)
NextRow(mapped, r) ==
  IF r.dns THEN mapped
  ELSE IF ~hasDisplayResult(r) THEN [mapped EXCEPT !.skipped = visualization.showSkippedRowsIndicator]
  ELSE [rows |-> IF mapped.skipped /\ mapped.rows # <<>>
                 THEN mapped.rows \o <<SkippedRow, Row(r)>>
                 ELSE Append(mapped.rows, Row(r)),
        skipped |-> FALSE]

raceRows ==
  LET mapped == FoldLeft(NextRow, [rows |-> <<>>, skipped |-> FALSE], SortSeq(raceResults, Before))
  IN IF mapped.skipped /\ mapped.rows # <<>> THEN Append(mapped.rows, SkippedRow) ELSE mapped.rows

(* The line of the disqualified: one entry for each bib. *)
dsqFooterEntries ==
  FoldLeft(LAMBDA entries, r : IF ~r.dsq \/ r.bib <= 0 \/ Contains(entries, r.bib) THEN entries
                               ELSE Append(entries, r.bib),
           <<>>, raceResults)

-----------------------------------------------------------------------------
(* The rows of LiveTrackingVisualizerPage. *)

results == IF shownRace = NoRace THEN [athleteLiveStates |-> <<>>, recentPassings |-> <<>>,
                                       qualifyingRanking |-> <<>>]
                                 ELSE shownRace

qualificationRankingRows == SortSeq(results.qualifyingRanking, LAMBDA a, b : a.rank < b.rank)

(* The latest start or finish of a transponder among the recent passings, 0 if there is none; of any
   timing point as long as the setup is not known. *)
latestStartFinishByTransponderId(transponder) ==
  LET at == {p.at : p \in {q \in ToSet(results.recentPassings) :
                             q.transponder = transponder /\ (setupKnown => q.startFinish)}}
  IN IF at = {} THEN 0 ELSE CHOOSE t \in at : \A u \in at : u <= t

NewerStart(a, b) ==
  LET startOf(row) == latestStartFinishByTransponderId(row.transponder)
  IN \/ startOf(a) > startOf(b)
     \/ startOf(a) = startOf(b) /\ a.lastPassingAt > b.lastPassingAt

qualificationRecentLines ==
  IF effectiveVisualizationId = NoWall \/ settings = NoSettings THEN 10
  ELSE AtLeast(OrElse(settings.recentLines, 10), 1)

(* Those on the track, the latest start first, as many as there are lines. *)
qualificationLiveRows ==
  LET onTrack == SelectSeq(results.athleteLiveStates, LAMBDA row : row.lastPassingAt > 0 /\ row.active)
      sorted == SortSeq(onTrack, NewerStart)
  IN SubSeq(sorted, 1, IF Len(sorted) < qualificationRecentLines THEN Len(sorted) ELSE qualificationRecentLines)

(* The rows of the other modes, the latest passing first. *)
sortedAthleteLiveStates ==
  SortSeq(SelectSeq(results.athleteLiveStates, LAMBDA row : row.lastPassingAt > 0),
          LAMBDA a, b : a.lastPassingAt > b.lastPassingAt)

-----------------------------------------------------------------------------
(* Paging. *)

Rendered == IF application = "scoring" THEN raceRows ELSE qualificationRankingRows

totalPages ==
  IF visualization.usePaging
  THEN AtLeast((Len(rows) + visualization.pagingLines - 1) \div visualization.pagingLines, 1)
  ELSE 1

visibleRows ==
  LET start == currentPage * visualization.pagingLines
      end == start + visualization.pagingLines
  IN IF visualization.usePaging THEN SubSeq(rows, start + 1, IF end < Len(rows) THEN end ELSE Len(rows)) ELSE rows

(* The page of the scoring: its number beside the name of the race, with a mark if it does not turn by
   itself, the table, which says so if there are no rows, and the line of the disqualified. *)
WallTitle ==
  [number |-> IF currentPage + 1 < totalPages THEN currentPage + 1 ELSE totalPages,
   pages |-> totalPages,
   paused |-> visualization.usePaging /\ ~autoPagingRunning /\ visualization.pagingTime > 0]

WallTable == [rows |-> visibleRows, saysNoResults |-> rows = <<>>]

WallPage == [title |-> WallTitle, table |-> WallTable, footer |-> dsqFooterEntries]

(* That of LiveTracking: in a qualification the racers on the track with their ranks beside the ranking,
   else everyone who has passed, with the last laps. *)
LiveTable ==
  [i \in DOMAIN qualificationLiveRows |->
     LET row == qualificationLiveRows[i]
     IN [row |-> row,
         ranks |-> {e.rank : e \in {x \in ToSet(results.qualifyingRanking) : x.athleteId = row.athleteId}}]]

RankingTable == [rows |-> visibleRows, saysNoEntries |-> visibleRows = <<>>]

(* The laps, the latest first, of which the best is marked, only once if it is the latest. *)
TrainingRow(row) ==
  LET from == AtLeast(Len(row.recentLapTimesMs) - 7, 1)
      newestFirst == Reverse(SubSeq(row.recentLapTimesMs, from, Len(row.recentLapTimesMs)))
      latestIsBest == newestFirst # <<>> /\ newestFirst[1] = row.bestLapTimeMs
  IN [row |-> row,
      laps |-> newestFirst,
      marked |-> {i \in DOMAIN newestFirst :
                    newestFirst[i] = row.bestLapTimeMs /\ (i = 1 \/ ~latestIsBest)}]

TrainingTable == [i \in DOMAIN sortedAthleteLiveStates |-> TrainingRow(sortedAthleteLiveStates[i])]

LiveBoard ==
  IF effectiveVisualizationId = NoWall THEN [shows |-> "nothing"]
  ELSE IF qualifying THEN [shows |-> "qualification", live |-> LiveTable, ranking |-> RankingTable]
  ELSE [shows |-> "training", table |-> TrainingTable]

(* What the effects depend on. *)
Deps == [usePaging |-> visualization.usePaging, pagingTime |-> visualization.pagingTime,
         totalPages |-> totalPages, running |-> autoPagingRunning, turns |-> qualifying]

(* The effects have run with what is rendered. *)
Settled == effectDeps = Deps

(* Does the interval of the last one run? *)
IntervalRuns(deps) ==
  /\ deps.usePaging /\ deps.running /\ deps.pagingTime > 0 /\ deps.totalPages > 1
  /\ deps.turns

(* Other settings begin again with the first page, and turn by themselves if there is a time for it;
   fewer pages take the page back. *)
RunEffects ==
  /\ ~Settled
  /\ LET reconfigured == Deps.usePaging # effectDeps.usePaging \/ Deps.pagingTime # effectDeps.pagingTime
     IN /\ autoPagingRunning' = IF reconfigured THEN Deps.usePaging /\ Deps.pagingTime > 0
                                                ELSE autoPagingRunning
        /\ currentPage' = IF reconfigured THEN 0
                          ELSE IF currentPage >= Deps.totalPages THEN Deps.totalPages - 1 ELSE currentPage
  /\ effectDeps' = Deps
  /\ UNCHANGED <<application, visualizationIdParam, activeVisualization, settings, shownRace, qualifying,
                 setupKnown, rows, mode, wallChanges>>

Turn(pages) == currentPage' = (currentPage + pages) % effectDeps.totalPages

IntervalTick ==
  /\ IntervalRuns(effectDeps)
  /\ Turn(1)
  /\ UNCHANGED <<application, visualizationIdParam, activeVisualization, settings, shownRace, qualifying,
                 setupKnown, rows, autoPagingRunning, effectDeps, mode, wallChanges>>

(* The keys of the scoring page. *)
KeyEnter ==
  /\ Change
  /\ application = "scoring" /\ effectDeps.usePaging
  /\ autoPagingRunning' = ~autoPagingRunning
  /\ UNCHANGED <<application, visualizationIdParam, activeVisualization, settings, shownRace, qualifying,
                 setupKnown, rows, currentPage, effectDeps, mode>>

KeyArrow(pages) ==
  /\ Change
  /\ application = "scoring" /\ effectDeps.usePaging /\ effectDeps.totalPages > 1
  /\ Turn(pages)
  /\ UNCHANGED <<application, visualizationIdParam, activeVisualization, settings, shownRace, qualifying,
                 setupKnown, rows, autoPagingRunning, effectDeps, mode>>

-----------------------------------------------------------------------------
(* What comes from the documents.  React runs the effects of one rendering before the next. *)

RaceData(race) ==
  /\ Change /\ Settled
  /\ shownRace' = race
  /\ UNCHANGED <<application, visualizationIdParam, activeVisualization, settings, qualifying, setupKnown,
                 autoPagingRunning, currentPage, effectDeps, mode>>
  /\ rows' = Rendered'

VisualizationData(document) ==
  /\ Change /\ Settled
  /\ effectiveVisualizationId # NoWall
  /\ settings' = document
  /\ UNCHANGED <<application, visualizationIdParam, activeVisualization, shownRace, qualifying, setupKnown,
                 autoPagingRunning, currentPage, effectDeps, mode>>
  /\ rows' = Rendered'

(* Another visualization is made active: unless the route has its own, the hook turns to another document
   and has none for a while. *)
ListData(id) ==
  /\ Change /\ Settled
  /\ activeVisualization # id
  /\ activeVisualization' = id
  /\ settings' = IF visualizationIdParam = NoWall THEN NoSettings ELSE settings
  /\ UNCHANGED <<application, visualizationIdParam, shownRace, qualifying, setupKnown, autoPagingRunning,
                 currentPage, effectDeps, mode>>
  /\ rows' = Rendered'

(* The session has another mode, or names another setup, whose document has not come or has come. *)
SessionData(isQualifying, known) ==
  /\ Change /\ Settled
  /\ application = "liveTracking"
  /\ qualifying' = isQualifying /\ setupKnown' = known
  /\ UNCHANGED <<application, visualizationIdParam, activeVisualization, settings, shownRace, rows,
                 autoPagingRunning, currentPage, effectDeps, mode>>

-----------------------------------------------------------------------------
(* The Scoreboard of the scoring panels. *)

setMode(next) ==
  /\ Change /\ application = "scoring"
  /\ mode # next /\ mode' = next
  /\ UNCHANGED <<application, visualizationIdParam, activeVisualization, settings, shownRace, qualifying,
                 setupKnown, rows, autoPagingRunning, currentPage, effectDeps>>

ScoreboardStatus(r) ==
  IF r.dsq THEN "DSQ" ELSE IF r.dns THEN "DNS"
  ELSE CASE r.dnf = "elimination" -> "ELIM" [] r.dnf = "dnf" -> "DNF" [] OTHER -> "none"

(* A state covers the points. *)
ScoreboardCell(r) ==
  [status |-> ScoreboardStatus(r), points |-> IF ScoreboardStatus(r) = "none" THEN r.points ELSE NoPoints]

ScoreboardHasResult(r) == r.points # 0 \/ r.finishRank > 0 \/ r.dsq \/ r.dnf # "no"

ScoreboardRows(displayMode) ==
  LET filtered == SelectSeq(raceResults, LAMBDA r : ~r.dns /\ (displayMode = "all" \/ ScoreboardHasResult(r)))
      sorted == SortSeq(filtered, Before)
  IN [i \in 1 .. Len(sorted) |-> [bib |-> sorted[i].bib, rank |-> sorted[i].rank,
                                  result |-> ScoreboardCell(sorted[i])]]

totalNonDns == Len(SelectSeq(raceResults, LAMBDA r : ~r.dns))

(* The board: how many of those who started it shows, and its rows. *)
Scoreboard(displayMode) ==
  LET shown == ScoreboardRows(displayMode)
  IN [count |-> Len(shown), of |-> IF displayMode = "withResult" THEN totalNonDns ELSE Len(shown), rows |-> shown]

-----------------------------------------------------------------------------
Init ==
  /\ application \in {"scoring", "liveTracking"}
  /\ visualizationIdParam \in Walls \cup {NoWall}
  /\ activeVisualization = NoWall /\ settings = NoSettings /\ shownRace = NoRace
  /\ qualifying = (application = "scoring") /\ setupKnown = FALSE
  /\ rows = <<>> /\ autoPagingRunning = FALSE /\ currentPage = 0
  /\ effectDeps = Deps
  /\ mode = "withResult"
  /\ wallChanges = 0

Next ==
  \/ RunEffects \/ IntervalTick \/ KeyEnter
  \/ \E pages \in {1, effectDeps.totalPages - 1} : KeyArrow(pages)
  \/ \E race \in (IF application = "scoring" THEN WallRaces ELSE WallResults) \cup {NoRace} : RaceData(race)
  \/ \E document \in WallSettings : VisualizationData(document)
  \/ \E id \in Walls : ListData(id)
  \/ \E isQualifying, known \in BOOLEAN : SessionData(isQualifying, known)
  \/ \E next \in {"all", "withResult"} : setMode(next)

-----------------------------------------------------------------------------
TypeOK ==
  /\ application \in {"scoring", "liveTracking"} /\ mode \in {"all", "withResult"}
  /\ visualizationIdParam \in Walls \cup {NoWall} /\ activeVisualization \in Walls \cup {NoWall}
  /\ settings \in WallSettings \cup {NoSettings}
  /\ shownRace \in (IF application = "scoring" THEN WallRaces ELSE WallResults) \cup {NoRace}
  /\ qualifying \in BOOLEAN /\ setupKnown \in BOOLEAN /\ autoPagingRunning \in BOOLEAN
  /\ currentPage \in Nat /\ wallChanges \in 0 .. MaxWallChanges
  /\ DOMAIN effectDeps = {"usePaging", "pagingTime", "totalPages", "running", "turns"}
  /\ effectDeps.totalPages \in Nat \ {0}

(* The page tells the truth of itself: however the results, the settings and the visualization change while
   pages turn, by the interval and by keys that still count with the former number of pages, once the
   effects have run there are rows on the page if there are any, its number is that of the page, the last
   page ends with the last row, and it is marked as paused if and only if no interval turns it though there
   is more than one. *)
PageTruthful ==
  Settled /\ application = "scoring" =>
    LET wall == WallPage
        title == wall.title
        table == wall.table
    IN /\ table.rows = <<>> <=> table.saysNoResults
       /\ title.number = currentPage + 1
       /\ title.number = title.pages /\ rows # <<>> => table.rows[Len(table.rows)] = rows[Len(rows)]
       /\ visualization.usePaging /\ visualization.pagingTime > 0 /\ title.pages > 1 =>
            (title.paused <=> ~IntervalRuns(effectDeps))

(* The wall shows who has a result and says where others were left out: its rows are those of the
   operator's Scoreboard, which tells results, states and points by code of its own, in the same order, and
   dots stand between or after two of them if and only if someone who has started and has no result belongs
   there.  Who has not started leaves no trace.  The board's count is that of its rows, and all who started
   are among the rows of the other mode. *)
WallTellsResults ==
  application = "scoring" =>
    LET skippedIn(row, next) ==
          \E r \in ToSet(raceResults) :
            /\ ~r.dns /\ ~ScoreboardHasResult(r)
            /\ Before(row, r) /\ (next = SkippedRow \/ Before(r, next))
        tellers == SelectSeq(rows, LAMBDA row : row # SkippedRow)
        \* the row after the i-th row of a racer that is one of a racer
        following(i) == IF i = Len(tellers) THEN SkippedRow ELSE tellers[i + 1]
        dots(i) == LET at == CHOOSE k \in DOMAIN rows : rows[k] = tellers[i]
                   IN at < Len(rows) /\ rows[at + 1] = SkippedRow
        board == Scoreboard("withResult")
        \* only a points race tells points on the wall
        asOnWall(row) == IF isPointsRace THEN row ELSE [row EXCEPT !.result.points = NoPoints]
    IN /\ tellers = [i \in 1 .. Len(board.rows) |-> asOnWall(board.rows[i])]
       /\ ToSet(board.rows) \subseteq ToSet(Scoreboard(mode).rows)
       /\ board.count <= board.of /\ board.of = Scoreboard("all").count
       /\ rows # <<>> => rows[1] # SkippedRow
       /\ \A i \in DOMAIN tellers :
            dots(i) <=> visualization.showSkippedRowsIndicator /\ skippedIn(tellers[i], following(i))
       /\ ToSet(dsqFooterEntries) \subseteq {row.bib : row \in {x \in ToSet(tellers) : x.result.status = "DSQ"}}
                                            \cup {r.bib : r \in {x \in ToSet(raceResults) : x.dns}}

(* The board of a qualification shows the latest: who is on the track and not among its rows has not
   started a lap later than any of them, everyone's rank beside the row is the one in the ranking, which
   is not said to be empty while there are entries; the other modes show everyone who has passed, the latest
   first, with a mark at the best lap if it is among the last laps, and at the latest only if that is it. *)
BoardTellsLatest ==
  LET board == LiveBoard
      passed == {row \in ToSet(results.athleteLiveStates) : row.lastPassingAt > 0}
      live == {board.live[i].row : i \in DOMAIN board.live}
      start(row) == latestStartFinishByTransponderId(row.transponder)
  IN application = "liveTracking" =>
       /\ board.shows = "training" =>
            /\ {board.table[i].row : i \in DOMAIN board.table} = passed
            /\ \A i, k \in DOMAIN board.table :
                 i < k => board.table[i].row.lastPassingAt >= board.table[k].row.lastPassingAt
            /\ \A i \in DOMAIN board.table :
                 LET shown == board.table[i]
                 IN /\ \A k \in shown.marked : shown.laps[k] = shown.row.bestLapTimeMs
                    /\ shown.marked = {} => shown.row.bestLapTimeMs \notin ToSet(shown.laps)
                    /\ shown.laps # <<>> /\ shown.laps[1] = shown.row.bestLapTimeMs => shown.marked = {1}
       /\ board.shows = "qualification" =>
            /\ live \subseteq passed
            /\ \A row \in {r \in passed : r.active} \ live, other \in live : start(row) <= start(other)
            /\ \A i \in DOMAIN board.live : \A k \in DOMAIN rows :
                 rows[k].athleteId = board.live[i].row.athleteId => board.live[i].ranks = {rows[k].rank}
            /\ Settled => (board.ranking.saysNoEntries <=> rows = <<>>)

(* What a wall shows. *)
WallFaithful == PageTruthful /\ WallTellsResults /\ BoardTellsLatest

(* The pages are to turn by themselves, and nobody has paused that. *)
TurnsByItself ==
  /\ visualization.usePaging /\ visualization.pagingTime > 0 /\ qualifying
  /\ application = "scoring" => autoPagingRunning

(* When nothing changes any more and the pages turn by themselves, the first and the last one are shown
   again and again, and so all between: the interval was not left behind, stopped or set for another number
   of pages. *)
FirstPageShown == TurnsByItself => currentPage = 0
LastPageShown == TurnsByItself => currentPage = totalPages - 1
=============================================================================
