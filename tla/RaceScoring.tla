----------------------------- MODULE RaceScoring -----------------------------
(***************************************************************************)
(* Scoring of a race: the operators record activities (points sprints,     *)
(* points removals, retirements, DNS, DSQ), edit the starters and enter    *)
(* the finish order; every operation materialises the result rows again    *)
(* from the activities and ranks them.  An operation computes on the       *)
(* current document, but what it writes may come from a page that shows an *)
(* older one.                                                              *)
(*                                                                         *)
(* Left out: names, finish times and laps completed (carried along like    *)
(* the finish rank), the history of activities, the order of the rows.     *)
(***************************************************************************)
EXTENDS Integers, FiniteSets, SequencesExt, FiniteSetsExt

CONSTANTS
  Bibs,
  Recordable,  \* id -> activity an operator records: [type, lap, dnfType, results (bib -> points)]
  FinishRanks, \* finish ranks operators enter, 0 for none
  MaxEdits     \* bound: operations

VARIABLES
  raceStarters,   \* bibs of the starters
  raceActivities, \* id -> [activity, isDeleted]
  raceResults,    \* bib -> row
  page,           \* what an operator's page shows: [activities, results]
  used,           \* ids given
  edits

scoreVars == <<raceStarters, raceActivities, raceResults, page, used, edits>>

Edit == edits < MaxEdits /\ edits' = edits + 1

(* makeDefaultRaceResult *)
DefaultRow == [points |-> 0, dnf |-> "none", dnfLap |-> 0, dsq |-> FALSE, dns |-> FALSE,
               finishRank |-> 0, rank |-> 0]

-----------------------------------------------------------------------------
(* applyActivitiesToRaceResults *)

NamedIn(activities) == UNION {DOMAIN activities[i].activity.results : i \in DOMAIN activities}

(* The activities of a type that count for a bib. *)
Live(activities, type, bib) ==
  {i \in DOMAIN activities : /\ ~activities[i].isDeleted
                             /\ activities[i].activity.type = type
                             /\ bib \in DOMAIN activities[i].activity.results}

LastLap(activities, ids) == Max({activities[i].activity.lap : i \in ids} \cup {0})

(* Sprints up to the last removal do not count, nor do those of who retired in a lap. *)
PointsOf(activities, bib) ==
  LET cutoff == LastLap(activities, Live(activities, "pointsRemoval", bib))
      counted == {i \in Live(activities, "pointsSprint", bib) : activities[i].activity.lap > cutoff}
  IN IF LastLap(activities, Live(activities, "DNF", bib)) > 0 THEN 0
     ELSE MapThenSumSet(LAMBDA i : activities[i].activity.results[bib], counted)

(* Mutant of Derived: without a counting sprint the points stay as they are. *)
DerivedSticky(row, activities, bib) ==
  LET retired == Live(activities, "DNF", bib)
      lap == LastLap(activities, retired)
      last == {activities[i].activity.dnfType : i \in {j \in retired : activities[j].activity.lap = lap}}
  IN [row EXCEPT !.points = IF Live(activities, "pointsSprint", bib) = {} THEN @ ELSE PointsOf(activities, bib),
                 !.dnf = CASE last = {} -> "none"
                           [] last = {"dnf"} -> "dnf"
                           [] OTHER -> "elimination",
                 !.dnfLap = lap,
                 !.dsq = Live(activities, "DSQ", bib) # {},
                 !.dns = Live(activities, "DNS", bib) # {}]

(* The last retirement; an elimination before a "dnf" in the same lap. *)
Derived(row, activities, bib) ==
  LET retired == Live(activities, "DNF", bib)
      lap == LastLap(activities, retired)
      last == {activities[i].activity.dnfType : i \in {j \in retired : activities[j].activity.lap = lap}}
  IN [row EXCEPT !.points = PointsOf(activities, bib),
                 !.dnf = CASE last = {} -> "none"
                           [] last = {"dnf"} -> "dnf"
                           [] OTHER -> "elimination",
                 !.dnfLap = lap,
                 !.dsq = Live(activities, "DSQ", bib) # {},
                 !.dns = Live(activities, "DNS", bib) # {}]

ApplyActivities(previous, starters, activities) ==
  [bib \in DOMAIN previous \cup starters \cup NamedIn(activities) |->
     Derived(IF bib \in DOMAIN previous THEN previous[bib] ELSE DefaultRow, activities, bib)]

-----------------------------------------------------------------------------
(* recomputeRaceResults *)

StatusBucket(r) == IF r.dsq THEN 2 ELSE IF r.dns THEN 3 ELSE IF r.dnf # "none" THEN 1 ELSE 0

(* Smaller is better; no finish rank is behind all. *)
SortKey(r) == <<StatusBucket(r), -r.dnfLap, -r.points, IF r.finishRank > 0 THEN r.finishRank ELSE 1000>>

Before(k, l) == \E i \in DOMAIN k : k[i] < l[i] /\ \A j \in 1 .. i - 1 : k[j] = l[j]

Recompute(rows) ==
  LET key(bib) == SortKey(rows[bib])
      sorted == SetToSortSeq(DOMAIN rows, LAMBDA b, c : Before(key(b), key(c)) \/ (key(b) = key(c) /\ b < c))
      sameDnfLap(k, l) == k[1] = 1 /\ l[1] = 1 /\ k[2] < 0 /\ k[2] = l[2]
      tie(i) == LET k == key(sorted[i - 1])  l == key(sorted[i]) IN k = l \/ sameDnfLap(k, l)
      rank[i \in DOMAIN sorted] == IF i > 1 THEN IF tie(i) THEN rank[i - 1] ELSE i ELSE 1
  IN [bib \in DOMAIN rows |-> [rows[bib] EXCEPT !.rank = rank[CHOOSE i \in DOMAIN sorted : sorted[i] = bib]]]

Materialize(previous, starters, activities) == Recompute(ApplyActivities(previous, starters, activities))

-----------------------------------------------------------------------------
(* The operations of useEventsActions. *)

AddActivity(i) ==
  /\ Edit
  /\ i \in DOMAIN Recordable \ used
  /\ used' = used \cup {i}
  /\ raceActivities' = [j \in DOMAIN raceActivities \cup {i} |->
                          IF j = i THEN [activity |-> Recordable[i], isDeleted |-> FALSE]
                          ELSE raceActivities[j]]
  /\ raceResults' = Materialize(raceResults, raceStarters, raceActivities')
  /\ UNCHANGED <<raceStarters, page>>

(* The operator deletes or restores an activity of the page, or moves it to another lap: the
   page's copy replaces the activity of that id. *)
UpdateActivity(i) ==
  /\ Edit
  /\ i \in DOMAIN page.activities
  /\ \E edited \in {[page.activities[i] EXCEPT !.isDeleted = ~@],
                    [page.activities[i] EXCEPT !.activity.lap = IF @ = 1 THEN 2 ELSE 1]} :
       raceActivities' = [j \in DOMAIN raceActivities |-> IF j = i THEN edited ELSE raceActivities[j]]
  /\ raceResults' = IF i \in DOMAIN raceActivities
                    THEN Materialize(raceResults, raceStarters, raceActivities') ELSE raceResults
  /\ UNCHANGED <<raceStarters, page, used>>

RemoveAllActivities ==
  /\ Edit
  /\ raceActivities' = <<>>
  /\ raceResults' = Materialize(raceResults, raceStarters, raceActivities')
  /\ UNCHANGED <<raceStarters, page, used>>

(* setRaceResultsManual with the page's rows and a finish rank. *)
EnterFinishRank(bib, r) ==
  /\ Edit
  /\ LET row == IF bib \in DOMAIN page.results THEN page.results[bib] ELSE DefaultRow
         rows == [b \in DOMAIN page.results \cup {bib} |->
                    IF b = bib THEN [row EXCEPT !.finishRank = r] ELSE page.results[b]]
     IN raceResults' = Materialize(rows, raceStarters, raceActivities)
  /\ UNCHANGED <<raceStarters, raceActivities, page, used>>

(* filterActivitiesByAllowedBibs: retirements of type "dnf" stay as they are. *)
Filtered(activities, allowed) ==
  LET rest(i) == LET a == activities[i].activity
                 IN IF a.type = "DNF" /\ a.dnfType = "dnf" THEN a
                    ELSE [a EXCEPT !.results = [bib \in DOMAIN @ \cap allowed |-> @[bib]]]
  IN [i \in {j \in DOMAIN activities : DOMAIN rest(j).results # {}} |-> [activities[i] EXCEPT !.activity = rest(i)]]

(* replaceRaceStartersInRace, also behind adding and removing a starter. *)
ReplaceStarters(starters) ==
  /\ Edit
  /\ raceStarters' = starters
  /\ raceActivities' = Filtered(raceActivities, starters)
  /\ raceResults' = Materialize([bib \in DOMAIN raceResults \cap starters |-> raceResults[bib]],
                                starters, raceActivities')
  /\ UNCHANGED <<page, used>>

(* The page shows the current document. *)
Render ==
  /\ page' = [activities |-> raceActivities, results |-> raceResults]
  /\ UNCHANGED <<raceStarters, raceActivities, raceResults, used, edits>>

Init ==
  /\ raceStarters = Bibs
  /\ raceActivities = <<>>
  /\ raceResults = Materialize(<<>>, Bibs, <<>>)
  /\ page = [activities |-> raceActivities, results |-> raceResults]
  /\ used = {} /\ edits = 0

Next ==
  \/ \E i \in DOMAIN Recordable : AddActivity(i) \/ UpdateActivity(i)
  \/ RemoveAllActivities
  \/ \E bib \in Bibs, r \in FinishRanks : EnterFinishRank(bib, r)
  \/ \E bib \in Bibs : ReplaceStarters(raceStarters \cup {bib}) \/ ReplaceStarters(raceStarters \ {bib})
  \/ Render

Spec == Init /\ [][Next]_scoreVars

-----------------------------------------------------------------------------
(* The variables have their types. *)
TypeOK ==
  /\ raceStarters \subseteq Bibs
  /\ DOMAIN raceActivities \subseteq used /\ used \subseteq DOMAIN Recordable
  /\ DOMAIN raceResults \subseteq Bibs
  /\ \A bib \in DOMAIN raceResults : raceResults[bib].rank \in 1 .. Cardinality(Bibs)
  /\ edits \in 0 .. MaxEdits

(* x ends the race before y. *)
Ahead(x, y) ==
  LET bx == StatusBucket(x)  by == StatusBucket(y)
      later == x.dnfLap > y.dnfLap
      more == x.points > y.points
      first == x.finishRank > 0 /\ (y.finishRank = 0 \/ x.finishRank < y.finishRank)
  IN \/ bx < by
     \/ bx = by /\ later
     \/ /\ bx = by /\ x.dnfLap = y.dnfLap
        /\ ~(bx = 1 /\ x.dnfLap > 0)
        /\ more \/ (x.points = y.points /\ first)

(* After every operation, also one with rows or an activity of a page that is out of date: every
   starter has a row, the points of a row are those of the sprints that stand (not deleted, after
   every removal, none after a retirement), and a rank is one more than the number of riders
   ahead, with those who retire in the same lap level. *)
ScoresRight ==
  /\ raceStarters \subseteq DOMAIN raceResults
  /\ \A bib \in DOMAIN raceResults :
       LET mine(type) == {raceActivities[i].activity :
                            i \in {j \in DOMAIN raceActivities :
                                     /\ ~raceActivities[j].isDeleted
                                     /\ raceActivities[j].activity.type = type
                                     /\ bib \in DOMAIN raceActivities[j].activity.results}}
           lost(a) == \E m \in mine("pointsRemoval") : m.lap >= a.lap
           out == \E m \in mine("DNF") : m.lap > 0
           row == raceResults[bib]
       IN /\ row.points = IF out THEN 0
                          ELSE FoldSet(LAMBDA a, sum : sum + a.results[bib], 0,
                                       {a \in mine("pointsSprint") : ~lost(a) /\ a.lap > 0})
          /\ row.rank = 1 + Cardinality({b \in DOMAIN raceResults : Ahead(raceResults[b], row)})
=============================================================================
