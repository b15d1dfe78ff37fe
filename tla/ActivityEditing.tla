---------------------------- MODULE ActivityEditing ----------------------------
(***************************************************************************)
(* ScoringPage with its RaceActivitiesList: the operator turns from race   *)
(* to race, records what the panels give, corrects, deletes and restores   *)
(* single activities, with the versions before in their history, and       *)
(* removes them all.  As everywhere a write is a patch on the revision the *)
(* page has heard of, refused if there is a newer one.                     *)
(*                                                                         *)
(* Left out: results and ranks (RaceScoring), how panels find what they    *)
(* record (their modules), points of a sprint, lost connections.  Another  *)
(* page writes on the present revision.                                    *)
(***************************************************************************)
EXTENDS Naturals, FiniteSets, SequencesExt

CONSTANTS
  Activities, \* ids
  Races, NoRace,
  Riders,     \* bibs of the starters at first
  Recordings, \* what the panels record: [type, lap, results]
  TypedLaps,  \* what is typed into the lap field
  TypedBibs, Invalid, \* and into that of the results: bibs, or no list of bibs
  MaxInputs,  \* bound: what the operator does
  MaxOthers   \* bound: what other pages write

VARIABLES
  event,         \* the document: races, activeRaceId, the starters of each race, its activities by id
  shown,         \* the page's copy
  unheard,       \* is that of an older revision?
  raceId,        \* of the page's address
  editing,       \* the edit panel of the list
  removeAllOpen, \* is the dialog open?
  versions,      \* ghost: id -> the versions the activity has had
  inputs, others

activityVars == <<event, shown, unheard, raceId, editing, removeAllOpen, versions, inputs, others>>

Input == inputs < MaxInputs /\ inputs' = inputs + 1 /\ UNCHANGED others
Other == others < MaxOthers /\ others' = others + 1 /\ UNCHANGED inputs

NotEditing == [id |-> 0, lap |-> 1, isDeleted |-> FALSE, results |-> {}, error |-> FALSE]

Version(a) == [lap |-> a.lap, isDeleted |-> a.isDeleted, results |-> a.results]

OfRace(doc, race) == {id \in DOMAIN doc.activities : doc.activities[id].race = race}

-----------------------------------------------------------------------------
(* What becomes of the document. *)

addRaceActivity(doc, race, id, recording) ==
  [doc EXCEPT !.activities = [i \in DOMAIN @ \cup {id} |->
     IF i \in DOMAIN @ THEN @[i]
     ELSE [race |-> race, type |-> recording.type, lap |-> recording.lap, isDeleted |-> FALSE,
           results |-> recording.results, history |-> <<>>]]]

(* The version before goes to the front of the history. *)
WithHistory(a, next) ==
  [a EXCEPT !.lap = next.lap, !.isDeleted = next.isDeleted, !.results = next.results,
            !.history = <<Version(a)>> \o @]

updateRaceActivity(doc, id, next) == [doc EXCEPT !.activities[id] = WithHistory(@, next)]

Deleted(doc, id) == updateRaceActivity(doc, id, [Version(doc.activities[id]) EXCEPT !.isDeleted = ~@])

replaceRaceActivities(doc, race, ids) ==
  [doc EXCEPT !.activities = [id \in (DOMAIN @ \ OfRace(doc, race)) \cup ids |-> @[id]]]

(* Only a retirement keeps who is no starter. *)
removeRaceStarter(doc, race, bib) ==
  LET starters == doc.starters[race] \ {bib}
      filtered(a) == IF a.race = race /\ a.type # "dnf" THEN [a EXCEPT !.results = @ \cap starters] ELSE a
      kept == {id \in DOMAIN doc.activities :
                 LET a == doc.activities[id] IN a.race = race /\ a.type # "dnf" => filtered(a).results # {}}
  IN [doc EXCEPT !.starters[race] = starters, !.activities = [id \in kept |-> filtered(@[id])]]

toggledActiveRace(doc, race) == [doc EXCEPT !.activeRaceId = IF @ = race THEN NoRace ELSE race]

deleteRace(doc, race) ==
  [replaceRaceActivities(doc, race, {}) EXCEPT !.races = @ \ {race},
                                               !.activeRaceId = IF @ = race THEN NoRace ELSE @]

-----------------------------------------------------------------------------
(* Ghost: a rider who is no starter any more leaves the version there is. *)
Remember(doc) ==
  versions' = [id \in Activities |->
    IF id \notin DOMAIN doc.activities THEN versions[id]
    ELSE LET a == doc.activities[id]
             filtered == id \in DOMAIN event.activities /\ doc.starters # event.starters
         IN (IF filtered THEN versions[id] \ {Version(event.activities[id])} ELSE versions[id]) \cup {Version(a)}]

(* The page makes another document of its copy; nothing is sent if it is the same. *)
Update(doc) ==
  /\ event' = IF doc = shown \/ unheard THEN event ELSE doc
  /\ unheard' = (unheard \/ doc # shown)
  /\ Remember(event')

-----------------------------------------------------------------------------
(* The page, which shows the race of its address if there is one. *)

RaceShown == raceId \in shown.races
Rows == OfRace(shown, raceId)

(* What its row shows of an activity. *)
RowOf(a) == [type |-> a.type, version |-> Version(a), history |-> a.history]

Page == Input /\ RaceShown /\ ~removeAllOpen

handleAddRaceActivity(id, recording) ==
  /\ Page
  /\ versions[id] = {} /\ id \notin DOMAIN shown.activities
  /\ Update(addRaceActivity(shown, raceId, id, recording))
  /\ UNCHANGED <<shown, raceId, editing, removeAllOpen>>

handleDeleteStarter(bib) ==
  /\ Page
  /\ bib \in shown.starters[raceId]
  /\ Update(removeRaceStarter(shown, raceId, bib))
  /\ UNCHANGED <<shown, raceId, editing, removeAllOpen>>

toggleActiveRace ==
  /\ Page
  /\ Update(toggledActiveRace(shown, raceId))
  /\ UNCHANGED <<shown, raceId, editing, removeAllOpen>>

(* The list stays, with its edit panel. *)
handleRaceSelect(race) ==
  /\ Page
  /\ race \in shown.races \ {raceId}
  /\ raceId' = race
  /\ UNCHANGED <<event, shown, unheard, editing, removeAllOpen, versions>>

openActiveRaceScoring ==
  /\ Page
  /\ shown.activeRaceId \in shown.races \ {raceId}
  /\ raceId' = shown.activeRaceId
  /\ UNCHANGED <<event, shown, unheard, editing, removeAllOpen, versions>>

(* The race is saved; that it be the active one is a second write on the same revision, which is
   refused.  Until the page has heard of the race it shows none, and no list. *)
createRaceFromLive(race) ==
  /\ Page
  /\ race \notin event.races \cup shown.races
  /\ Update([shown EXCEPT !.races = @ \cup {race}])
  /\ raceId' = race /\ editing' = NotEditing
  /\ UNCHANGED <<shown, removeAllOpen>>

-----------------------------------------------------------------------------
(* The list: its rows, the edit panel in one of them, and the dialog. *)

lapOf(a) == IF a.lap > 0 THEN a.lap ELSE 1

startEdit(id) ==
  /\ Page
  /\ id \in Rows \ {editing.id}
  /\ LET a == shown.activities[id]
     IN editing' = [id |-> id, lap |-> lapOf(a), isDeleted |-> a.isDeleted,
                    results |-> IF a.type = "dns" THEN {} ELSE a.results, error |-> FALSE]
  /\ UNCHANGED <<event, shown, unheard, raceId, removeAllOpen, versions>>

cancelEdit ==
  /\ Page
  /\ editing.id \in Rows
  /\ editing' = NotEditing
  /\ UNCHANGED <<event, shown, unheard, raceId, removeAllOpen, versions>>

(* The fields; what was wrong stays written below them. *)
EditPanel ==
  /\ Page
  /\ editing.id \in Rows
  /\ \/ \E lap \in TypedLaps \ {editing.lap} : editing' = [editing EXCEPT !.lap = lap]
     \/ editing' = [editing EXCEPT !.isDeleted = ~@]
     \/ \E results \in (TypedBibs \cup {Invalid}) \ {editing.results} : editing' = [editing EXCEPT !.results = results]
  /\ UNCHANGED <<event, shown, unheard, raceId, removeAllOpen, versions>>

saveEdit(id) ==
  /\ Page
  /\ id \in Rows \cap {editing.id}
  /\ IF shown.activities[id].type = "dns" \/ editing.results = Invalid
     THEN editing' = [editing EXCEPT !.error = TRUE] /\ UNCHANGED <<event, unheard, versions>>
     ELSE Update(updateRaceActivity(shown, id, editing)) /\ editing' = NotEditing
  /\ UNCHANGED <<shown, raceId, removeAllOpen>>

(* Not in the row with the panel. *)
toggleDelete(id) ==
  /\ Page
  /\ id \in Rows \ {editing.id}
  /\ Update(Deleted(shown, id))
  /\ UNCHANGED <<shown, raceId, editing, removeAllOpen>>

ActivityRow(id) == startEdit(id) \/ saveEdit(id) \/ toggleDelete(id)

(* Also not while the panel is that of a row the list does not show. *)
RemoveAllButton ==
  /\ Page
  /\ Rows # {} /\ editing.id = NotEditing.id
  /\ removeAllOpen' = TRUE
  /\ UNCHANGED <<event, shown, unheard, raceId, editing, versions>>

CloseRemoveAll ==
  /\ removeAllOpen
  /\ removeAllOpen' = FALSE
  /\ UNCHANGED <<event, shown, unheard, raceId, editing, versions, inputs, others>>

removeAllActivities ==
  /\ removeAllOpen /\ Rows # {}
  /\ Update(replaceRaceActivities(shown, raceId, {}))
  /\ removeAllOpen' = FALSE /\ editing' = NotEditing
  /\ UNCHANGED <<shown, raceId, inputs, others>>

-----------------------------------------------------------------------------
(* The page hears of the present revision.  Without its race there is no list. *)
Hear ==
  /\ unheard
  /\ shown' = event /\ unheard' = FALSE
  /\ editing' = IF raceId \in event.races THEN editing ELSE NotEditing
  /\ removeAllOpen' = (removeAllOpen /\ raceId \in event.races)
  /\ UNCHANGED <<event, raceId, versions, inputs, others>>

OtherPage ==
  /\ Other
  /\ \/ \E id \in {i \in Activities : versions[i] = {} /\ i \notin DOMAIN shown.activities}, recording \in Recordings, race \in event.races :
          event' = addRaceActivity(event, race, id, recording)
     \/ \E id \in DOMAIN event.activities :
          \/ event' = Deleted(event, id)
          \/ \E lap \in TypedLaps, results \in TypedBibs :
               event' = updateRaceActivity(event, id, [lap |-> lap, isDeleted |-> FALSE, results |-> results])
     \/ \E race \in event.races :
          \/ OfRace(event, race) # {} /\ event' = replaceRaceActivities(event, race, {})
          \/ \E bib \in event.starters[race] : event' = removeRaceStarter(event, race, bib)
          \/ event' = deleteRace(event, race)
  /\ unheard' = TRUE
  /\ Remember(event')
  /\ UNCHANGED <<shown, raceId, editing, removeAllOpen>>

-----------------------------------------------------------------------------
(* The page shows a race with one activity. *)
Init ==
  /\ raceId = CHOOSE race \in Races : TRUE
  /\ \E races \in SUBSET Races, recording \in Recordings :
       LET doc == [races |-> races, activeRaceId |-> NoRace, starters |-> [race \in Races |-> Riders],
                   activities |-> [id \in {} |-> <<>>]]
       IN raceId \in races /\ event = addRaceActivity(doc, raceId, CHOOSE id \in Activities : TRUE, recording)
  /\ shown = event /\ unheard = FALSE
  /\ editing = NotEditing /\ removeAllOpen = FALSE
  /\ versions = [id \in Activities |->
                   IF id \in DOMAIN event.activities THEN {Version(event.activities[id])} ELSE {}]
  /\ inputs = 0 /\ others = 0

Next ==
  \/ \E id \in Activities :
       \/ \E recording \in Recordings : handleAddRaceActivity(id, recording)
       \/ ActivityRow(id)
  \/ \E bib \in Riders : handleDeleteStarter(bib)
  \/ toggleActiveRace \/ openActiveRaceScoring
  \/ \E race \in Races : handleRaceSelect(race) \/ createRaceFromLive(race)
  \/ cancelEdit \/ EditPanel
  \/ RemoveAllButton \/ CloseRemoveAll \/ removeAllActivities
  \/ Hear \/ OtherPage

Spec == Init /\ [][Next]_activityVars

-----------------------------------------------------------------------------
(* The variables have their types. *)
TypeOK ==
  /\ event.races \subseteq Races /\ shown.races \subseteq Races
  /\ event.activeRaceId \in Races \cup {NoRace}
  /\ DOMAIN event.activities \subseteq Activities /\ DOMAIN shown.activities \subseteq Activities
  /\ raceId \in Races /\ unheard \in BOOLEAN /\ removeAllOpen \in BOOLEAN
  /\ editing.id \in Activities \cup {NotEditing.id} /\ editing.error \in BOOLEAN
  /\ \A id \in Activities : id \notin DOMAIN event.activities \/ versions[id] # {}
  /\ inputs \in 0 .. MaxInputs /\ others \in 0 .. MaxOthers

(* Every version an activity has had, also what one page has written over another's correction, is in
   its history; every activity is one of a race. *)
HistoryComplete ==
  \A id \in DOMAIN event.activities :
    LET a == event.activities[id]
    IN a.race \in event.races /\ versions[id] \subseteq {Version(a)} \cup ToSet(a.history)

(* What the page writes changes activities of the race it shows, in front of the operator as they are:
   one, unless all are removed or a starter is; no other page's activity or correction is lost. *)
ActivitiesStay ==
  others' = others =>
    LET lost == {id \in DOMAIN event.activities : id \notin DOMAIN event'.activities}
        changed == {id \in DOMAIN event.activities \ lost : event'.activities[id] # event.activities[id]}
    IN /\ \A id \in lost \cup changed : id \in Rows /\ RowOf(shown.activities[id]) = RowOf(event.activities[id])
       /\ lost # {} => removeAllOpen \/ event'.starters # event.starters
       /\ Cardinality(changed) > 1 => event'.starters # event.starters

(* What is in the edit panel stays as long as the race is there, whatever other pages write. *)
PanelStays == editing' # editing => inputs' # inputs \/ raceId' \notin shown'.races
=============================================================================
