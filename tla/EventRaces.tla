------------------------------ MODULE EventRaces ------------------------------
(***************************************************************************)
(* The races of an event: ActiveEventPage with its RaceEditor, and the     *)
(* dialog of LiveRaceStatus that creates a race from the live feed with    *)
(* the same editor.  Everything is in the document of the event, which     *)
(* other pages score, rename and delete in meanwhile.  The name of a race  *)
(* follows its fields until the operator types one; the two effects of the *)
(* editor do this, and share a note of what they have just done.           *)
(*                                                                         *)
(* Left out: distances and kinds of stage (fields like the mode), slugs,   *)
(* filters and the order of the table, lost connections and the page       *)
(* turning to another event (BrowserDoc).                                  *)
(***************************************************************************)
EXTENDS Integers, SequencesExt

CONSTANTS
  Groups,    \* ids of age groups
  NoGroup,   \* `""`
  MaxStage,  \* bound: stage values, 0 for the empty one
  MaxInputs, \* bound: what the operator opens or saves
  MaxOthers  \* bound: what other pages write

VARIABLES
  eventDoc,  \* races (id, name, fields, what is recorded in them), active, age groups, legacy format
  heard,     \* the page has heard of the present revision
  shown,     \* the page's copy
  editor,    \* the RaceEditor
  lastId,    \* ids of races given so far
  inputs, others

raceVars == <<eventDoc, heard, shown, editor, lastId, inputs, others>>

NoneActive == 0

(* What a race has recorded; the page creates it empty or with starters. *)
Empty == 0
Starters == 1
Scored == 2

(* An age group is the number of its present name, 0 if it is not there. *)
Fields == [ageGroup : Groups \cup {NoGroup}, mode : BOOLEAN, stage : 0 .. MaxStage]
NoEvent == [races |-> <<>>, active |-> NoneActive, groups |-> [g \in Groups |-> 0], legacy |-> FALSE]

Ids(event) == {event.races[i].id : i \in DOMAIN event.races}
RaceOf(event, id) == event.races[CHOOSE i \in DOMAIN event.races : event.races[i].id = id]

(* buildAutoName: the name of the age group and the fields; names that are typed or come from the
   feed are others. *)
Unnamed == <<>>
TypedName == <<"typed">>
LiveName == <<"live">>
autoName(fields, groups) ==
  <<"auto", IF fields.ageGroup = NoGroup THEN 0 ELSE groups[fields.ageGroup], fields.mode, fields.stage>>

Input == inputs < MaxInputs /\ inputs' = inputs + 1 /\ UNCHANGED others
Other == others < MaxOthers /\ others' = others + 1 /\ UNCHANGED inputs

-----------------------------------------------------------------------------
(* A write of the page, in the format of today: nothing is sent if it changes nothing, and what is sent
   on an older revision is refused. *)
Writes(new) ==
  LET written == [new EXCEPT !.legacy = FALSE]
  IN IF heard /\ written # eventDoc
     THEN eventDoc' = written /\ heard' = FALSE
     ELSE UNCHANGED <<eventDoc, heard>>

upsertRace(event, race) ==
  [event EXCEPT !.races = IF race.id \in Ids(event)
                          THEN [i \in DOMAIN @ |-> IF @[i].id = race.id THEN race ELSE @[i]]
                          ELSE <<race>> \o @]

removeRace(event, id) ==
  [event EXCEPT !.races = SelectSeq(@, LAMBDA race : race.id # id), !.active = IF @ = id THEN NoneActive ELSE @]

(* An existing race keeps what is recorded. *)
buildRaceFromDraft(draft, event) ==
  [id |-> draft.raceId, name |-> draft.name, fields |-> draft.fields,
   recorded |-> IF draft.raceId \in Ids(event) THEN RaceOf(event, draft.raceId).recorded ELSE Empty]

-----------------------------------------------------------------------------
(* The editor.  initial and fresh say which race object it was given: that of a race of the page until
   the page hears of another revision; template has the fields of a race from the feed.  typed and swallowed are ghosts: the name the operator has
   typed, and that a change of the fields has not reached the name. *)
NoFields == [ageGroup |-> NoGroup, mode |-> FALSE, stage |-> 0]
Closed == [open |-> FALSE, mode |-> "new", initial |-> NoneActive, fresh |-> TRUE, live |-> FALSE,
           raceId |-> NoneActive, template |-> NoFields, fields |-> NoFields,
           name |-> Unnamed, nameLocked |-> FALSE, justInitialized |-> FALSE,
           typed |-> Unnamed, swallowed |-> FALSE]

FirstGroup == LET there == {g \in Groups : shown.groups[g] > 0}
              IN IF there = {} THEN NoGroup ELSE CHOOSE g \in there : TRUE
NewFields == [ageGroup |-> FirstGroup, mode |-> FALSE, stage |-> 0]

(* The effect that keeps the name, after a render in which `old` became `new`: it runs if the generated
   name or the lock has changed, and then not if the other effect has just run. *)
Named(old, oldGroups, new, groups) ==
  LET auto == autoName(new.fields, groups)
      runs == new.open /\ (autoName(old.fields, oldGroups) # auto \/ old.nameLocked # new.nameLocked)
  IN IF ~runs THEN new
     ELSE IF new.justInitialized
     THEN [new EXCEPT !.justInitialized = FALSE, !.swallowed = ~new.nameLocked /\ new.name # auto]
     ELSE IF new.live \/ new.nameLocked THEN new
     ELSE [new EXCEPT !.name = auto, !.swallowed = FALSE]

(* The effect that fills the fields and the name.  When the editor opens or is built anew, the other
   effect runs in the same render and clears the note; else only when something it depends on has
   changed. *)
Initialized(ed, template) ==
  LET auto == autoName(ed.fields, shown.groups)
      set == [ed EXCEPT !.name = IF template # Unnamed THEN template ELSE auto,
                        !.nameLocked = template # Unnamed /\ (ed.mode = "new" \/ template # auto),
                        !.justInitialized = editor.open /\ ~ed.live]
  IN Named([editor EXCEPT !.open = TRUE], shown.groups, set, shown.groups)

Begin(ed, template) ==
  /\ Input
  /\ lastId' = IF ed.mode = "new" THEN lastId + 1 ELSE lastId
  /\ editor' = Initialized([ed EXCEPT !.open = TRUE, !.raceId = IF ed.mode = "new" THEN lastId + 1 ELSE @], template)
  /\ UNCHANGED <<eventDoc, heard, shown>>

openNewRace ==
  /\ ~editor.open \/ editor.mode = "edit" \/ editor.initial # NoneActive
  /\ ~editor.live
  /\ Begin([Closed EXCEPT !.fields = NewFields], Unnamed)

openEditRace(id) ==
  /\ id \in Ids(shown)
  /\ ~(editor.open /\ editor.mode = "edit" /\ editor.initial = id /\ editor.fresh)
  /\ LET race == RaceOf(shown, id)
     IN Begin([Closed EXCEPT !.mode = "edit", !.initial = id, !.raceId = id, !.fields = race.fields], race.name)

incrementStageValue(n) == IF n = 0 \/ n = MaxStage THEN n ELSE n + 1 \* the bound

openNextRaceFrom(id) ==
  /\ id \in Ids(shown)
  /\ Begin([Closed EXCEPT !.initial = id,
                          !.fields = [RaceOf(shown, id).fields EXCEPT !.stage = incrementStageValue(@)]], Unnamed)

(* The dialog on the scoring page, where the other editor is not there; the starters of the feed are
   kept as they are now.  The age group is inferred from the name of the live race. *)
openFromLive(group, mode) ==
  /\ ~editor.open /\ FirstGroup # NoGroup
  /\ shown.groups[group] > 0
  /\ LET fields == [NoFields EXCEPT !.ageGroup = group, !.mode = mode]
     IN Begin([Closed EXCEPT !.live = TRUE, !.template = fields, !.fields = fields], LiveName)

(* The live race goes idle or comes back: React builds the dialog anew from its template, whatever the
   operator has changed. *)
liveIdle ==
  /\ editor.live
  /\ Begin([Closed EXCEPT !.live = TRUE, !.template = editor.template, !.fields = editor.template], LiveName)

Changes(ed) ==
  /\ editor.open
  /\ editor' = Named(editor, shown.groups, ed, shown.groups)
  /\ UNCHANGED <<eventDoc, heard, shown, lastId, inputs, others>>

(* The age groups to choose from are those there are; the present one may be gone. *)
setFields(fields) ==
  /\ fields # editor.fields
  /\ fields.ageGroup \in {editor.fields.ageGroup} \cup {g \in Groups : shown.groups[g] > 0}
  /\ Changes([editor EXCEPT !.fields = fields])

(* Also by nothing: then it is not generated either, and cannot be saved. *)
setName(name) ==
  /\ name # editor.name
  /\ Changes([editor EXCEPT !.name = name, !.nameLocked = TRUE, !.typed = name, !.swallowed = FALSE])

handleRefreshName ==
  LET auto == autoName(editor.fields, shown.groups)
  IN editor.name # auto
     /\ Changes([editor EXCEPT !.name = auto, !.nameLocked = FALSE, !.typed = Unnamed, !.swallowed = FALSE])

closeRaceEditor ==
  /\ editor.open
  /\ editor' = Closed
  /\ UNCHANGED <<eventDoc, heard, shown, lastId, inputs, others>>

canSave == editor.open /\ editor.fields.ageGroup # NoGroup /\ editor.name # Unnamed

(* saveRace, or saveRaceWithStarters for a race from the feed.  That the latter is to become the active
   one is a second write of the same turn: the page's copy does not have the race yet, so nothing is sent. *)
handleSave ==
  /\ Input /\ canSave
  /\ LET race == buildRaceFromDraft(editor, eventDoc)
     IN Writes(upsertRace(eventDoc, IF editor.live THEN [race EXCEPT !.recorded = Starters] ELSE race))
  /\ editor' = Closed
  /\ UNCHANGED <<shown, lastId>>

-----------------------------------------------------------------------------
(* The table of races. *)

deleteRace(id) ==
  /\ Input /\ id \in Ids(shown)
  /\ Writes(removeRace(eventDoc, id))
  /\ UNCHANGED <<shown, editor, lastId>>

toggleActiveRace(id) ==
  /\ Input /\ id \in Ids(shown)
  /\ Writes(IF id \in Ids(eventDoc) THEN [eventDoc EXCEPT !.active = IF @ = id THEN NoneActive ELSE id] ELSE eventDoc)
  /\ UNCHANGED <<shown, editor, lastId>>

-----------------------------------------------------------------------------
(* The page hears of the document.  The format of older versions is replaced once it is shown. *)
Hear ==
  /\ ~heard
  /\ shown' = eventDoc
  /\ editor' = Named(editor, shown.groups, [editor EXCEPT !.fresh = FALSE], eventDoc.groups)
  /\ IF eventDoc.legacy /\ ~shown.legacy
     THEN eventDoc' = [eventDoc EXCEPT !.legacy = FALSE] /\ heard' = FALSE
     ELSE heard' = TRUE /\ UNCHANGED eventDoc
  /\ UNCHANGED <<lastId, inputs, others>>

(* Another page deletes, activates or scores a race or creates one, in the format of today, or renames or
   deletes an age group, which leaves the races as they are. *)
OtherPage ==
  /\ Other
  /\ heard' = FALSE
  /\ LET current == [eventDoc EXCEPT !.legacy = FALSE]
     IN \/ /\ \E id \in Ids(current) : eventDoc' \in {removeRace(current, id), [current EXCEPT !.active = id],
                upsertRace(current, [RaceOf(current, id) EXCEPT !.recorded = Scored])}
           /\ UNCHANGED lastId
        \/ /\ \E g \in Groups, n \in {0, 2} : eventDoc.groups[g] > 0 /\ eventDoc' = [eventDoc EXCEPT !.groups[g] = n]
           /\ UNCHANGED lastId
        \/ /\ lastId' = lastId + 1
           /\ eventDoc' = upsertRace(current, [id |-> lastId', name |-> TypedName, fields |-> NewFields, recorded |-> Empty])
  /\ UNCHANGED <<shown, editor>>

Init ==
  /\ \E legacy \in BOOLEAN, recorded \in {Empty, Scored} :
       LET fields == [ageGroup |-> CHOOSE g \in Groups : TRUE, mode |-> FALSE, stage |-> 1]
           groups == [g \in Groups |-> 1]
           name == IF legacy THEN TypedName ELSE autoName(fields, groups)
       IN eventDoc = [races |-> <<[id |-> 1, name |-> name, fields |-> fields, recorded |-> recorded]>>,
                      active |-> 1, groups |-> groups, legacy |-> legacy]
  /\ heard = FALSE /\ shown = NoEvent /\ editor = Closed /\ lastId = 1 /\ inputs = 0 /\ others = 0

RaceRow(id) == openNextRaceFrom(id) \/ openEditRace(id) \/ toggleActiveRace(id) \/ deleteRace(id)
EditorFields ==
  \/ \E g \in Groups : setFields([editor.fields EXCEPT !.ageGroup = g])
  \/ \E mode \in BOOLEAN : setFields([editor.fields EXCEPT !.mode = mode])
  \/ \E stage \in 0 .. MaxStage : setFields([editor.fields EXCEPT !.stage = stage])
EditorName == setName(TypedName) \/ setName(Unnamed) \/ handleRefreshName
EditorButtons == handleSave \/ closeRaceEditor

Next ==
  \/ openNewRace
  \/ ~editor.live /\ \E id \in Ids(shown) : RaceRow(id)
  \/ \E g \in Groups, mode \in BOOLEAN : openFromLive(g, mode)
  \/ liveIdle
  \/ EditorFields \/ EditorName \/ EditorButtons
  \/ Hear
  \/ OtherPage

Spec == Init /\ [][Next]_raceVars

-----------------------------------------------------------------------------
RaceNames == {Unnamed, TypedName, LiveName} \cup
           {<<"auto", n, mode, stage>> : n \in 0 .. 2, mode \in BOOLEAN, stage \in 0 .. MaxStage}

(* Types; no id is given twice. *)
TypeOK ==
  /\ \A event \in {eventDoc, shown} :
       /\ \A race \in ToSet(event.races) : race.id \in 1 .. lastId /\ race.name \in RaceNames /\ race.fields \in Fields
       /\ IsInjective([i \in DOMAIN event.races |-> event.races[i].id])
  /\ editor.fields \in Fields /\ editor.name \in RaceNames /\ editor.raceId \in 0 .. lastId

(* The active race is one of the event, whichever page deletes and activates. *)
ActiveIsRace == eventDoc.active \in Ids(eventDoc) \cup {NoneActive}

(* A name that was typed stays while the documents change and other fields are edited; one that was
   not is that of the fields and the age group as they are shown, unless the effect that keeps it has
   missed a change, or a race from the feed was given up its name. *)
NameAsTyped ==
  editor.open =>
    /\ editor.typed # Unnamed => editor.nameLocked /\ editor.name = editor.typed
    /\ editor.nameLocked \/ editor.swallowed \/ editor.live \/ editor.name = autoName(editor.fields, shown.groups)

(* Saving one race leaves the others and, if it is still there, what is recorded in it. *)
RacesKept ==
  inputs' # inputs =>
    \A i \in DOMAIN eventDoc.races, j \in DOMAIN eventDoc'.races :
      LET before == eventDoc.races[i]  after == eventDoc'.races[j]
      IN before.id = after.id =>
           before = after \/ (editor.open /\ editor.raceId = after.id /\ after.recorded = before.recorded)
=============================================================================
