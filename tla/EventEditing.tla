----------------------------- MODULE EventEditing -----------------------------
(***************************************************************************)
(* EventsPage with its EventEditor: the list of events is one document,    *)
(* each event another one.  Creating, renaming and importing an event      *)
(* write both, on the revisions the page has heard of; a write on an older *)
(* one is refused.  While an event is being edited, its document may come  *)
(* late or change; another page may change and delete events meanwhile.    *)
(*                                                                         *)
(* Left out: slugs (they follow the names), the row of an age group being  *)
(* edited, the file of an export, files that hold no event, and lost       *)
(* connections (BrowserDoc).                                               *)
(***************************************************************************)
EXTENDS Naturals

CONSTANTS
  Events,      \* ids of events
  Copy,        \* the id an import gets as a copy
  None,        \* `null`
  Groups,      \* ids of age groups
  Names,
  NoName,      \* the empty name
  ImportName,  \* name of the event in an imported file, and of the first event; CopyName as a copy
  CopyName,
  MaxInputs,   \* bound: what the operator begins or saves
  MaxOthers    \* bound: what another page writes

VARIABLES
  eventList,      \* name of each event, NoName if it is not listed, and activeEventId
  eventDoc,       \* event -> name and age groups of its document
  unheard,        \* documents the page has an older revision of
  shownList,      \* the page's copy of the list
  editor,         \* the EventEditor, Closed
  conflictImport, \* the event for which the page asks what to do
  importTarget,   \* the event to be written once its document is there: id, name, and what is
                  \* known of the document: "nothing", "present" or "past"
  clashed,        \* ghost: was a write refused, or an event saved while it was being imported?
  inputs, others

eventVars == <<eventList, eventDoc, unheard, shownList, editor, conflictImport, importTarget, clashed,
               inputs, others>>
pageVars == <<shownList, editor, conflictImport, importTarget>>

Ids == Events \cup {Copy}
List == "list"

(* raw is the editor's copy of the document; added and removed are ghosts: what the operator has done
   to the age groups, less what he has taken back. *)
Absent == [name |-> NoName, ageGroups |-> {}]
Closed == [id |-> None, loaded |-> FALSE, raw |-> Absent, name |-> NoName, ageGroups |-> {},
           baseName |-> NoName, baseAgeGroups |-> {}, added |-> {}, removed |-> {}]
NoImport == [id |-> None, name |-> NoName, knows |-> "nothing"]

Input == inputs < MaxInputs /\ inputs' = inputs + 1 /\ UNCHANGED others
Other == others < MaxOthers /\ others' = others + 1 /\ UNCHANGED inputs

-----------------------------------------------------------------------------
(* What a write does to the list, on the copy the page has of it. *)
UpdateList(names, active) ==
  IF List \in unheard
  THEN UNCHANGED eventList /\ clashed' = TRUE
  ELSE eventList' = [name |-> names, active |-> active] /\ UNCHANGED clashed

Renamed(id, name) == [eventList.name EXCEPT ![id] = name]

(* After a write of the document id by anyone but the import. *)
Outdated(id) == IF importTarget.id = id /\ importTarget.knows = "present"
                THEN [importTarget EXCEPT !.knows = "past"] ELSE importTarget

isDirty(ed) == ed.name # ed.baseName \/ ed.ageGroups # ed.baseAgeGroups

(* Mutant of Hydrated: only a changed name keeps the documents out. *)
HydratedUnlessRenamed(ed, list) ==
  LET name == IF list.name[ed.id] # NoName THEN list.name[ed.id] ELSE ed.raw.name
  IN IF ed.id = None \/ ed.name # ed.baseName THEN ed
     ELSE [ed EXCEPT !.name = name, !.baseName = name,
                     !.ageGroups = ed.raw.ageGroups, !.baseAgeGroups = ed.raw.ageGroups]

(* The effect that takes over what the documents say, unless the operator has changed something. *)
Hydrated(ed, list) ==
  LET name == IF list.name[ed.id] # NoName THEN list.name[ed.id] ELSE ed.raw.name
  IN IF ed.id = None \/ isDirty(ed) THEN ed
     ELSE [ed EXCEPT !.name = name, !.baseName = name,
                     !.ageGroups = ed.raw.ageGroups, !.baseAgeGroups = ed.raw.ageGroups]

-----------------------------------------------------------------------------
(* The list. *)

setActiveEvent(id) ==
  /\ Input
  /\ shownList.name[id] # NoName /\ shownList.active # id
  /\ UpdateList(eventList.name, id)
  /\ unheard' = unheard \cup {List}
  /\ UNCHANGED <<eventDoc, pageVars>>

handleDelete(id) ==
  /\ Input
  /\ shownList.name[id] # NoName
  /\ UpdateList(Renamed(id, NoName), IF eventList.active = id THEN None ELSE eventList.active)
  /\ unheard' = unheard \cup {List}
  /\ editor' = IF editor.id = id THEN Closed ELSE editor
  /\ UNCHANGED <<eventDoc, shownList, conflictImport, importTarget>>

-----------------------------------------------------------------------------
(* The editor, for an event of the list or a new one; another one than before begins afresh. *)

Open(id) ==
  /\ Input
  /\ editor' = Hydrated([Closed EXCEPT !.id = id], shownList)
  /\ UNCHANGED <<eventList, eventDoc, unheard, shownList, conflictImport, importTarget, clashed>>

startEdit(id) == editor.id # id /\ shownList.name[id] # NoName /\ Open(id)

startNewEvent(id) == id \in Events /\ eventDoc[id] = Absent /\ eventList.name[id] = NoName /\ Open(id)

resetForm ==
  /\ editor.id # None
  /\ editor' = Closed
  /\ UNCHANGED <<eventList, eventDoc, unheard, shownList, conflictImport, importTarget, clashed, inputs, others>>

Edit(ed) ==
  /\ editor.id # None
  /\ editor' = Hydrated(ed, shownList)
  /\ UNCHANGED <<eventList, eventDoc, unheard, shownList, conflictImport, importTarget, clashed, inputs, others>>

setName(name) == Edit([editor EXCEPT !.name = name])

addAgeGroup(g) ==
  /\ g \notin editor.ageGroups
  /\ Edit([editor EXCEPT !.ageGroups = @ \cup {g}, !.added = @ \cup ({g} \ editor.removed), !.removed = @ \ {g}])

deleteAgeGroup(g) ==
  /\ g \in editor.ageGroups
  /\ Edit([editor EXCEPT !.ageGroups = @ \ {g}, !.added = @ \ {g}, !.removed = @ \cup ({g} \ editor.added)])

(* Both documents are written.  A new event is to become the active one, by a second write of the
   list in the same turn: made of the list before the first, it changes nothing or is refused. *)
handleSave ==
  /\ Input
  /\ editor.id # None /\ editor.loaded /\ editor.name # NoName
  /\ LET id == editor.id IN
       /\ eventDoc' = IF id \in unheard THEN eventDoc
                      ELSE [eventDoc EXCEPT ![id] = [name |-> editor.name, ageGroups |-> editor.ageGroups]]
       /\ eventList' = IF List \in unheard THEN eventList ELSE [eventList EXCEPT !.name = Renamed(id, editor.name)]
       /\ clashed' = (clashed \/ {List, id} \cap unheard # {} \/ importTarget.id = id)
       /\ unheard' = unheard \cup {List, id}
       /\ importTarget' = Outdated(id)
  /\ editor' = Closed
  /\ UNCHANGED <<shownList, conflictImport>>

-----------------------------------------------------------------------------
(* The import of a file. *)

commitImport(id, name) ==
  /\ UpdateList(Renamed(id, name), eventList.active)
  /\ unheard' = unheard \cup {List}
  /\ importTarget' = [id |-> id, name |-> name, knows |-> "nothing"]

(* Mutant of handleImportFile: the button is never disabled. *)
handleImportFileAnyTime(id) ==
  /\ Input
  /\ conflictImport = None
  /\ IF shownList.name[id] # NoName
     THEN conflictImport' = id /\ UNCHANGED <<eventList, clashed, unheard, importTarget>>
     ELSE commitImport(id, ImportName) /\ UNCHANGED conflictImport
  /\ UNCHANGED <<eventDoc, shownList, editor>>

handleImportFile(id) ==
  /\ Input
  /\ importTarget.id = None /\ conflictImport = None
  /\ IF shownList.name[id] # NoName
     THEN conflictImport' = id /\ UNCHANGED <<eventList, clashed, unheard, importTarget>>
     ELSE commitImport(id, ImportName) /\ UNCHANGED conflictImport
  /\ UNCHANGED <<eventDoc, shownList, editor>>

resolveConflict ==
  /\ conflictImport # None
  /\ conflictImport' = None
  /\ \/ UNCHANGED <<eventList, clashed, unheard, importTarget>>
     \/ commitImport(conflictImport, ImportName)
     \/ eventDoc[Copy] = Absent /\ commitImport(Copy, CopyName)
  /\ UNCHANGED <<eventDoc, shownList, editor, inputs, others>>

(* The document arrives; the effect behind that render replaces it. *)
ImportLoaded ==
  /\ importTarget.id # None /\ importTarget.knows = "nothing"
  /\ importTarget' = [importTarget EXCEPT !.knows = "present"]
  /\ UNCHANGED <<eventList, eventDoc, unheard, shownList, editor, conflictImport, clashed, inputs, others>>

ImportWritten ==
  LET id == importTarget.id IN
  /\ importTarget.knows # "nothing"
  /\ IF importTarget.knows = "present"
     THEN /\ eventDoc' = [eventDoc EXCEPT ![id] = [name |-> importTarget.name, ageGroups |-> Groups]]
          /\ unheard' = unheard \cup {id}
          /\ UNCHANGED clashed
     ELSE clashed' = TRUE /\ UNCHANGED <<eventDoc, unheard>>
  /\ importTarget' = NoImport
  /\ UNCHANGED <<eventList, shownList, editor, conflictImport, inputs, others>>

-----------------------------------------------------------------------------
(* The page hears of the list, or of the event being edited. *)

HearList ==
  /\ List \in unheard
  /\ unheard' = unheard \ {List}
  /\ shownList' = eventList
  /\ editor' = Hydrated(editor, eventList)
  /\ UNCHANGED <<eventList, eventDoc, conflictImport, importTarget, clashed, inputs, others>>

HearEvent ==
  LET id == editor.id IN
  /\ id # None /\ (~editor.loaded \/ id \in unheard)
  /\ unheard' = unheard \ {id}
  /\ editor' = Hydrated([editor EXCEPT !.loaded = TRUE, !.raw = eventDoc[id]], shownList)
  /\ UNCHANGED <<eventList, eventDoc, shownList, conflictImport, importTarget, clashed, inputs, others>>

(* Another page saves, deletes or activates an event, on present revisions. *)
OtherPage ==
  /\ Other
  /\ \E id \in Ids :
       /\ eventList.name[id] # NoName
       /\ \/ /\ eventList' = [name |-> Renamed(id, NoName),
                              active |-> IF eventList.active = id THEN None ELSE eventList.active]
             /\ unheard' = unheard \cup {List}
             /\ UNCHANGED <<eventDoc, importTarget, clashed>>
          \/ /\ eventList' = [eventList EXCEPT !.active = id]
             /\ unheard' = unheard \cup {List}
             /\ UNCHANGED <<eventDoc, importTarget, clashed>>
          \/ \E name \in Names :
               /\ eventList' = [eventList EXCEPT !.name = Renamed(id, name)]
               /\ eventDoc' = [eventDoc EXCEPT ![id] = [name |-> name, ageGroups |-> {}]]
               /\ unheard' = unheard \cup {List, id}
               /\ importTarget' = Outdated(id)
               /\ clashed' = (clashed \/ importTarget.id = id)
  /\ UNCHANGED <<shownList, editor, conflictImport>>

Init ==
  LET first == CHOOSE id \in Events : TRUE
  IN /\ eventList = [name |-> [id \in Ids |-> IF id = first THEN ImportName ELSE NoName], active |-> first]
     /\ eventDoc = [id \in Ids |-> IF id = first THEN [name |-> ImportName, ageGroups |-> Groups] ELSE Absent]
     /\ unheard = {} /\ shownList = eventList /\ editor = Closed
     /\ conflictImport = None /\ importTarget = NoImport
     /\ clashed = FALSE /\ inputs = 0 /\ others = 0

(* The row of an event, the button for a new one, the editor with its age groups, the dialog. *)
EventRow(id) == setActiveEvent(id) \/ startEdit(id) \/ handleDelete(id)
EditorForm == handleSave \/ resetForm \/ \E name \in Names : setName(name)
AgeGroupsTable == \E g \in Groups : addAgeGroup(g) \/ deleteAgeGroup(g)
ConflictDialog == resolveConflict

Next ==
  \/ \E id \in Ids : EventRow(id) \/ startNewEvent(id)
  \/ \E id \in Events : handleImportFile(id)
  \/ EditorForm \/ AgeGroupsTable \/ ConflictDialog
  \/ ImportLoaded \/ ImportWritten
  \/ HearList \/ HearEvent
  \/ OtherPage

Spec == Init /\ [][Next]_eventVars

-----------------------------------------------------------------------------
AllNames == Names \cup {NoName, ImportName, CopyName}
Docs == [name : AllNames, ageGroups : SUBSET Groups]

(* Types; a dialog and an import are never open together. *)
TypeOK ==
  /\ \A list \in {eventList, shownList} : list.name \in [Ids -> AllNames] /\ list.active \in Ids \cup {None}
  /\ eventDoc \in [Ids -> Docs]
  /\ unheard \subseteq Ids \cup {List}
  /\ editor.id \in Ids \cup {None} /\ editor.raw \in Docs
  /\ conflictImport \in Ids \cup {None} /\ importTarget.id \in Ids \cup {None}
  /\ conflictImport = None \/ importTarget.id = None

(* The two documents of an event name it alike, whoever creates, renames, imports, copies or deletes it
   in any order, unless a write was refused or an import crossed another save; the page tells the
   operator of neither. *)
NamesAgree ==
  clashed \/ \A id \in Ids : eventList.name[id] \in {NoName, eventDoc[id].name} \/ importTarget.id = id

(* The active event is one of the list. *)
ActiveListed == eventList.active = None \/ eventList.name[eventList.active] # NoName

(* What the operator has added and removed stays in the editor until it is saved or given up, and is
   all that saving changes of the age groups he has been shown. *)
GroupsAsTyped ==
  editor.id # None => editor.ageGroups = (editor.baseAgeGroups \cup editor.added) \ editor.removed

(* Saving changes the age groups of the document as typed, if it still has those the editor took over. *)
SavedAsTyped ==
  editor.id # None /\ eventDoc' # eventDoc /\ inputs' # inputs
  /\ editor.baseAgeGroups = eventDoc[editor.id].ageGroups
    => eventDoc'[editor.id].ageGroups = (eventDoc[editor.id].ageGroups \cup editor.added) \ editor.removed
=============================================================================
