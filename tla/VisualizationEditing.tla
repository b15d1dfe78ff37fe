------------------------- MODULE VisualizationEditing -------------------------
(***************************************************************************)
(* VisualizationsPage with its VisualizationEditor, in the two versions of *)
(* the scoring and of the LiveTracking frontend.  As with events, the list *)
(* of visualizations is one document and each visualization another one,   *)
(* and saving writes both, on the revisions the page has heard of.  The    *)
(* scoring version keeps what was typed from the documents and has columns *)
(* and an import; the LiveTracking version takes over whatever the         *)
(* documents say, and makes active what it saves.                          *)
(*                                                                         *)
(* Left out: the single settings, which are one `look`, the order of the   *)
(* list, the export, files that are refused, lost connections.             *)
(***************************************************************************)
EXTENDS Naturals, SequencesExt

CONSTANTS
  Visualizations, \* ids
  None,           \* `null`
  Names, NoName,
  Looks,          \* values of the settings
  DefaultLook,
  Columns, Blank, \* columns of the table, and the empty one
  MaxColumns,     \* bound
  FileId, FileDoc,\* id and content of an exported file
  MaxInputs,      \* bound: what the operator begins or saves
  MaxOthers       \* bound: what another page writes

VARIABLES
  app,               \* which frontend: "scoring" or "liveTracking"
  visualizationList, \* name of each visualization, NoName if it is not listed, and activeVisualizationId
  fullVisualization, \* id -> its document
  shownList,         \* the page's copy of the list
  listUnheard,       \* is that of an older revision?
  editor,            \* the editor, Closed
  reads,             \* the files being read: which visualizations were listed when each was chosen
  importTarget,      \* the visualization to be written once its document is there
  unwritten,         \* ghost: were both documents to be written, but not both of present revisions, or
                     \* another import came between?
  inputs, others

visualizationVars == <<app, visualizationList, fullVisualization, shownList, listUnheard, editor, reads,
                       importTarget, unwritten, inputs, others>>

(* What normalizeFullVisualization makes of no document. *)
Absent == [name |-> NoName, look |-> DefaultLook, columns |-> <<>>]
Fields == {"name", "look", "columns"}

(* raw is the editor's copy of the document, knows whether it is of the present revision; fields what is
   in its fields, base what was there when they were filled.  typed and wanted are ghosts: the fields the
   operator has changed, and to what. *)
Closed == [id |-> None, knows |-> "nothing", raw |-> Absent, fields |-> Absent, base |-> Absent,
           typed |-> {}, wanted |-> Absent]
NoImport == [id |-> None, knows |-> "nothing"]

Input == inputs < MaxInputs /\ inputs' = inputs + 1 /\ UNCHANGED others
Other == others < MaxOthers /\ others' = others + 1 /\ UNCHANGED inputs

Listed(list) == {id \in Visualizations : list.name[id] # NoName}
Renamed(list, id, name) == [list EXCEPT !.name[id] = name]

(* An id of crypto.randomUUID. *)
Fresh(id) ==
  /\ fullVisualization[id] = Absent /\ id \notin Listed(visualizationList) \cup Listed(shownList)
  /\ id \notin {editor.id, importTarget.id}

-----------------------------------------------------------------------------
(* The page makes another list of its copy: nothing is sent if there is nothing to change, and it is
   refused if the copy is of an older revision. *)
UpdateList(list) ==
  /\ visualizationList' = IF list = shownList \/ listUnheard THEN visualizationList ELSE list
  /\ listUnheard' = (listUnheard \/ list # shownList)

(* After a write of the document id by someone else. *)
Outdated(user, id) == IF user.id = id /\ user.knows = "present" THEN [user EXCEPT !.knows = "past"] ELSE user

setActive(list, id) == IF Listed(list) = {} \/ id \in Listed(list) THEN [list EXCEPT !.active = id] ELSE list

Removed(list, id) == [name |-> [list.name EXCEPT ![id] = NoName],
                      active |-> IF list.active = id THEN None ELSE list.active]

-----------------------------------------------------------------------------
(* The fields of the editor. *)

normalizeEditableColumns(columns) == SelectSeq(columns, LAMBDA c : c # Blank)
Draft(fields) == [fields EXCEPT !.columns = normalizeEditableColumns(@)]

isDirty(ed) == Draft(ed.fields) # ed.base

KeepsFields(ed) == app = "scoring" /\ isDirty(ed)

(* The effect that fills them when the document or the listed name has changed, or in the scoring version
   when the operator has taken back all he changed. *)
Filled(ed, list) ==
  LET source == IF ed.id \in Listed(list) THEN [ed.raw EXCEPT !.name = list.name[ed.id]] ELSE ed.raw
  IN IF KeepsFields(ed) THEN ed ELSE [ed EXCEPT !.fields = source, !.base = source]

(* That of the LiveTracking version: what was typed is gone. *)
Overwritten(ed, list) == Filled([ed EXCEPT !.typed = {}, !.wanted = Absent], list)

Refilled(ed, list) == IF app = "scoring" THEN Filled(ed, list) ELSE Overwritten(ed, list)

-----------------------------------------------------------------------------
(* The list: a row with its buttons, and the row for a new one. *)

setActiveVisualization(id) ==
  /\ Input
  /\ id \in Listed(shownList) /\ shownList.active # id
  /\ UpdateList(setActive(shownList, id))
  /\ UNCHANGED <<app, fullVisualization, shownList, editor, reads, importTarget, unwritten>>

(* Its editor stays open. *)
handleDelete(id) ==
  /\ Input
  /\ id \in Listed(shownList)
  /\ UpdateList(Removed(shownList, id))
  /\ UNCHANGED <<app, fullVisualization, shownList, editor, reads, importTarget, unwritten>>

Opened(id) == Refilled([Closed EXCEPT !.id = id], shownList)

startEdit(id) ==
  /\ Input
  /\ id \in Listed(shownList) /\ editor.id # id
  /\ editor' = Opened(id)
  /\ UNCHANGED <<app, visualizationList, fullVisualization, shownList, listUnheard, reads, importTarget, unwritten>>

handleCreate(id, name) ==
  /\ Input
  /\ app = "scoring" /\ Fresh(id)
  /\ UpdateList(Renamed(shownList, id, name))
  /\ UNCHANGED <<app, fullVisualization, shownList, editor, reads, importTarget, unwritten>>

(* That of the LiveTracking version. *)
handleCreateAndEdit(id, name) ==
  /\ Input
  /\ app = "liveTracking" /\ Fresh(id)
  /\ UpdateList(Renamed(shownList, id, name))
  /\ editor' = Opened(id)
  /\ UNCHANGED <<app, fullVisualization, shownList, reads, importTarget, unwritten>>

(* The row of a visualization and that for a new one. *)
VisualizationRow(id) == setActiveVisualization(id) \/ startEdit(id) \/ handleDelete(id)
CreateRow(id, name) == handleCreate(id, name) \/ handleCreateAndEdit(id, name)

-----------------------------------------------------------------------------
(* The editor. *)

resetEditor ==
  /\ editor.id # None
  /\ editor' = Closed
  /\ UNCHANGED <<app, visualizationList, fullVisualization, shownList, listUnheard, reads, importTarget, unwritten,
                 inputs, others>>

Edit(field, value) ==
  LET wanted == IF field = "columns" THEN normalizeEditableColumns(value) ELSE value
      new == wanted # editor.base[field]
      ed == [editor EXCEPT !.fields[field] = value,
                           !.typed = IF new THEN @ \cup {field} ELSE @ \ {field},
                           !.wanted[field] = IF new THEN wanted ELSE Absent[field]]
  IN /\ editor.id # None
     /\ value # editor.fields[field]
     /\ editor' = IF isDirty(editor) /\ ~isDirty(ed) /\ app = "scoring" THEN Filled(ed, shownList) ELSE ed
     /\ UNCHANGED <<app, visualizationList, fullVisualization, shownList, listUnheard, reads, importTarget,
                    unwritten, inputs, others>>

setName(name) == Edit("name", name)
setLook(look) == Edit("look", look)

(* The table of columns, of the scoring version. *)
addColumn == Len(editor.fields.columns) < MaxColumns /\ Edit("columns", Append(editor.fields.columns, Blank))
updateColumnAt(i, column) == Edit("columns", [editor.fields.columns EXCEPT ![i] = column])
removeColumnAt(i) == Edit("columns", RemoveAt(editor.fields.columns, i))
moveColumn(i, j) ==
  j \in DOMAIN editor.fields.columns /\ Edit("columns", InsertAt(RemoveAt(editor.fields.columns, i), j, editor.fields.columns[i]))

ColumnsTable ==
  /\ app = "scoring"
  /\ \/ addColumn
     \/ \E i \in DOMAIN editor.fields.columns :
          \/ \E column \in Columns : updateColumnAt(i, column)
          \/ removeColumnAt(i)
          \/ moveColumn(i, i - 1) \/ moveColumn(i, i + 1)

(* The LiveTracking version writes the list again, on the same copy as before: after a change of the
   name that is refused. *)
ThenActivated(named) == IF named = shownList THEN setActive(shownList, editor.id) ELSE named

(* The list is written, then the document, unless it is not there yet. *)
handleSave ==
  LET id == editor.id
      named == Renamed(shownList, id, editor.fields.name)
  IN /\ Input
     /\ id # None /\ editor.fields.name # NoName
     /\ UpdateList(IF app = "scoring" THEN named ELSE ThenActivated(named))
     /\ fullVisualization' = IF editor.knows # "present" THEN fullVisualization
                             ELSE [fullVisualization EXCEPT ![id] = Draft(editor.fields)]
     /\ unwritten' = (unwritten \/ listUnheard \/ editor.knows # "present" \/ importTarget.id = id)
     /\ importTarget' = Outdated(importTarget, id)
     /\ editor' = Closed
     /\ UNCHANGED <<app, shownList, reads>>

EditorForm ==
  \/ \E name \in Names \cup {NoName} : setName(name)
  \/ \E look \in Looks : setLook(look)
  \/ ColumnsTable
  \/ handleSave \/ resetEditor

-----------------------------------------------------------------------------
(* The import of the scoring version. *)

(* A file is chosen; what is listed then is compared with its id when it has been read. *)
handleImportFile ==
  /\ Input
  /\ app = "scoring"
  /\ reads' = reads \cup {Listed(shownList)}
  /\ UNCHANGED <<app, visualizationList, fullVisualization, shownList, listUnheard, editor, importTarget, unwritten>>

(* The effect that writes an import comes before the end of another reading. *)
FileRead(existingIds, id) ==
  /\ existingIds \in reads
  /\ IF FileId \in existingIds THEN Fresh(id) ELSE id = FileId
  /\ importTarget.knows = "nothing"
  /\ reads' = reads \ {existingIds}
  /\ UpdateList(Renamed(shownList, id, FileDoc.name))
  /\ unwritten' = (unwritten \/ listUnheard \/ importTarget.id # None)
  /\ importTarget' = [NoImport EXCEPT !.id = id]
  /\ UNCHANGED <<app, fullVisualization, shownList, editor, inputs, others>>

ImportLoaded ==
  /\ importTarget.id # None /\ importTarget.knows = "nothing"
  /\ importTarget' = [importTarget EXCEPT !.knows = "present"]
  /\ UNCHANGED <<app, visualizationList, fullVisualization, shownList, listUnheard, editor, reads, unwritten,
                 inputs, others>>

ImportWritten ==
  LET id == importTarget.id IN
  /\ importTarget.knows # "nothing"
  /\ IF importTarget.knows = "present"
     THEN /\ fullVisualization' = [fullVisualization EXCEPT ![id] = FileDoc]
          /\ editor' = Outdated(editor, id)
          /\ UNCHANGED unwritten
     ELSE unwritten' = TRUE /\ UNCHANGED <<fullVisualization, editor>>
  /\ importTarget' = NoImport
  /\ UNCHANGED <<app, visualizationList, shownList, listUnheard, reads, inputs, others>>

-----------------------------------------------------------------------------
(* The page hears of the list, or of the visualization being edited. *)

HearList ==
  /\ listUnheard
  /\ listUnheard' = FALSE
  /\ shownList' = visualizationList
  /\ editor' = IF editor.id # None /\ visualizationList.name[editor.id] # shownList.name[editor.id]
               THEN Refilled(editor, visualizationList) ELSE editor
  /\ UNCHANGED <<app, visualizationList, fullVisualization, reads, importTarget, unwritten, inputs, others>>

HearVisualization ==
  /\ editor.id # None /\ editor.knows # "present"
  /\ editor' = Refilled([editor EXCEPT !.knows = "present", !.raw = fullVisualization[editor.id]], shownList)
  /\ UNCHANGED <<app, visualizationList, fullVisualization, shownList, listUnheard, reads, importTarget, unwritten,
                 inputs, others>>

(* Another page removes, activates or saves a visualization, on present revisions. *)
OtherPage ==
  /\ Other
  /\ \E id \in Listed(visualizationList) :
       \/ /\ visualizationList' \in {Removed(visualizationList, id), setActive(visualizationList, id)}
          /\ UNCHANGED <<fullVisualization, editor, importTarget, unwritten>>
       \/ \E name \in Names :
            /\ visualizationList' = Renamed(visualizationList, id, name)
            /\ fullVisualization' = [fullVisualization EXCEPT ![id] = [Absent EXCEPT !.name = name]]
            /\ editor' = Outdated(editor, id)
            /\ importTarget' = Outdated(importTarget, id)
            /\ unwritten' = (unwritten \/ importTarget.id = id)
  /\ listUnheard' = TRUE
  /\ UNCHANGED <<app, shownList, reads>>

Init ==
  /\ app \in {"scoring", "liveTracking"}
  /\ visualizationList = [name |-> [id \in Visualizations |-> IF id = FileId THEN FileDoc.name ELSE NoName],
                          active |-> FileId]
  /\ fullVisualization = [id \in Visualizations |->
       IF id # FileId THEN Absent ELSE IF app = "scoring" THEN FileDoc ELSE [FileDoc EXCEPT !.columns = <<>>]]
  /\ shownList = visualizationList /\ listUnheard = FALSE /\ editor = Closed
  /\ reads = {} /\ importTarget = NoImport /\ unwritten = FALSE
  /\ inputs = 0 /\ others = 0

Next ==
  \/ \E id \in Visualizations : VisualizationRow(id) \/ \E name \in Names : CreateRow(id, name)
  \/ EditorForm
  \/ handleImportFile
  \/ \E existingIds \in reads, id \in Visualizations : FileRead(existingIds, id)
  \/ ImportLoaded \/ ImportWritten
  \/ HearList \/ HearVisualization
  \/ OtherPage

Spec == Init /\ [][Next]_visualizationVars

-----------------------------------------------------------------------------
AllNames == Names \cup {NoName, FileDoc.name}
IsDoc(doc) == doc.name \in AllNames /\ doc.look \in Looks /\ ToSet(doc.columns) \subseteq Columns

(* Types. *)
TypeOK ==
  /\ app \in {"scoring", "liveTracking"}
  /\ \A list \in {visualizationList, shownList} :
       list.name \in [Visualizations -> AllNames] /\ list.active \in Visualizations \cup {None}
  /\ \A id \in Visualizations : IsDoc(fullVisualization[id])
  /\ editor.id \in Visualizations \cup {None} /\ editor.knows \in {"nothing", "present", "past"}
  /\ IsDoc(editor.raw) /\ IsDoc(Draft(editor.fields)) /\ editor.typed \subseteq Fields
  /\ importTarget.id \in Visualizations \cup {None}

(* List and document name a visualization alike once it has a document, in whatever order visualizations
   are created, imported, saved, removed and saved again, unless one of the two
   was not there yet or of an older revision when they were written, so that its write was refused, left out or
   dropped, or another import came between; the page tells the operator of none of this. *)
NamesAgree ==
  unwritten \/ \A id \in Visualizations :
    \/ visualizationList.name[id] \in {NoName, fullVisualization[id].name}
    \/ fullVisualization[id] = Absent
    \/ importTarget.id = id

(* The active visualization is one of the list, also when saving makes it active. *)
ActiveListed == visualizationList.active = None \/ visualizationList.active \in Listed(visualizationList)

(* What the operator has typed stays in the fields of the editor until he saves or gives up, and the
   other fields show what was there when the editor was filled, whatever the documents do meanwhile. *)
FieldsAsTyped ==
  app = "scoring" => \A field \in Fields :
    Draft(editor.fields)[field] = IF field \in editor.typed THEN editor.wanted[field] ELSE editor.base[field]

(* Saving changes of a document only what was typed: always in the LiveTracking version, in the other one
   if the document still has what the editor was filled with. *)
SavedAsTyped ==
  editor.id # None /\ editor'.id = None =>
    \A field \in Fields \ {"name"} :
      \/ field \in editor.typed
      \/ fullVisualization'[editor.id][field] = fullVisualization[editor.id][field]
      \/ app = "scoring" /\ editor.base[field] # fullVisualization[editor.id][field]
=============================================================================
