----------------------------- MODULE RaceStarters -----------------------------
(***************************************************************************)
(* RaceStartersPage with RaceStartersImport: the starters of a race are    *)
(* typed, edited, removed, or read from a file.  Every change of the list  *)
(* changes what is recorded for its bibs with it.  The scoring page        *)
(* records results and inserts starters meanwhile, and a file is read      *)
(* while the operator goes on.                                             *)
(*                                                                         *)
(* Left out: age group and transponders of a starter, the row being typed  *)
(* for a new one, the encoding of a file, races that disappear, what       *)
(* RaceScoring says of the records.                                        *)
(***************************************************************************)
EXTENDS Naturals, FiniteSets, SequencesExt

CONSTANTS
  Races, Bibs, Names,
  NoBib,        \* `null`
  Unnamed,      \* a name with an empty part
  NoFile,
  Files,        \* bound: file -> its rows, an empty one if there is only a header; <<>> for an empty file
  Typed,        \* bound: the rows an operator may fill in
  FirstRows,    \* bound: race -> the starters it begins with
  MaxInputs,    \* bound: what the operator writes and reads
  MaxOthers     \* bound: what the scoring page writes

VARIABLES
  starters,     \* race -> its raceStarters
  recorded,     \* [race, bib, kind, of]: raceActivities and raceResults; of: a ghost, the starter with the bib then
  shown,        \* the page's copy of the starters
  unheard,      \* has the event changed since it was rendered?
  raceId,       \* of the route
  editing,      \* editingAthleteId, 0 for none; what is in its fields shows when it is saved
  importer,     \* [fileName, rows, reads]: the file named, `parsed`, the files being read
  overlapped,   \* ghost: when the last file was chosen, or the importer was reset, was a file being read?
  handedOn,     \* ghost: races in which a bib was given twice, or whose list a file or an older copy replaced
  lastId,       \* ids given so far
  inputs, others

starterVars == <<starters, recorded, shown, unheard, raceId, editing, importer, overlapped, handedOn,
                 lastId, inputs, others>>

Rows == [bib : Bibs \cup {NoBib}, name : Names \cup {Unnamed}]
NothingRead == [fileName |-> NoFile, rows |-> <<>>, reads |-> {}]

Input == inputs < MaxInputs /\ inputs' = inputs + 1 /\ UNCHANGED others
Other == others < MaxOthers /\ others' = others + 1 /\ UNCHANGED inputs

Athlete(id, row) == [id |-> id, bib |-> row.bib, name |-> row.name]
BibsOf(list) == {list[i].bib : i \in DOMAIN list} \ {NoBib}

-----------------------------------------------------------------------------
(* The rows of a file that are not empty; those an import makes starters of. *)
importable(rows) == SelectSeq(rows, LAMBDA r : r.bib # NoBib \/ r.name # Unnamed)
WithIds(rows) == [k \in DOMAIN rows |-> Athlete(lastId + k, rows[k])]
rowsToAthletes(rows) == WithIds(SelectSeq(rows, LAMBDA r : r.name # Unnamed))

(* The starter of a list that a row is about: the last one with its bib, else the last one with its
   name; 0 if there is none. *)
match(base, row) ==
  LET bibbed == {i \in DOMAIN base : row.bib # NoBib /\ base[i].bib = row.bib}
      named == {i \in DOMAIN base : base[i].name = row.name}
  IN Max({0} \cup IF bibbed # {} THEN bibbed ELSE named)

(* Known starters take the last row about them, the rows about nobody are appended. *)
upsertStarters(base, rows) ==
  LET About(i) == {k \in DOMAIN rows : match(base, rows[k]) = i}
      additions == SetToSortSeq(About(0), <)
  IN [i \in DOMAIN base |-> IF About(i) = {} THEN base[i] ELSE Athlete(base[i].id, rows[Max(About(i))])]
     \o [k \in DOMAIN additions |-> WithIds(rows)[additions[k]]]

UniqueBibs(list) ==
  \A i, j \in DOMAIN list : i # j /\ list[i].bib # NoBib => list[i].bib # list[j].bib

(* Mutant of Kept: what is recorded for a bib stays when nobody has it any more. *)
KeptAll(race, list) == recorded

(* What stays recorded when the starters of a race are these: a retirement of type "dnf" always does. *)
Kept(race, list) == {r \in recorded : r.race = race => r.bib \in BibsOf(list) \/ r.kind = "dnf"}

(* replaceRaceStartersInRace: the starters become a list, made of the present one if `amended`. *)
Replace(race, list, amended) ==
  /\ starters' = [starters EXCEPT ![race] = list]
  /\ recorded' = Kept(race, list)
  /\ unheard' = TRUE
  /\ handedOn' = handedOn \cup IF amended /\ UniqueBibs(list) THEN {} ELSE {race}

(* The page writes the event, unless it has not heard of its present revision; it may have heard
   of it and not yet rendered it. *)
Refused == unheard /\ UNCHANGED <<starters, recorded, unheard, handedOn>>
Change(list) == Replace(raceId, list, TRUE) \/ Refused

(* The list is made of the one the page shows. *)
updateRaceStarters(list) == Replace(raceId, list, ~unheard) \/ Refused

addOrMergeRaceStarters(rows) == Change(upsertStarters(starters[raceId], rows))

-----------------------------------------------------------------------------
(* The table. *)

handleRaceSelect(race) ==
  /\ race # raceId
  /\ raceId' = race
  /\ editing' = 0
  /\ UNCHANGED <<starters, recorded, shown, unheard, importer, overlapped, handedOn, lastId, inputs, others>>

(* The browser goes back or forth to another race. *)
Navigate(race) ==
  /\ race # raceId
  /\ raceId' = race
  /\ UNCHANGED <<starters, recorded, shown, unheard, editing, importer, overlapped, handedOn, lastId, inputs, others>>

startEdit(a) ==
  /\ editing' = a.id
  /\ UNCHANGED <<starters, recorded, shown, unheard, raceId, importer, overlapped, handedOn, lastId, inputs, others>>

cancelEdit ==
  /\ editing' = 0
  /\ UNCHANGED <<starters, recorded, shown, unheard, raceId, importer, overlapped, handedOn, lastId, inputs, others>>

saveEdit(row) ==
  /\ Input
  /\ updateRaceStarters([i \in DOMAIN shown[raceId] |->
       IF shown[raceId][i].id = editing THEN Athlete(editing, row) ELSE shown[raceId][i]])
  /\ editing' = 0
  /\ UNCHANGED <<shown, raceId, importer, overlapped, lastId>>

deleteStarter(a) ==
  /\ Input
  /\ Change(SelectSeq(starters[raceId], LAMBDA x : x.id # a.id))
  /\ editing' = IF editing = a.id THEN 0 ELSE editing
  /\ UNCHANGED <<shown, raceId, importer, overlapped, lastId>>

deleteAllStarters ==
  /\ Input
  /\ shown[raceId] # <<>>
  /\ updateRaceStarters(<<>>)
  /\ editing' = 0
  /\ UNCHANGED <<shown, raceId, importer, overlapped, lastId>>

addStarter(row) ==
  /\ Input
  /\ row.name # Unnamed
  /\ addOrMergeRaceStarters(<<Athlete(lastId + 1, row)>>)
  /\ lastId' = lastId + 1
  /\ UNCHANGED <<shown, raceId, editing, importer, overlapped>>

(* The row of a starter: with its fields and Save and Cancel, or with Edit and Delete. *)
StarterRow(a, row) ==
  \/ editing = a.id /\ (saveEdit(row) \/ cancelEdit)
  \/ editing # a.id /\ (startEdit(a) \/ deleteStarter(a))

-----------------------------------------------------------------------------
(* The importer, which stays as it is when the page turns to another race. *)

(* A file is named at once, and read later. *)
readFile(file) ==
  /\ Input
  /\ file \notin importer.reads
  /\ importer' = [importer EXCEPT !.fileName = file, !.reads = @ \cup {file}]
  /\ overlapped' = (importer.reads # {})
  /\ UNCHANGED <<starters, recorded, shown, unheard, raceId, editing, handedOn, lastId>>

FileRead(file) ==
  /\ file \in importer.reads
  /\ importer' = [importer EXCEPT !.rows = Files[file], !.reads = @ \ {file}]
  /\ UNCHANGED <<starters, recorded, shown, unheard, raceId, editing, overlapped, handedOn, lastId, inputs, others>>

resetImporter ==
  /\ importer' = [NothingRead EXCEPT !.reads = importer.reads]
  /\ overlapped' = (importer.reads # {})

Reset ==
  /\ importer.rows # <<>>
  /\ resetImporter
  /\ UNCHANGED <<starters, recorded, shown, unheard, raceId, editing, handedOn, lastId, inputs, others>>

handleImport(mode, incoming) ==
  \/ mode = "merge" /\ addOrMergeRaceStarters(incoming)
  \/ mode = "replace" /\ (Replace(raceId, incoming, FALSE) \/ Refused)

(* Replace and Merge, once the operator has agreed. *)
Import(mode) ==
  LET rows == importable(importer.rows)
      incoming == rowsToAthletes(rows)
  IN /\ Input
     /\ rows # <<>>
     /\ handleImport(mode, incoming)
     /\ lastId' = lastId + Len(incoming)
     /\ resetImporter
     /\ UNCHANGED <<shown, raceId, editing>>

-----------------------------------------------------------------------------
(* The page hears of the event and renders. *)
Render ==
  /\ shown' = starters /\ unheard' = FALSE
  /\ UNCHANGED <<starters, recorded, raceId, editing, importer, overlapped, handedOn, lastId, inputs, others>>

(* What the scoring page does: it records something for a starter, or inserts one for a bib that is
   missing (insertRaceStartersInRace). *)
Record(race, a, kind) ==
  /\ a.bib # NoBib
  /\ recorded' = recorded \cup {[race |-> race, bib |-> a.bib, kind |-> kind, of |-> a.id]}
  /\ unheard' = TRUE
  /\ UNCHANGED <<starters, handedOn, lastId>>

InsertStarter(race, bib) ==
  /\ bib \notin BibsOf(starters[race])
  /\ Replace(race, Append(starters[race], Athlete(lastId + 1, [bib |-> bib, name |-> Unnamed])), TRUE)
  /\ lastId' = lastId + 1

OtherPage ==
  /\ Other
  /\ \E race \in Races :
       \/ \E a \in ToSet(starters[race]), kind \in {"result", "dnf"} : Record(race, a, kind)
       \/ \E bib \in Bibs : InsertStarter(race, bib)
  /\ UNCHANGED <<shown, raceId, editing, importer, overlapped>>

Init ==
  /\ starters = [race \in Races |-> [i \in DOMAIN FirstRows[race] |->
       LET before == {r \in Races : r < race}
       IN Athlete(i + MapThenSumSet(LAMBDA r : Len(FirstRows[r]), before), FirstRows[race][i])]]
  /\ lastId = MapThenSumSet(LAMBDA r : Len(FirstRows[r]), Races)
  /\ recorded = {} /\ shown = starters /\ unheard = FALSE
  /\ raceId = CHOOSE race \in Races : TRUE
  /\ editing = 0 /\ importer = NothingRead /\ overlapped = FALSE /\ handedOn = {}
  /\ inputs = 0 /\ others = 0

Next ==
  \/ \E race \in Races : handleRaceSelect(race) \/ Navigate(race)
  \/ \E row \in Typed : addStarter(row) \/ \E a \in ToSet(shown[raceId]) : StarterRow(a, row)
  \/ deleteAllStarters
  \/ \E file \in DOMAIN Files : readFile(file) \/ FileRead(file)
  \/ Reset
  \/ \E mode \in {"merge", "replace"} : Import(mode)
  \/ Render
  \/ OtherPage

Spec == Init /\ [][Next]_starterVars

-----------------------------------------------------------------------------
(* Types. *)
TypeOK ==
  /\ \A lists \in {starters, shown} : DOMAIN lists = Races /\ \A race \in Races :
       /\ IsInjective([i \in DOMAIN lists[race] |-> lists[race][i].id])
       /\ \A a \in ToSet(lists[race]) : a.id \in 1 .. lastId /\ [bib |-> a.bib, name |-> a.name] \in Rows
  /\ recorded \subseteq [race : Races, bib : Bibs, kind : {"result", "dnf"}, of : 1 .. lastId]
  /\ raceId \in Races /\ handedOn \subseteq Races
  /\ importer.reads \subseteq DOMAIN Files /\ importer.fileName \in DOMAIN Files \cup {NoFile}

(* What is recorded belongs to the starter it was recorded for, who still has that bib, whatever was
   edited, merged by bib or name, removed and added again: as long as no bib was given twice and no
   list was replaced by a file or by one of an older copy.  Retirements of type "dnf" stay with the bib. *)
RecordsStay ==
  \A r \in recorded : r.race \notin handedOn /\ r.kind # "dnf" =>
    \E a \in ToSet(starters[r.race]) : a.id = r.of /\ a.bib = r.bib

(* The rows to be imported are those of the file that is named, once all files are read, unless one
   was chosen, or the importer reset, while another was being read. *)
FileAsNamed ==
  importer.reads = {} /\ ~overlapped =>
    importer.rows = IF importer.fileName = NoFile THEN <<>> ELSE Files[importer.fileName]

(* Whoever adds starters, or imports a file that gives no bib twice, gives no bib twice.  Only an
   edit by hand can. *)
BibsStayUnique ==
  lastId' # lastId => \A race \in Races : UniqueBibs(starters[race]) => UniqueBibs(starters'[race])

(* At most one athlete of a list has changed or is gone. *)
OthersKept(list, next) ==
  LET gone == ToSet(list) \ ToSet(next)
  IN /\ Cardinality(gone) <= 1
     /\ \A a \in ToSet(next) \ ToSet(list) : \E b \in gone : a.id = b.id

(* Saving or removing one starter leaves the others of the race as they are, if the page has rendered
   the event. *)
OthersStay ==
  lastId' = lastId /\ ~unheard =>
    \A race \in Races : starters'[race] = <<>> \/ OthersKept(starters[race], starters'[race])
=============================================================================
