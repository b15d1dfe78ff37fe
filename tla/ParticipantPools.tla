--------------------------- MODULE ParticipantPools ---------------------------
(***************************************************************************)
(* LiveTrackingParticipantsPage: the operator links participant pools with *)
(* the setup of the session, says which are active, and edits the athletes *)
(* of the pool shown, by hand or with an import.  The page works on three  *)
(* documents (the list of all pools, the setup, the pool shown); another   *)
(* page may change each of them meanwhile.                                 *)
(*                                                                         *)
(* When the page has turned to a pool and its socket is open, but the      *)
(* document has not come yet, what is entered is still computed from the   *)
(* pool before, and is sent as a patch on that one's revision; the server  *)
(* takes it for the pool turned to if that happens to have the same one.   *)
(*                                                                         *)
(* Left out: a session without setup or turning to another one, what pools *)
(* are called, dates, nations and transponders (part of an athlete's name  *)
(* here), the row being typed for a new athlete, and legacy bibs, which    *)
(* the page turns into numbers when it completes the document of a pool.   *)
(***************************************************************************)
EXTENDS Naturals, FiniteSets, SequencesExt

CONSTANTS
  Pools,        \* ids a pool has or may get
  NoPool,       \* `""`
  NoBib,        \* `null`
  Bibs, Names,
  Imports,      \* bound: the files the operator may import, as sequences of rows
  Typed,        \* bound: the rows an operator may fill in
  FirstRows,    \* bound: the athletes the first pool begins with
  MaxInputs,    \* bound: what the operator writes
  MaxOthers     \* bound: what another page writes

VARIABLES
  participantPools, \* the pools of the list document
  setup,            \* participantPoolIds and activeParticipantPoolIds of the setup document
  athletes,         \* pool -> the athletes of its document
  completed,        \* pools whose documents a page has completed
  shown,            \* the page's copies of list, setup and athletes; copy: are there any? heard: of the pool it views?
  stale,            \* which of the three have changed since they were rendered
  viewingPoolId,
  editing,          \* editingId and editingDraft
  lastId,           \* ids of athletes given so far
  usedPools,        \* ids of pools given so far
  behind,           \* ghost: has the page written what it made of an older copy?
  inputs, others

poolVars == <<participantPools, setup, athletes, completed, shown, stale, viewingPoolId, editing, lastId,
              usedPools, behind, inputs, others>>

Rows == [bib : Bibs \cup {NoBib}, name : Names]
Athlete(id, row) == [id |-> id, bib |-> row.bib, name |-> row.name]
NotEditing == Athlete(0, [bib |-> NoBib, name |-> CHOOSE n \in Names : TRUE])

linkedPoolIds == shown.setup.linked
activePoolIds == shown.setup.active \cap ToSet(linkedPoolIds)

Input == inputs < MaxInputs /\ inputs' = inputs + 1 /\ UNCHANGED others
Other == others < MaxOthers /\ others' = others + 1 /\ UNCHANGED inputs

-----------------------------------------------------------------------------
(* Rows become athletes with new ids. *)
toParticipants(rows) == [k \in DOMAIN rows |-> Athlete(lastId + k, rows[k])]

(* The athlete of a list that a row is about: the last one with its bib, else the last one with its
   name; 0 if there is none. *)
match(base, row) ==
  LET bibbed == {i \in DOMAIN base : row.bib # NoBib /\ base[i].bib = row.bib}
      named == {i \in DOMAIN base : base[i].name = row.name}
  IN Max({0} \cup IF bibbed # {} THEN bibbed ELSE named)

(* Known athletes take the last row about them, the rows about nobody are appended. *)
mergeParticipants(base, rows) ==
  LET About(i) == {k \in DOMAIN rows : match(base, rows[k]) = i}
      additions == SetToSortSeq(About(0), <)
  IN [i \in DOMAIN base |-> IF About(i) = {} THEN base[i] ELSE Athlete(base[i].id, rows[Max(About(i))])]
     \o [k \in DOMAIN additions |-> toParticipants(rows)[additions[k]]]

-----------------------------------------------------------------------------
(* What becomes of a document when the page writes it: nothing if the page has not heard of its
   present revision; it may have heard of it and not yet rendered it. *)
Written(doc, old, new) == IF doc \in stale THEN {old, new} ELSE {new}

(* The page writes documents, for which it has read others too. *)
Sends(docs, read) ==
  /\ stale' = stale \cup docs
  /\ behind' = (behind \/ stale \cap read # {})

saveSetupPools(ids, active) ==
  setup' \in Written("setup", setup, [linked |-> ids, active |-> active \cap ToSet(ids)])

(* The page's copies when it turns to a pool, or to none and perhaps back: the athletes of the pool before
   are shown until the document comes; without a pool there are none. *)
Turned(copies, pool) ==
  IF pool = NoPool THEN [copies EXCEPT !.heard = FALSE, !.copy = FALSE, !.athletes = <<>>]
  ELSE [copies EXCEPT !.heard = FALSE]

(* The patch that makes `new` of `old`, applied to a list: place by place and field by field, then what was
   appended or cut off.  It does not apply where there is no such place. *)
Patched(list, old, new) ==
  LET both == DOMAIN old \cap DOMAIN new
      replaced == [i \in DOMAIN list |->
                     IF i \notin both THEN list[i]
                     ELSE [f \in DOMAIN list[i] |-> IF old[i][f] # new[i][f] THEN new[i][f] ELSE list[i][f]]]
  IN IF ~({i \in both : old[i] # new[i]} \subseteq DOMAIN list) THEN list
     ELSE IF Len(new) = Len(old) THEN replaced
     ELSE IF Len(list) < Len(old) THEN list
     ELSE SubSeq(replaced, 1, Cardinality(both)) \o SubSeq(new, Len(old) + 1, Len(new))
            \o SubSeq(replaced, Len(old) + 1, Len(list))

First(ids) == IF ids = <<>> THEN NoPool ELSE Head(ids)
Settled(pool, linked) == IF pool \in ToSet(linked) THEN pool ELSE First(linked)

-----------------------------------------------------------------------------
(* The pools of the setup. *)

turnTo(pool) ==
  /\ pool \in ToSet(linkedPoolIds) \ {viewingPoolId}
  /\ viewingPoolId' = pool /\ shown' = Turned(shown, pool)
  /\ stale' = stale \cup {"pool"}
  /\ UNCHANGED <<participantPools, setup, athletes, completed, editing, lastId, usedPools, behind, inputs, others>>

linkExistingPool(pool) ==
  /\ Input
  /\ pool \in shown.list \ ToSet(linkedPoolIds)
  /\ saveSetupPools(Append(linkedPoolIds, pool), activePoolIds)
  /\ Sends({"setup"}, {"list", "setup"})
  /\ UNCHANGED <<participantPools, athletes, completed, shown, viewingPoolId, editing, lastId, usedPools>>

createAndLinkPool(pool) ==
  /\ Input
  /\ pool \notin usedPools /\ usedPools' = usedPools \cup {pool}
  /\ participantPools' \in Written("list", participantPools, participantPools \cup {pool})
  /\ saveSetupPools(Append(linkedPoolIds, pool), activePoolIds)
  /\ Sends({"list", "setup"}, {"list", "setup"})
  /\ UNCHANGED <<athletes, completed, shown, viewingPoolId, editing, lastId>>

(* The page turns away from the pool if it shows it; to none and back to it if there is no other, until it
   has heard of the setup. *)
Unlink(pool, docs) ==
  LET ids == Remove(linkedPoolIds, pool)
  IN /\ saveSetupPools(ids, activePoolIds \ {pool})
     /\ IF viewingPoolId = pool
        THEN /\ viewingPoolId' = Settled(First(ids), linkedPoolIds)
             /\ shown' = Turned(shown, First(ids))
             /\ Sends(docs \cup {"pool"}, {"list", "setup"})
        ELSE UNCHANGED <<viewingPoolId, shown>> /\ Sends(docs, {"list", "setup"})

unlinkPool(pool) ==
  /\ Input
  /\ pool \in ToSet(linkedPoolIds)
  /\ Unlink(pool, {"setup"})
  /\ UNCHANGED <<participantPools, athletes, completed, editing, lastId, usedPools>>

(* In the list only; a pool deleted meanwhile stays deleted. *)
renamePool(pool) ==
  /\ Input
  /\ pool \in shown.list
  /\ Sends({"list"}, {})
  /\ UNCHANGED <<participantPools, setup, athletes, completed, shown, viewingPoolId, editing, lastId, usedPools>>

deletePool(pool) ==
  /\ Input
  /\ pool \in shown.list
  /\ participantPools' \in Written("list", participantPools, participantPools \ {pool})
  /\ IF pool \in ToSet(linkedPoolIds)
     THEN Unlink(pool, {"list", "setup"})
     ELSE UNCHANGED <<setup, viewingPoolId, shown>> /\ Sends({"list"}, {"list", "setup"})
  /\ UNCHANGED <<athletes, completed, editing, lastId, usedPools>>

toggleActivePool(pool) ==
  /\ Input
  /\ pool \in ToSet(linkedPoolIds)
  /\ saveSetupPools(linkedPoolIds,
       IF pool \in activePoolIds THEN activePoolIds \ {pool} ELSE activePoolIds \cup {pool})
  /\ Sends({"setup"}, {"list", "setup"})
  /\ UNCHANGED <<participantPools, athletes, completed, shown, viewingPoolId, editing, lastId, usedPools>>

-----------------------------------------------------------------------------
(* The athletes of the pool shown. *)

(* As long as those shown are of another pool nothing is sent, or the change of that one, if the socket is
   open and the revisions are the same. *)
saveParticipants(next) ==
  /\ viewingPoolId # NoPool
  /\ LET list == athletes[viewingPoolId]
     IN \E written \in IF shown.heard THEN Written("pool", list, next)
                       ELSE IF shown.copy THEN {list, Patched(list, shown.athletes, next)} ELSE {list} :
          athletes' = [athletes EXCEPT ![viewingPoolId] = written]
  /\ Sends({"pool"}, {})
  /\ UNCHANGED <<participantPools, setup, completed, shown, viewingPoolId, usedPools>>

Merge(rows) == saveParticipants(mergeParticipants(shown.athletes, rows)) /\ lastId' = lastId + Len(rows)

addParticipant(row) == Input /\ Merge(<<row>>) /\ UNCHANGED editing

handleImport(mode, rows) ==
  /\ Input
  /\ \/ mode = "merge" /\ Merge(rows)
     \/ mode = "replace" /\ saveParticipants(toParticipants(rows)) /\ lastId' = lastId + Len(rows)
  /\ UNCHANGED editing

removeParticipant(a) ==
  /\ Input
  /\ saveParticipants(SelectSeq(shown.athletes, LAMBDA x : x.id # a.id))
  /\ UNCHANGED <<lastId, editing>>

(* The row in which an athlete is edited stays open whatever else the page does. *)
beginEdit(a, draft) ==
  /\ viewingPoolId # NoPool
  /\ editing' = Athlete(a.id, draft)
  /\ UNCHANGED <<participantPools, setup, athletes, completed, shown, stale, viewingPoolId, lastId, usedPools, behind, inputs, others>>

cancelEdit ==
  /\ editing' = NotEditing
  /\ UNCHANGED <<participantPools, setup, athletes, completed, shown, stale, viewingPoolId, lastId, usedPools, behind, inputs, others>>

saveEdit ==
  /\ Input
  /\ saveParticipants([i \in DOMAIN shown.athletes |->
       IF shown.athletes[i].id = editing.id THEN editing ELSE shown.athletes[i]])
  /\ editing' = NotEditing
  /\ UNCHANGED lastId

-----------------------------------------------------------------------------
(* The page hears of a document and renders; if the pool it shows is no longer linked, it turns to the
   first one that is.  A document of a pool that lacks fields it completes at once, and hears of that. *)
Hear(doc) ==
  LET pool == Settled(viewingPoolId, setup.linked)
      turns == doc = "setup" /\ pool # viewingPoolId
      heard == CASE doc = "list" -> [shown EXCEPT !.list = participantPools]
                 [] doc = "setup" -> [shown EXCEPT !.setup = setup]
                 [] doc = "pool" -> [shown EXCEPT !.athletes = athletes[viewingPoolId], !.heard = TRUE, !.copy = TRUE]
      completes == doc = "pool" /\ viewingPoolId \notin completed
  IN /\ doc \in stale
     /\ IF turns
        THEN viewingPoolId' = pool /\ shown' = Turned(heard, pool) /\ stale' = (stale \ {doc, "pool"}) \cup (IF pool = NoPool THEN {} ELSE {"pool"})
        ELSE UNCHANGED viewingPoolId /\ shown' = heard /\ stale' = IF completes THEN stale ELSE stale \ {doc}
     /\ completed' = IF completes THEN completed \cup {viewingPoolId} ELSE completed
     /\ UNCHANGED <<participantPools, setup, athletes, editing, lastId, usedPools, behind, inputs, others>>

(* Another page, which does the same to documents it has heard of. *)
OtherPage ==
  /\ Other
  /\ \/ /\ \E pool \in participantPools :
             /\ participantPools' = participantPools \ {pool}
             /\ setup' = [linked |-> Remove(setup.linked, pool), active |-> setup.active \ {pool}]
             /\ stale' = stale \cup (IF setup' = setup THEN {"list"} ELSE {"list", "setup"})
        /\ UNCHANGED <<athletes, lastId>>
     \/ /\ \E active \in SUBSET ToSet(setup.linked) : setup' = [setup EXCEPT !.active = active]
        /\ stale' = stale \cup {"setup"}
        /\ UNCHANGED <<participantPools, athletes, lastId>>
     \/ /\ viewingPoolId # NoPool
        /\ \E row \in Typed : athletes' = [athletes EXCEPT ![viewingPoolId] = mergeParticipants(@, <<row>>)]
        /\ lastId' = lastId + 1
        /\ stale' = stale \cup {"pool"}
        /\ UNCHANGED <<participantPools, setup>>
  /\ UNCHANGED <<completed, shown, viewingPoolId, editing, usedPools, behind>>

Init ==
  /\ LET first == CHOOSE p \in Pools : TRUE IN
       /\ participantPools = {first} /\ usedPools = {first}
       /\ setup = [linked |-> <<first>>, active |-> {}]
       /\ athletes = [p \in Pools |-> IF p = first
                                      THEN [i \in DOMAIN FirstRows |-> Athlete(i, FirstRows[i])] ELSE <<>>]
       /\ viewingPoolId = first
       /\ shown = [list |-> {first}, setup |-> setup, athletes |-> athletes[first], copy |-> TRUE, heard |-> TRUE]
       /\ completed = {first}
  /\ stale = {} /\ editing = NotEditing /\ lastId = Len(FirstRows) /\ behind = FALSE /\ inputs = 0 /\ others = 0

(* The dialog with all pools, the field that adds one to the setup, the list of those of the setup. *)
ManagePools(pool) == renamePool(pool) \/ deletePool(pool)
AddPool(pool) == linkExistingPool(pool) \/ createAndLinkPool(pool)
PoolRow(pool) == turnTo(pool) \/ unlinkPool(pool) \/ toggleActivePool(pool)

(* The row of an athlete, and the last one for a new athlete. *)
AthleteRow(a, row) ==
  \/ beginEdit(a, row)
  \/ editing.id = a.id /\ (saveEdit \/ cancelEdit)
  \/ editing.id # a.id /\ removeParticipant(a)
NewAthleteRow(row) == addParticipant(row)

Next ==
  \/ \E pool \in Pools : ManagePools(pool) \/ AddPool(pool) \/ PoolRow(pool)
  \/ \E row \in Typed : NewAthleteRow(row) \/ \E a \in ToSet(shown.athletes) : AthleteRow(a, row)
  \/ \E mode \in {"merge", "replace"}, rows \in Imports : handleImport(mode, rows)
  \/ \E doc \in stale : Hear(doc)
  \/ OtherPage

Spec == Init /\ [][Next]_poolVars

-----------------------------------------------------------------------------
(* Types. *)
TypeOK ==
  /\ participantPools \subseteq usedPools /\ usedPools \subseteq Pools
  /\ \A s \in {setup, shown.setup} : ToSet(s.linked) \subseteq usedPools /\ s.active \subseteq ToSet(s.linked)
  /\ DOMAIN athletes = Pools
  /\ \A list \in {athletes[p] : p \in Pools} \cup {shown.athletes} :
       /\ IsInjective([i \in DOMAIN list |-> list[i].id])
       /\ \A a \in ToSet(list) : a.id \in 1 .. lastId /\ [bib |-> a.bib, name |-> a.name] \in Rows
  /\ stale \subseteq {"list", "setup", "pool"}
  /\ viewingPoolId \in ToSet(linkedPoolIds) \/ (viewingPoolId = NoPool /\ linkedPoolIds = <<>>)

(* Two documents say the same: a pool linked with the setup is in the list of pools, as long as no
   change of the page was made of an older copy of one of the two.  Each change of both is two writes. *)
LinksKnown == behind \/ ToSet(setup.linked) \subseteq participantPools

UniqueBibs(list) ==
  \A i, j \in DOMAIN list : i # j /\ list[i].bib # NoBib => list[i].bib # list[j].bib

(* At most one athlete of a list has changed or is gone. *)
OthersKept(list, next) ==
  LET gone == ToSet(list) \ ToSet(next)
  IN /\ Cardinality(gone) <= 1
     /\ \A a \in ToSet(next) \ ToSet(list) : \E b \in gone : a.id = b.id

(* Whoever adds athletes, or imports a file that gives no bib twice, gives no bib twice: athletes are
   recognised before they are added, whatever the page has heard of the pool.  Only an edit by hand can,
   or what is entered before the document of the pool has come. *)
BibsStayUnique ==
  lastId' # lastId /\ (shown.heard \/ others' # others) => \A p \in Pools : UniqueBibs(athletes[p]) => UniqueBibs(athletes'[p])

(* Saving or removing one athlete leaves the others of the pool as they are, also when the page has
   turned to other pools since the edit was begun, if it has rendered the pool. *)
OthersStay ==
  lastId' = lastId /\ "pool" \notin stale =>
    \A p \in Pools : OthersKept(athletes[p], athletes'[p])
=============================================================================
