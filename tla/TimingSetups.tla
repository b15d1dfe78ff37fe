------------------------------ MODULE TimingSetups ------------------------------
(***************************************************************************)
(* The two pages of the timing area on which is entered where decoders     *)
(* stand: TimingDecodersPage edits the register of decoders, one document, *)
(* and TimingSetupsPage the setups, of which the names are one document    *)
(* and each setup is another, with the timing points of a track and the    *)
(* decoder of each.  What is typed is a draft until it is saved, and as    *)
(* everywhere a write is a patch on the revision the page has heard of,    *)
(* refused if there is a newer one.  While the socket of a setup is open   *)
(* but its document has not come, the page still holds the one before, and *)
(* a patch on that one's revision may be taken for the setup chosen.       *)
(*                                                                         *)
(* One page is open.  Left out: names of points, tracks and decoders,      *)
(* clock offsets but one value, the least lap time, ports, lost            *)
(* connections, and the addresses in the points of old setups with the     *)
(* check that no two are the same.                                         *)
(***************************************************************************)
EXTENDS Integers, FiniteSets, SequencesExt

CONSTANTS
  Setups, NoSetup,
  FirstSetups,             \* id -> document of those there are at first
  SetupNames, Unlisted,    \* names typed
  TimingPoints,                  \* ids of timing points
  NewDistance,             \* metres to a new point
  TypedDistances, TypedLengths,
  NoId, NoIp, Addresses,
  FirstRegister,           \* entries: [id, backend, ip, offset, hardwareId]
  FoundDecoders,                   \* by the scan: [hardwareId, ip]
  MaxInputs,               \* bound: what the operator does
  MaxOthers                \* bound: what others write

VARIABLES
  timingPage,    \* which is open: "setups" or "decoders"
  setupNames,    \* the list: id -> name
  setupDocs,     \* id -> [name, trackId, lengthM, points, pools]
  sessionSetup,  \* setup of the measurement
  register,      \* sequence of decoders
  connected,     \* decoders that shall be connected
  setupId,       \* the setup chosen
  namesShown, namesUnheard,       \* the page's copy of the list; is that of an older revision?
  setupShown, setupUnheard,       \* that of a setup: [of, doc]; of none since another was chosen
  registerShown, registerUnheard, \* that of the register
  draft,         \* of the setup
  touched,       \* ghost: what the operator has changed in it
  decoderDraft,  \* of a decoder: the fields of the dialog
  deleting,      \* decoder to be removed, when that is confirmed
  inputs, others

setupsVars == <<timingPage, setupNames, setupDocs, sessionSetup, register, connected, setupId, namesShown, namesUnheard,
                setupShown, setupUnheard, registerShown, registerUnheard, draft, touched, decoderDraft, deleting,
                inputs, others>>

Input == inputs < MaxInputs /\ inputs' = inputs + 1 /\ UNCHANGED others
Other == others < MaxOthers /\ others' = others + 1 /\ UNCHANGED inputs

Nameless == "" \* name of a setup nobody has saved
Absent == [name |-> Nameless, trackId |-> FALSE, lengthM |-> -1, points |-> <<>>, pools |-> 0]
Nothing == [of |-> NoSetup, doc |-> Absent]
NoDraft == [name |-> Nameless, lengthM |-> -1, points |-> <<>>]

createLiveTrackingSetupDocument == [Absent EXCEPT !.lengthM = 0]

Listed(names) == {id \in Setups : names[id] # Unlisted}
PointsOf(points) == {points[i].id : i \in DOMAIN points}
Ids(decoders) == {decoders[i].id : i \in DOMAIN decoders}

-----------------------------------------------------------------------------
(* The timing points of a setup. *)

makeTimingDecoderAddressId(backend, ip) == [backend |-> backend, ip |-> ip]

resolveTimingPointDecoderId(point) ==
  IF point.decoder # NoId THEN point.decoder ELSE makeTimingDecoderAddressId("ammc", NoIp)

(* In their order, the first at the origin. *)
normalizeTimingPoints(points) ==
  LET sorted == SortSeq(points, LAMBDA p, q : p.order < q.order)
  IN [i \in DOMAIN sorted |->
        [sorted[i] EXCEPT !.order = i,
                          !.distanceFromPrevious = IF i = 1 \/ @ < 0 THEN 0 ELSE @]]

(* Mutant of absolutePosition: the distance from the point before. *)
ownDistance(points, i) == points[i].distanceFromPrevious

absolutePosition(points, i) == FoldLeft(LAMBDA sum, p : sum + p.distanceFromPrevious, 0, SubSeq(points, 1, i))

(* The page's points are normalized: nothing is wrong with their order. *)
validateLiveTrackingTrack(lengthM, points) ==
  LET goals == {i \in DOMAIN points : points[i].role = "start_finish" /\ points[i].enabled}
      wrong == [track_length_invalid |-> lengthM <= 0,
                timing_points_missing |-> points = <<>>,
                duplicate_id |-> Cardinality(PointsOf(points)) # Len(points),
                start_finish_count |-> points # <<>> /\ Cardinality(goals) # 1,
                distance_invalid |-> \E i \in DOMAIN points : (i = 1) # (points[i].distanceFromPrevious = 0),
                exceeds_track_length |-> lengthM > 0 /\ \E i \in DOMAIN points : absolutePosition(points, i) > lengthM]
  IN {issue \in DOMAIN wrong : wrong[issue]}

(* The page's list: what is wrong with the track, and points without a decoder of the register. *)
Issues ==
  validateLiveTrackingTrack(draft.lengthM, normalizeTimingPoints(draft.points))
    \cup {"decoder" : i \in {j \in DOMAIN draft.points :
                               draft.points[j].enabled /\ draft.points[j].decoder \notin Ids(registerShown)}}

-----------------------------------------------------------------------------
(* TimingSetupsPage *)

toDraft(doc) ==
  [name |-> doc.name, lengthM |-> doc.lengthM,
   points |-> LET points == normalizeTimingPoints(doc.points)
              IN [i \in DOMAIN points |-> [points[i] EXCEPT !.decoder = resolveTimingPointDecoderId(points[i])]]]

(* A track without id is given another one each time the draft is made. *)
dirty ==
  /\ setupShown # Nothing /\ draft # NoDraft
  /\ toDraft(setupShown.doc) # draft \/ ~setupShown.doc.trackId

OnSetups == Input /\ timingPage = "setups"

(* Every write of the list notes its time, so there is always something to send. *)
UpdateList(names) ==
  /\ setupNames' = IF namesUnheard THEN setupNames ELSE names
  /\ namesUnheard' = TRUE

(* The copy and the draft stay until the other document comes. *)
Choose(id) ==
  /\ setupId' = id /\ setupShown' = [setupShown EXCEPT !.of = NoSetup]
  /\ UNCHANGED <<setupUnheard, draft, touched>>

(* No setup: that of the measurement is chosen, and its document asked for again. *)
ChooseNone ==
  /\ setupId' = sessionSetup
  /\ setupShown' = Nothing /\ setupUnheard' = FALSE
  /\ draft' = NoDraft /\ touched' = {}

DecodersAside == UNCHANGED <<timingPage, sessionSetup, register, connected, registerShown, registerUnheard, decoderDraft, deleting>>

SelectSetup(id) ==
  /\ OnSetups
  /\ id \in Listed(namesShown) \ {setupId}
  /\ Choose(id)
  /\ UNCHANGED <<setupNames, setupDocs, namesShown, namesUnheard>> /\ DecodersAside

ClearSetup ==
  /\ OnSetups
  /\ setupId # NoSetup
  /\ ChooseNone
  /\ UNCHANGED <<setupNames, setupDocs, namesShown, namesUnheard>> /\ DecodersAside

createSetup(id, name) ==
  /\ OnSetups
  /\ setupDocs[id] = Absent /\ id \notin Listed(setupNames) \cup Listed(namesShown) \cup {setupId, sessionSetup}
  /\ UpdateList([namesShown EXCEPT ![id] = name])
  /\ Choose(id)
  /\ UNCHANGED <<setupDocs, namesShown>> /\ DecodersAside

(* In the dialog, for any setup: only the list. *)
onRename(id, name) ==
  /\ OnSetups
  /\ id \in Listed(namesShown) /\ namesShown[id] # name
  /\ UpdateList([namesShown EXCEPT ![id] = name])
  /\ UNCHANGED <<setupDocs, setupId, namesShown, setupShown, setupUnheard, draft, touched>> /\ DecodersAside

(* Its document stays. *)
onDelete(id) ==
  /\ OnSetups
  /\ id \in Listed(namesShown)
  /\ UpdateList([namesShown EXCEPT ![id] = Unlisted])
  /\ IF id = setupId THEN ChooseNone ELSE UNCHANGED <<setupId, setupShown, setupUnheard, draft, touched>>
  /\ UNCHANGED <<setupDocs, namesShown>> /\ DecodersAside

(* The fields of the draft. *)
Edit(next, what) ==
  /\ OnSetups
  /\ draft # NoDraft /\ next # draft
  /\ draft' = next /\ touched' = touched \cup what
  /\ UNCHANGED <<setupNames, setupDocs, setupId, namesShown, namesUnheard, setupShown, setupUnheard>> /\ DecodersAside

WithPoints(points) == [draft EXCEPT !.points = normalizeTimingPoints(points)]

EditTrack ==
  \/ \E name \in SetupNames : Edit([draft EXCEPT !.name = name], {"name"})
  \/ \E lengthM \in TypedLengths : Edit([draft EXCEPT !.lengthM = lengthM], {"lengthM"})

patchPoint(i, point) == Edit(WithPoints([draft.points EXCEPT ![i] = point]), {draft.points[i].id})

EditPoint(i) ==
  LET p == draft.points[i]
  IN \/ \E role \in {"start_finish", "split"} : patchPoint(i, [p EXCEPT !.role = role])
     \/ \E m \in TypedDistances : patchPoint(i, [p EXCEPT !.distanceFromPrevious = m])
     \/ \E id \in {NoId} \cup Ids(registerShown) : patchPoint(i, [p EXCEPT !.decoder = id])
     \/ patchPoint(i, [p EXCEPT !.enabled = ~@])

RemovePoint(i) == Edit(WithPoints(RemoveAt(draft.points, i)), {draft.points[i].id})

addPoint(id) ==
  LET order == Len(draft.points) + 1
      point == [id |-> id, role |-> IF order = 1 THEN "start_finish" ELSE "split", decoder |-> NoId, order |-> order,
                distanceFromPrevious |-> IF order = 1 THEN 0 ELSE NewDistance, enabled |-> TRUE]
  IN /\ id \notin PointsOf(draft.points) \cup PointsOf(setupShown.doc.points)
     /\ Edit(WithPoints(Append(draft.points, point)), {id})

Saved(doc) ==
  [doc EXCEPT !.name = draft.name, !.trackId = TRUE, !.lengthM = draft.lengthM,
              !.points = normalizeTimingPoints(draft.points)]

(* The patch that makes `new` of `old`, applied to another document: field by field, and the points place by
   place, then those appended or cut off.  As a whole it does not apply where there is no such place. *)
Patched(doc, old, new) ==
  LET other(was, is, here) == [f \in DOMAIN here |-> IF was[f] # is[f] THEN is[f] ELSE here[f]]
      both == DOMAIN old.points \cap DOMAIN new.points
      points == [i \in DOMAIN doc.points |->
                   IF i \in both THEN other(old.points[i], new.points[i], doc.points[i]) ELSE doc.points[i]]
      appended == SubSeq(new.points, Len(old.points) + 1, Len(new.points))
      resized == SubSeq(points, 1, Cardinality(both)) \o appended \o SubSeq(points, Len(old.points) + 1, Len(points))
      same == Len(new.points) = Len(old.points)
  IN IF \/ ~({i \in both : old.points[i] # new.points[i]} \subseteq DOMAIN doc.points)
        \/ ~same /\ Len(doc.points) < Len(old.points)
     THEN doc
     ELSE [other(old, new, doc) EXCEPT !.points = IF same THEN points ELSE resized]

(* Until the document of the setup is there nothing of it is sent, or the change of the one before, if the
   socket is open and the revisions are the same; the list is written all the same, with the name of the
   draft there is. *)
Save ==
  /\ OnSetups
  /\ dirty
  /\ LET written == setupShown.of = setupId
         there == IF setupDocs[setupId] = Absent THEN createLiveTrackingSetupDocument ELSE setupDocs[setupId]
         outcomes == IF ~written THEN {setupDocs[setupId], Patched(there, setupShown.doc, Saved(setupShown.doc))}
                     ELSE {IF setupUnheard THEN setupDocs[setupId] ELSE Saved(setupShown.doc)}
     IN /\ \E doc \in outcomes : setupDocs' = [setupDocs EXCEPT ![setupId] = doc]
        /\ setupUnheard' = (setupUnheard \/ written)
  /\ IF setupId \in Listed(namesShown) THEN UpdateList([namesShown EXCEPT ![setupId] = draft.name])
     ELSE UNCHANGED <<setupNames, namesUnheard>>
  /\ UNCHANGED <<setupId, namesShown, setupShown, draft, touched>> /\ DecodersAside

(* Of the document of the setup, which the server makes when it is asked for one that is not there: the
   draft is made anew, what was typed is gone. *)
HearSetup ==
  /\ timingPage = "setups" /\ setupId # NoSetup
  /\ setupShown.of # setupId \/ setupUnheard
  /\ LET doc == IF setupDocs[setupId] = Absent THEN createLiveTrackingSetupDocument ELSE setupDocs[setupId]
     IN /\ setupDocs' = [setupDocs EXCEPT ![setupId] = doc]
        /\ setupShown' = [of |-> setupId, doc |-> doc]
        /\ draft' = toDraft(doc) /\ touched' = {}
  /\ setupUnheard' = FALSE
  /\ UNCHANGED <<setupNames, setupId, namesShown, namesUnheard, inputs, others>> /\ DecodersAside

HearList ==
  /\ namesUnheard
  /\ namesShown' = setupNames /\ namesUnheard' = FALSE
  /\ UNCHANGED <<setupNames, setupDocs, setupId, setupShown, setupUnheard, draft, touched, inputs, others>> /\ DecodersAside

SetupsPage ==
  \/ \E id \in Setups :
       \/ SelectSetup(id) \/ onDelete(id)
       \/ \E name \in SetupNames : createSetup(id, name) \/ onRename(id, name)
  \/ ClearSetup \/ EditTrack \/ Save \/ HearSetup \/ HearList
  \/ \E i \in DOMAIN draft.points : EditPoint(i) \/ RemovePoint(i)
  \/ \E id \in TimingPoints : addPoint(id)

-----------------------------------------------------------------------------
(* TimingDecodersPage *)

NoDecoderDraft == [id |-> NoId, backend |-> "none", ip |-> NoIp, offset |-> 0, hardwareId |-> NoId]
emptyDraft == [NoDecoderDraft EXCEPT !.backend = "p3"]

OnDecoders == Input /\ timingPage = "decoders"
SetupsAside == UNCHANGED <<timingPage, setupNames, setupDocs, sessionSetup, connected, setupId, namesShown, namesUnheard,
                           setupShown, setupUnheard, draft, touched>>

UpdateDecoders(decoders) ==
  /\ register' = IF registerUnheard THEN register ELSE decoders
  /\ registerUnheard' = TRUE

(* One dialog at a time covers the page. *)
OpenDialog(fields) ==
  /\ OnDecoders
  /\ decoderDraft = NoDecoderDraft /\ deleting = NoId
  /\ decoderDraft' = fields
  /\ UNCHANGED <<register, registerShown, registerUnheard, deleting>> /\ SetupsAside

NewDecoder == OpenDialog(emptyDraft)

EditDecoder(i) ==
  LET d == registerShown[i]
  IN OpenDialog([id |-> d.id, backend |-> d.backend, ip |-> d.ip, offset |-> d.offset, hardwareId |-> d.hardwareId])

(* What the scan has found, if its id and its address are none of the register.  One without id counts as
   known as soon as one of the register has none. *)
TakeOver(found) ==
  /\ found.hardwareId \notin Ids(registerShown) \cup {registerShown[i].hardwareId : i \in DOMAIN registerShown}
  /\ makeTimingDecoderAddressId("p3", found.ip) \notin Ids(registerShown)
  /\ OpenDialog([emptyDraft EXCEPT !.ip = found.ip, !.hardwareId = found.hardwareId])

(* The kind belongs to the id: only that of a new decoder can be changed. *)
DecoderDialog ==
  /\ OnDecoders
  /\ decoderDraft # NoDecoderDraft
  /\ \/ \E ip \in Addresses \ {decoderDraft.ip} : decoderDraft' = [decoderDraft EXCEPT !.ip = ip]
     \/ decoderDraft.id = NoId /\ decoderDraft' = [decoderDraft EXCEPT !.backend = IF @ = "p3" THEN "ammc" ELSE "p3"]
     \/ decoderDraft' = [decoderDraft EXCEPT !.offset = 1 - @]
     \/ decoderDraft' = NoDecoderDraft
  /\ UNCHANGED <<register, registerShown, registerUnheard, deleting>> /\ SetupsAside

fromDraft(fields) ==
  [id |-> IF fields.id # NoId THEN fields.id
          ELSE IF fields.hardwareId # NoId THEN fields.hardwareId
          ELSE makeTimingDecoderAddressId(fields.backend, fields.ip),
   backend |-> fields.backend, ip |-> fields.ip, offset |-> fields.offset, hardwareId |-> fields.hardwareId]

(* In the place of the entry with its id, or at the end. *)
WithDecoder(decoders, decoder) ==
  IF decoder.id \in Ids(decoders)
  THEN [i \in DOMAIN decoders |-> IF decoders[i].id = decoder.id THEN decoder ELSE decoders[i]]
  ELSE Append(decoders, decoder)

SaveDecoder ==
  /\ OnDecoders
  /\ decoderDraft # NoDecoderDraft /\ decoderDraft.ip # NoIp
  /\ UpdateDecoders(WithDecoder(registerShown, fromDraft(decoderDraft)))
  /\ decoderDraft' = NoDecoderDraft
  /\ UNCHANGED <<registerShown, deleting>> /\ SetupsAside

(* Asked before it is done; only the button looks at the connections. *)
DeleteDecoder(id) ==
  /\ OnDecoders
  /\ decoderDraft = NoDecoderDraft /\ deleting = NoId
  /\ id \in Ids(registerShown) \ connected
  /\ deleting' = id
  /\ UNCHANGED <<register, registerShown, registerUnheard, decoderDraft>> /\ SetupsAside

ConfirmDelete ==
  /\ OnDecoders
  /\ deleting # NoId /\ deleting' = NoId
  /\ \/ UNCHANGED <<register, registerUnheard>>
     \/ UpdateDecoders(SelectSeq(registerShown, LAMBDA d : d.id # deleting))
  /\ UNCHANGED <<registerShown, decoderDraft>> /\ SetupsAside

(* On either page. *)
HearRegister ==
  /\ registerUnheard
  /\ registerShown' = register /\ registerUnheard' = FALSE
  /\ UNCHANGED <<register, decoderDraft, deleting, inputs, others>> /\ SetupsAside

DecodersPage ==
  \/ NewDecoder \/ DecoderDialog \/ SaveDecoder \/ ConfirmDelete \/ HearRegister
  \/ \E i \in DOMAIN registerShown : EditDecoder(i) \/ DeleteDecoder(registerShown[i].id)
  \/ \E found \in FoundDecoders : TakeOver(found)

-----------------------------------------------------------------------------
(* Others: the same pages elsewhere, the page of the participants, which writes the pools of a setup, the
   measurement and the connections. *)

OtherSetup ==
  /\ timingPage = "setups"
  /\ \E id \in DOMAIN FirstSetups :
       /\ \/ setupDocs' = [setupDocs EXCEPT ![id].pools = 1 - @]
          \/ LET points == toDraft(setupDocs[id]).points
             IN \E i \in DOMAIN points :
                  setupDocs' = [setupDocs EXCEPT ![id].trackId = TRUE,
                                                 ![id].points = [points EXCEPT ![i].enabled = ~@]]
       /\ setupUnheard' = (setupUnheard \/ setupShown.of = id)
  /\ UNCHANGED <<setupNames, sessionSetup, register, connected, setupId, namesUnheard, registerUnheard>>

OtherList ==
  /\ timingPage = "setups"
  /\ \E id \in Listed(setupNames) : \E name \in ({Unlisted} \cup SetupNames) \ {setupNames[id]} :
       setupNames' = [setupNames EXCEPT ![id] = name]
  /\ namesUnheard' = TRUE
  /\ UNCHANGED <<setupDocs, sessionSetup, register, connected, setupId, setupUnheard, registerUnheard>>

(* A page without a setup takes that of the measurement. *)
OtherSession ==
  /\ timingPage = "setups"
  /\ \E id \in Listed(setupNames) \ {sessionSetup} :
       sessionSetup' = id /\ setupId' = IF setupId = NoSetup THEN id ELSE setupId
  /\ UNCHANGED <<setupNames, setupDocs, register, connected, namesUnheard, setupUnheard, registerUnheard>>

OtherRegister ==
  /\ \E i \in DOMAIN register : register' \in {RemoveAt(register, i), [register EXCEPT ![i].offset = 1 - @]}
  /\ registerUnheard' = TRUE
  /\ UNCHANGED <<setupNames, setupDocs, sessionSetup, connected, setupId, namesUnheard, setupUnheard>>

OtherConnection ==
  /\ timingPage = "decoders"
  /\ \E id \in Ids(register) \ connected : connected' = connected \cup {id}
  /\ UNCHANGED <<setupNames, setupDocs, sessionSetup, register, setupId, namesUnheard, setupUnheard, registerUnheard>>

Others ==
  /\ Other
  /\ OtherSetup \/ OtherList \/ OtherSession \/ OtherRegister \/ OtherConnection
  /\ UNCHANGED <<timingPage, namesShown, setupShown, registerShown, draft, touched, decoderDraft, deleting>>

Init ==
  /\ timingPage \in {"setups", "decoders"}
  /\ setupNames = [id \in Setups |-> IF id \in DOMAIN FirstSetups THEN FirstSetups[id].name ELSE Unlisted]
  /\ setupDocs = [id \in Setups |-> IF id \in DOMAIN FirstSetups THEN FirstSetups[id] ELSE Absent]
  /\ sessionSetup \in {NoSetup} \cup DOMAIN FirstSetups
  /\ timingPage = "decoders" => sessionSetup = NoSetup
  /\ setupId = sessionSetup
  /\ register = FirstRegister /\ connected = {}
  /\ namesShown = setupNames /\ namesUnheard = FALSE
  /\ setupShown = Nothing /\ setupUnheard = FALSE
  /\ registerShown = register /\ registerUnheard = FALSE
  /\ draft = NoDraft /\ touched = {}
  /\ decoderDraft = NoDecoderDraft /\ deleting = NoId
  /\ inputs = 0 /\ others = 0

Next == SetupsPage \/ DecodersPage \/ Others

-----------------------------------------------------------------------------
(* The variables have their types. *)
TypeOK ==
  /\ timingPage \in {"setups", "decoders"}
  /\ LET NamesInList == SetupNames \cup {Nameless, Unlisted} \cup {FirstSetups[id].name : id \in DOMAIN FirstSetups}
     IN setupNames \in [Setups -> NamesInList] /\ namesShown \in [Setups -> NamesInList]
  /\ {namesUnheard, setupUnheard, registerUnheard} \subseteq BOOLEAN
  /\ setupId \in Setups \cup {NoSetup} /\ sessionSetup \in Setups \cup {NoSetup}
  /\ \A id \in Setups : PointsOf(setupDocs[id].points) \subseteq TimingPoints
  /\ touched \subseteq TimingPoints \cup {"name", "lengthM"}
  /\ inputs \in 0 .. MaxInputs /\ others \in 0 .. MaxOthers

(* What the worker needs of a setup: one line of start and finish, the points apart from each other and
   within the track, and behind each one that is enabled a decoder of the register. *)
Runnable(doc) ==
  LET points == {doc.points[i] : i \in DOMAIN doc.points}
      before(p) == {q \in points : q.order <= p.order /\ \E r \in points : r.order < q.order}
      at(p) == FoldSet(LAMBDA q, sum : sum + q.distanceFromPrevious, 0, before(p))
  IN /\ Cardinality({p \in points : p.enabled /\ p.role = "start_finish"}) = 1
     /\ \A p \in points : at(p) <= doc.lengthM
     /\ \A p, q \in points : p # q => at(p) # at(q)
     /\ \A p \in points : p.enabled => p.decoder \in Ids(register)

(* A setup of which the page says that it is complete, with nothing left to save, can be run as it is
   stored: however its points came about, by additions, removals and changes of several pages.  If the
   page has heard of everything. *)
CompleteIsRunnable ==
  timingPage = "setups" /\ setupShown.of = setupId /\ ~setupUnheard /\ ~registerUnheard /\ draft # NoDraft /\ ~dirty
    /\ Issues = {}
    => Runnable(setupDocs[setupId])

(* Once its document has come, saving a setup writes that and no other, and changes in it what the operator
   has changed since the page heard of it the last time, no point, name or length another page has written
   meanwhile, and no pools.  A point that becomes the first loses its distance. *)
SavedAsEdited ==
  \A id \in Setups :
    setupDocs'[id] # setupDocs[id] /\ others' = others /\ setupDocs[id] # Absent /\ setupShown.of = setupId =>
      LET was == setupDocs[id]
          is == setupDocs'[id]
          without(p, first) == [p EXCEPT !.order = 0, !.distanceFromPrevious = IF first THEN 0 ELSE @,
                                         !.decoder = resolveTimingPointDecoderId(p)]
          untouched(doc) == {without(doc.points[i], is.points # <<>> /\ doc.points[i].id = is.points[1].id) :
                               i \in {j \in DOMAIN doc.points : doc.points[j].id \notin touched}}
      IN /\ setupShown.of = id
         /\ is.pools = was.pools
         /\ is.name # was.name => "name" \in touched
         /\ is.lengthM # was.lengthM => "lengthM" \in touched
         /\ untouched(is) = untouched(was)

(* In the list a step of the page changes one setup at most, and in the register one decoder, whose place it
   keeps; every decoder has an id of its own. *)
OneEntry ==
  others' = others =>
    /\ Cardinality({id \in Setups : setupNames'[id] # setupNames[id]}) <= 1
    /\ Cardinality(Ids(register')) = Len(register')
    /\ \/ \E i \in DOMAIN register : register' = RemoveAt(register, i)
       \/ /\ Len(register') >= Len(register)
          /\ \A i \in DOMAIN register : register'[i].id = register[i].id
          /\ Cardinality({i \in DOMAIN register' : i \notin DOMAIN register \/ register'[i] # register[i]}) <= 1
=============================================================================
