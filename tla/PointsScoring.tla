----------------------------- MODULE PointsScoring -----------------------------
(***************************************************************************)
(* PointsScoring: the panel with which an operator records the points of a *)
(* sprint, for two riders in a lap and for three at the finish.  With sync *)
(* on it proposes the riders in front, the lap and, at the end of the      *)
(* race, the finish, until the operator changes something.                 *)
(*                                                                         *)
(* The effects of a render are part of the step that causes it.  A click   *)
(* on a starter runs the handler of the list's last render.  Left out:     *)
(* focus, the typing of a bib digit by digit, the change of race while the *)
(* panel is open, restored sprints.                                        *)
(***************************************************************************)
EXTENDS LiveScoring

VARIABLES
  fields,     \* the panel's state, see InitialFields
  lastSprint  \* the last lap with a recorded sprint

pointsVars == <<panelVars, fields, lastSprint>>

Points == 1 .. 3 \* a field for each number of points

NoRiders == [p \in Points |-> 0]
Nobody == [p \in Points |-> FALSE]

InitialFields ==
  [mode |-> "lap", lap |-> 1,
   sel |-> NoRiders,          \* sel3P, sel2P, sel1P
   typed |-> Nobody,          \* ghost: did the operator fill it?
   auto |-> NoRiders,         \* auto3PBibRef, auto2PBibRef, auto1PBibRef
   overridden |-> FALSE,      \* syncOverwriteBlockedRef
   click |-> [mode |-> "lap", sel |-> NoRiders], \* onStarterClickRef: what its render showed
   enterRequested |-> FALSE]  \* enterRequestedRef

FieldsOf(mode) == IF mode = "finish" THEN Points ELSE {1, 2}

(* The list of the starters marks the riders in the fields, `fd` after `before`. *)
Picked(fd) == {fd.sel[p] : p \in Points} \ {0}

ListShows(fd) == [fd EXCEPT !.click = [mode |-> fd.mode, sel |-> fd.sel]]

Listed(before, fd) == IF Picked(fd) # Picked(before) THEN ListShows(fd) ELSE fd

DefaultLap == AtLeastOne(lastSprint' + 1)

-----------------------------------------------------------------------------
(* The effects: the lap, *)
WithLap(fd, f) == IF f.laps < 0 THEN fd ELSE [fd EXCEPT !.lap = AtLeastOne(f.laps)]

(* the finish when no lap is left, *)
WithFinish(fd, f) == IF f.toGo = 0 THEN [fd EXCEPT !.mode = "finish"] ELSE fd

(* Mutant of WithRiders: an own choice is replaced. *)
WithRidersAlways(fd, f, gone) ==
  LET top == TopBibs(f)
      place(p) == IF fd.mode = "finish" THEN 4 - p ELSE 3 - p
      replaced == {p \in FieldsOf(fd.mode) : place(p) \in DOMAIN top /\ top[place(p)] \notin gone}
  IN [fd EXCEPT !.sel = [p \in Points |-> IF p \in replaced THEN top[place(p)] ELSE @[p]],
                !.auto = [p \in Points |-> IF p \in replaced THEN top[place(p)] ELSE @[p]],
                !.typed = [p \in Points |-> p \notin replaced /\ @[p]]]

(* the riders in front, in fields that are empty or hold the last proposal. *)
WithRiders(fd, f, gone) ==
  LET top == TopBibs(f)
      place(p) == IF fd.mode = "finish" THEN 4 - p ELSE 3 - p
      own(p) == fd.sel[p] = 0 \/ (fd.auto[p] # 0 /\ fd.sel[p] = fd.auto[p])
      replaced == {p \in FieldsOf(fd.mode) : place(p) \in DOMAIN top /\ top[place(p)] \notin gone /\ own(p)}
  IN [fd EXCEPT !.sel = [p \in Points |-> IF p \in replaced THEN top[place(p)] ELSE @[p]],
                !.auto = [p \in Points |-> IF p \in replaced THEN top[place(p)] ELSE @[p]],
                !.typed = [p \in Points |-> p \notin replaced /\ @[p]]]

Followed(fd) == syncEnabled' /\ ~fd.overridden

Proposed(fd) == IF Followed(fd) THEN Listed(fd, WithRiders(fd, liveFeed', outOfRace')) ELSE fd

Finished(fd) == IF Followed(fd) THEN WithFinish(fd, liveFeed') ELSE fd

(* requestSyncPrefill *)
Prefill(fd, sync) == IF sync THEN [fd EXCEPT !.overridden = FALSE, !.auto = NoRiders] ELSE fd

ResetInputs(fd) == Listed(fd, [fd EXCEPT !.sel = NoRiders, !.typed = Nobody, !.auto = NoRiders])

(* What happens when the panel is opened and when sync is switched. *)
Started(fd) ==
  LET again == Prefill(fd, syncEnabled')
      lap == IF syncEnabled' THEN WithLap(again, liveFeed') ELSE [again EXCEPT !.lap = DefaultLap]
  IN Proposed(Finished(lap))

-----------------------------------------------------------------------------
(* The operator. *)

FieldsOnly == UNCHANGED <<panelStarters, outOfRace, liveFeed, syncEnabled, asked, pendingSave, awaited, inFlight,
                          news, lastSprint>>

Set(fd, p, bib) ==
  Listed(fd, [fd EXCEPT !.sel[p] = bib, !.typed[p] = bib # 0, !.auto[p] = 0, !.overridden = TRUE])

(* commitSave with what the fields held when it was asked for. *)
CommitSave(fd, s) == ResetInputs(Prefill([fd EXCEPT !.enterRequested = FALSE], s.sync))

Recorded(s) == [starters |-> {}, out |-> {}, sprint |-> s.lap]

PendingWrite == IF pendingSave = NoSave THEN NoSave ELSE Recorded(pendingSave)

CanSave ==
  \A p \in FieldsOf(fields.mode) : fields.sel[p] # 0 /\ fields.sel[p] \notin outOfRace

ThisSave == [mode |-> fields.mode, lap |-> AtLeastOne(fields.lap), sel |-> fields.sel, sync |-> syncEnabled]

Missing == {fields.sel[p] : p \in Points} \ (panelStarters \cup {0})

(* saveAsync, called from a render that shows the fields as they are before the step; `shown` is
   what the step itself makes of them. *)
SaveAsync(shown) ==
  IF ~CanSave THEN FieldsOnly /\ fields' = shown
  ELSE IF Missing # {} THEN AskFor(ThisSave, Missing) /\ UNCHANGED lastSprint /\ fields' = shown
  ELSE /\ inFlight' = Append(inFlight, Recorded(ThisSave))
       /\ UNCHANGED <<panelStarters, outOfRace, liveFeed, syncEnabled, asked, pendingSave, awaited, news, lastSprint>>
       /\ fields' = Proposed(CommitSave(shown, ThisSave))

Save ==
  /\ Input /\ CanSave
  /\ SaveAsync(fields)

(* A rider is chosen in a field; one who is out of the race cannot be. *)
Choose(p, bib) ==
  /\ Input
  /\ p \in FieldsOf(fields.mode) /\ bib \notin outOfRace
  /\ FieldsOnly
  /\ fields' = Set(fields, p, bib)

(* Enter in the last field: with the rider already chosen there it saves; after a bib that could
   be the beginning of another or is unknown it chooses the rider only. *)
EnterLast(bib) ==
  /\ Input
  /\ LET requested == [fields EXCEPT !.enterRequested = TRUE, !.overridden = TRUE, !.auto[1] = 0]
     IN IF fields.sel[1] = bib THEN SaveAsync(requested)
        ELSE FieldsOnly /\ fields' = IF bib \in outOfRace
                                     THEN Listed(fields, [requested EXCEPT !.sel[1] = 0, !.typed[1] = FALSE])
                                     ELSE Set(requested, 1, bib)

(* The last field is emptied: onSelect(null), with the enter that was asked for still pending. *)
EmptyLast ==
  /\ Input
  /\ fields.sel[1] # 0
  /\ IF fields.enterRequested THEN SaveAsync(Set(fields, 1, 0)) ELSE FieldsOnly /\ fields' = Set(fields, 1, 0)

(* handleStarterClick: the next free field, from the most points down, of those its render showed. *)
ClickStarter(bib) ==
  /\ Input
  /\ bib \in panelStarters \ outOfRace
  /\ \A p \in Points : fields.click.sel[p] # bib
  /\ LET free == {p \in FieldsOf(fields.click.mode) : fields.click.sel[p] = 0}
     IN free # {} /\ fields' = Set(fields, Max(free), bib)
  /\ FieldsOnly

Swap ==
  /\ Input
  /\ syncEnabled /\ fields.mode = "lap" /\ fields.sel[1] # 0 /\ fields.sel[2] # 0
  /\ FieldsOnly
  /\ LET swapped == Set(Set(fields, 2, fields.sel[1]), 1, fields.sel[2])
     IN fields' = [swapped EXCEPT !.click = fields.click]

EditLap(n) ==
  /\ Input
  /\ FieldsOnly
  /\ fields' = [fields EXCEPT !.lap = n, !.overridden = @ \/ syncEnabled]

(* Leaving the finish empties its field; with no lap to go the panel returns to it at once. *)
SetMode(m) ==
  /\ Input
  /\ m # fields.mode
  /\ FieldsOnly
  /\ LET left == IF m = "finish" THEN fields
                 ELSE [fields EXCEPT !.sel[3] = 0, !.typed[3] = FALSE, !.auto[3] = 0]
     IN fields' = Proposed(Finished(Listed(fields, [left EXCEPT !.mode = m])))

Clear ==
  /\ Input
  /\ FieldsOnly
  /\ fields' = Proposed(ResetInputs(Prefill([fields EXCEPT !.enterRequested = FALSE], syncEnabled)))

(* handleSavePointsRemoval *)
RemovePoints ==
  /\ Input
  /\ lastSprint > 0
  /\ inFlight' = Append(inFlight, [starters |-> {}, out |-> {}, sprint |-> 0])
  /\ UNCHANGED <<panelStarters, outOfRace, liveFeed, syncEnabled, asked, pendingSave, awaited, news, lastSprint,
                 fields>>

SaveCreated ==
  /\ NothingToCreate(PendingWrite)
  /\ fields' = Proposed(CommitSave(fields, pendingSave))
  /\ UNCHANGED lastSprint

Dialog == (CreateStarters \/ CancelStarters) /\ UNCHANGED <<fields, lastSprint>>

SwitchSync ==
  /\ ToggleSync
  /\ UNCHANGED lastSprint
  /\ fields' = Started(fields)

(* Another tab is opened and this one again: a new panel. *)
Reopen ==
  /\ Input
  /\ pendingSave' = NoSave /\ awaited' = {}
  /\ UNCHANGED <<panelStarters, outOfRace, liveFeed, syncEnabled, asked, inFlight, news, lastSprint>>
  /\ fields' = Started([InitialFields EXCEPT !.lap = DefaultLap])

-----------------------------------------------------------------------------
(* What comes from outside: a feed moves the lap and the mode only when it brings another value. *)

Feed(f) ==
  /\ FeedArrives(f) /\ UNCHANGED lastSprint
  /\ LET listed == IF FeedRenewsList THEN ListShows(fields) ELSE fields
         lap == IF Followed(fields) /\ f.laps # liveFeed.laps THEN WithLap(listed, f) ELSE listed
     IN fields' = Proposed(IF f.toGo # liveFeed.toGo THEN Finished(lap) ELSE lap)

AfterRaceChange(renews) ==
  LET listed == IF renews THEN ListShows(fields) ELSE fields
  IN fields' = Proposed(IF Awaited(panelStarters') THEN CommitSave(listed, pendingSave) ELSE listed)

Own ==
  /\ OwnWrite(PendingWrite)
  /\ lastSprint' = Max({lastSprint, Head(inFlight).sprint})
  /\ AfterRaceChange(TRUE) \* new starters, or new points

Other(bib) == OtherOperator(bib, PendingWrite) /\ UNCHANGED lastSprint /\ AfterRaceChange(RaceRenewsList)

Init ==
  /\ PanelInit
  /\ fields = InitialFields /\ lastSprint = 0

Next ==
  \/ \E bib \in Bibs : EnterLast(bib) \/ ClickStarter(bib) \/ Other(bib)
  \/ \E p \in Points, bib \in Bibs \cup {0} : (p # 1 \/ bib # 0) /\ Choose(p, bib)
  \/ EmptyLast \/ Swap \/ Save \/ SaveCreated \/ RemovePoints \/ Dialog
  \/ \E n \in 1 .. 2 : EditLap(n)
  \/ \E m \in {"lap", "finish"} : SetMode(m)
  \/ Clear \/ SwitchSync \/ Reopen
  \/ \E f \in Feeds : Feed(f)
  \/ Own

Spec == Init /\ [][Next]_pointsVars

-----------------------------------------------------------------------------
(* The variables have their types. *)
TypeOK ==
  /\ PanelTypeOK
  /\ fields.mode \in {"lap", "finish"} /\ fields.lap \in Nat \ {0}
  /\ fields.sel \in [Points -> Bibs \cup {0}] /\ fields.auto \in [Points -> Bibs \cup {0}]
  /\ fields.typed \in [Points -> BOOLEAN]
  /\ lastSprint \in Nat

(* The riders the operator has entered, and the lap, are changed by nothing that comes from
   outside, whatever sync does, except by a save that waited for its starters. *)
EntriesStay ==
  inputs' = inputs /\ pendingSave' = pendingSave =>
    /\ \A p \in Points : fields.typed[p] => fields'.typed[p] /\ fields'.sel[p] = fields.sel[p]
    /\ ~syncEnabled \/ fields.overridden => fields'.lap = fields.lap
OperatorDecides == [][EntriesStay]_pointsVars

(* The riders the panel proposes are always those in front at present, in the order of the points,
   in lap and in finish mode, as long as they are in the race. *)
ProposalsRight ==
  syncEnabled /\ ~fields.overridden =>
    \A p \in FieldsOf(fields.mode) :
      LET place == Cardinality({q \in FieldsOf(fields.mode) : q >= p})
      IN fields.sel[p] # 0 /\ ~fields.typed[p] /\ fields.auto[p] # 0
           /\ place \in DOMAIN liveFeed.order /\ liveFeed.order[place] \notin outOfRace =>
         fields.sel[p] = liveFeed.order[place]
=============================================================================
