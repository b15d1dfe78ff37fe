-------------------------- MODULE EliminationScoring --------------------------
(***************************************************************************)
(* EliminationScoring: the panel with which an operator takes riders out   *)
(* of a race (eliminations, DNF, DNS, DSQ).  With sync on it proposes      *)
(* riders and a lap from the live feed, until the operator changes         *)
(* something.  A save is a write of the page; with a rider who is no       *)
(* starter it waits for the starter the operator agrees to create.  A      *)
(* click on a starter runs the handler of the list's last render.          *)
(*                                                                         *)
(* The effects of a render are part of the step that causes it.  Left out: *)
(* focus, error texts, the typing of a bib digit by digit, the empty row   *)
(* at the end of a list.                                                   *)
(***************************************************************************)
EXTENDS LiveScoring

VARIABLE form \* the panel's state, see InitialForm

formVars == <<panelVars, form>>

(* A row of the form; `typed` is a ghost: did the operator fill it? *)
Row(bib, typed) == [bib |-> bib, typed |-> typed]
EmptyRow == Row(0, FALSE)

ElimModes == {"elim1", "elim2"}
Count(mode) == IF mode = "elim2" THEN 2 ELSE 1

InitialForm(sync) ==
  [mode |-> "elim1", lap |-> 1, rows |-> <<EmptyRow>>,
   click |-> [mode |-> "elim1", rows |-> <<EmptyRow>>, sync |-> sync], \* onStarterClickRef: what its render showed
   saved |-> {},            \* recentlySavedBibs
   overridden |-> FALSE,    \* syncOverwriteBlockedRef
   autoBibs |-> <<0, 0>>,   \* autoPrefillBibsRef
   autoList |-> <<>>]       \* autoPrefillListBibsRef

-----------------------------------------------------------------------------
(* The bibs, the one with i - 1 smaller ones in place i. *)
Ascending(bibs) == [i \in 1 .. Cardinality(bibs) |-> CHOOSE b \in bibs : Cardinality({c \in bibs : c < b}) = i - 1]

(* parsedBibs: the rows' bibs, each once. *)
RowBibs(rows) ==
  FoldLeft(LAMBDA seen, r : IF r.bib = 0 \/ r.bib \in ToSet(seen) THEN seen ELSE Append(seen, r.bib), <<>>, rows)

Padded(rows, n) == [i \in 1 .. n |-> IF i \in DOMAIN rows THEN rows[i] ELSE EmptyRow]

(* The effect that keeps the lap on the live lap. *)
WithLap(fm, f) == IF fm.mode = "DNF" \/ f.laps < 0 THEN fm ELSE [fm EXCEPT !.lap = AtLeastOne(f.laps)]

(* The prefill of the elimination modes: rows that are empty or hold the last proposal. *)
WithElimBibs(fm, f, gone) ==
  LET last == LastEligible(f, gone)
      rows == Padded(fm.rows, Count(fm.mode))
      replaced == {i \in DOMAIN rows \cap DOMAIN last :
                     rows[i].bib = 0 \/ (fm.autoBibs[i] # 0 /\ rows[i].bib = fm.autoBibs[i])}
  IN IF fm.mode \notin ElimModes THEN fm
     ELSE [fm EXCEPT !.rows = [i \in DOMAIN rows |-> IF i \in replaced THEN Row(last[i], FALSE) ELSE rows[i]],
                     !.autoBibs = [i \in 1 .. 2 |-> IF i \in replaced THEN last[i] ELSE @[i]]]

(* The lap of the DNF mode: that of the riders proposed, or of those proposed before. *)
WithDnfLap(fm, f, gone) ==
  LET group == SuggestDnfGroup(f, gone, gone \cup fm.saved)
      named == IF group # {} THEN group ELSE ToSet(fm.autoList)
      deficits == {Deficit(f, gone, b) : b \in named \cap RacingBibs(f, gone)} \ {0}
  IN IF fm.mode # "DNF" \/ f.laps < 0 \/ Cardinality(deficits) # 1 THEN fm
     ELSE [fm EXCEPT !.lap = DnfLapForDeficit(f, Max(deficits))]

(* The prefill of the lists: as long as they are empty or hold the last proposal. *)
WithList(fm, f, gone) ==
  LET suggested == Ascending(IF fm.mode = "DNF" THEN SuggestDnfGroup(f, gone, gone \cup fm.saved)
                             ELSE SuggestDnsBibs(f, gone, gone \cup fm.saved))
      own == RowBibs(fm.rows) = fm.autoList \/ (suggested # <<>> /\ RowBibs(fm.rows) = <<>>)
  IN IF fm.mode \notin {"DNF", "DNS"} \/ ~own THEN fm
     ELSE [fm EXCEPT !.rows = [i \in DOMAIN suggested |-> Row(suggested[i], FALSE)],
                     !.autoList = suggested]

Resumed(fm) == [fm EXCEPT !.overridden = FALSE, !.autoBibs = <<0, 0>>, !.autoList = <<>>]

(* The form after the effects of a render. *)
Settled(fm, sync, f, gone) ==
  LET confirmed == [fm EXCEPT !.saved = @ \ gone]
  IN IF ~sync THEN Resumed(confirmed)
     ELSE IF confirmed.overridden THEN confirmed
     ELSE WithList(WithDnfLap(WithElimBibs(WithLap(confirmed, f), f, gone), f, gone), f, gone)

(* The list of the starters marks those in the rows, `fm` after `before`. *)
ListShows(fm) == [fm EXCEPT !.click = [mode |-> fm.mode, rows |-> fm.rows, sync |-> syncEnabled']]

Picked(fm) == ToSet(RowBibs(fm.rows)) \cap panelStarters'

Listed(before, fm) == IF Picked(fm) # Picked(before) THEN ListShows(fm) ELSE fm

(* The form `fm`, rendered and then settled. *)
Shows(fm) ==
  LET shown == Listed(form, fm)
  IN form' = Listed(shown, Settled(shown, syncEnabled', liveFeed', outOfRace'))

-----------------------------------------------------------------------------
(* The rows after a save made in mode `then`. *)
ClearedRows(then, mode) ==
  IF mode \in ElimModes THEN Padded(<<>>, IF then \in ElimModes THEN Count(then) ELSE 1) ELSE <<>>

(* commitSave with what the form held when it was asked for. *)
CommitSave(fm, s) ==
  LET resumed == IF s.sync THEN Resumed(fm) ELSE fm
  IN [resumed EXCEPT !.rows = ClearedRows(s.mode, fm.mode),
                     !.lap = IF s.mode \in ElimModes /\ ~s.sync THEN s.lap + 1 ELSE @,
                     !.saved = IF s.mode \in {"DNF", "DNS"} THEN @ \cup ToSet(s.bibs) ELSE @]

(* markManualSyncOverride *)
Overridden == [form EXCEPT !.overridden = syncEnabled]

(* The activities of a save. *)
Recorded(s) == [starters |-> {}, out |-> ToSet(s.bibs), sprint |-> 0]

PendingWrite == IF pendingSave = NoSave THEN NoSave ELSE Recorded(pendingSave)

-----------------------------------------------------------------------------
(* The operator. *)

FormOnly == UNCHANGED <<panelStarters, outOfRace, liveFeed, syncEnabled, asked, pendingSave, awaited, inFlight, news>>

SetMode(m) ==
  /\ Input /\ m # form.mode
  /\ FormOnly
  /\ Shows([form EXCEPT !.mode = m,
                        !.rows = IF m \in ElimModes THEN Padded(@, Count(m)) ELSE <<>>])

EditLap(n) ==
  /\ Input /\ form.mode \in ElimModes \cup {"DNF"}
  /\ FormOnly
  /\ Shows([Overridden EXCEPT !.lap = n])

(* A bib is typed or chosen in row i, or the row is emptied (0). *)
TypeBib(i, bib) ==
  /\ Input
  /\ i \in 1 .. IF form.mode \in ElimModes THEN Min({Count(form.mode), Len(form.rows)}) ELSE Len(form.rows) + 1
  /\ bib # 0 \/ i \in DOMAIN form.rows
  /\ FormOnly
  /\ LET row == IF bib = 0 THEN EmptyRow ELSE Row(bib, TRUE)
     IN Shows([Overridden EXCEPT !.rows = IF i \in DOMAIN @ THEN [@ EXCEPT ![i] = row] ELSE Append(@, row),
                                 !.autoBibs = IF form.mode \in ElimModes THEN [@ EXCEPT ![i] = 0] ELSE @,
                                 !.autoList = IF form.mode \in {"DNF", "DNS"} THEN <<>> ELSE @])

(* handleStarterClick: the starter is put into the row that was the first empty one when the list
   rendered, with as many rows as the mode had then. *)
ClickStarter(bib) ==
  /\ Input /\ bib \in panelStarters \ outOfRace
  /\ FormOnly
  /\ LET seen == form.click
         elim == seen.mode \in ElimModes
         offered == 1 .. IF elim THEN Min({Count(seen.mode), Len(seen.rows)}) ELSE Len(seen.rows) + 1
         free == {i \in offered : i \notin DOMAIN seen.rows \/ seen.rows[i].bib = 0}
         full == Padded(form.rows, IF elim THEN Count(seen.mode) ELSE Max({Len(form.rows), Min(free)}))
         marked == [form EXCEPT !.overridden = @ \/ seen.sync]
     IN IF bib \in ToSet(RowBibs(seen.rows)) \/ free = {} THEN Shows(marked)
        ELSE Shows([marked EXCEPT
                      !.rows = [full EXCEPT ![Min(free)] = Row(bib, TRUE)],
                      !.autoBibs = IF elim THEN [@ EXCEPT ![Min(free)] = 0] ELSE @,
                      !.autoList = IF seen.mode \in {"DNF", "DNS"} THEN <<>> ELSE @])

CanSave ==
  LET bibs == RowBibs(form.rows)
  IN /\ ToSet(bibs) \cap outOfRace = {}
     /\ IF form.mode \in ElimModes THEN Len(bibs) = Count(form.mode) ELSE bibs # <<>>

ThisSave == [mode |-> form.mode, lap |-> AtLeastOne(form.lap), bibs |-> RowBibs(form.rows), sync |-> syncEnabled]

(* saveIfPossible: at once, *)
Save ==
  /\ Input /\ CanSave
  /\ ToSet(ThisSave.bibs) \subseteq panelStarters
  /\ inFlight' = Append(inFlight, Recorded(ThisSave))
  /\ UNCHANGED <<panelStarters, outOfRace, liveFeed, syncEnabled, asked, pendingSave, awaited, news>>
  /\ Shows(CommitSave(form, ThisSave))

(* or after the question whether starters are to be created. *)
SaveMissing ==
  /\ Input /\ CanSave
  /\ ~ToSet(ThisSave.bibs) \subseteq panelStarters
  /\ AskFor(ThisSave, ToSet(ThisSave.bibs) \ panelStarters)
  /\ UNCHANGED form

SaveCreated == NothingToCreate(PendingWrite) /\ Shows(CommitSave(form, pendingSave))

Clear ==
  /\ Input /\ FormOnly
  /\ Shows([(IF syncEnabled THEN Resumed(form) ELSE form) EXCEPT
              !.saved = {}, !.rows = ClearedRows(form.mode, form.mode)])

(* Another tab is opened and this one again: a new panel. *)
Reopen ==
  /\ Input
  /\ pendingSave' = NoSave /\ awaited' = {}
  /\ UNCHANGED <<panelStarters, outOfRace, liveFeed, syncEnabled, asked, inFlight, news>>
  /\ LET new == InitialForm(syncEnabled)
     IN form' = Listed(new, Settled(new, syncEnabled, liveFeed, outOfRace))

-----------------------------------------------------------------------------
(* What comes from outside. *)

(* The list may render before the effects. *)
ShowsAfter(renews, fm) ==
  LET listed == IF renews THEN ListShows(form) ELSE form
  IN Shows([fm EXCEPT !.click = listed.click])

AfterRaceChange ==
  ShowsAfter(RaceRenewsList, IF Awaited(panelStarters') THEN CommitSave(form, pendingSave) ELSE form)

Init == PanelInit /\ form = InitialForm(FALSE)

Next ==
  \/ \E m \in ElimModes \cup {"DNF", "DNS", "DSQ"} : SetMode(m)
  \/ \E n \in 1 .. 2 : EditLap(n)
  \/ \E i \in 1 .. 2, bib \in Bibs \cup {0} : TypeBib(i, bib)
  \/ \E bib \in Bibs : ClickStarter(bib)
  \/ Save \/ SaveMissing \/ SaveCreated
  \/ (CreateStarters \/ CancelStarters) /\ UNCHANGED form
  \/ Clear \/ Reopen
  \/ ToggleSync /\ Shows(form)
  \/ \E f \in Feeds : FeedArrives(f) /\ ShowsAfter(FeedRenewsList, form)
  \/ (OwnWrite(PendingWrite) \/ \E bib \in Bibs : OtherOperator(bib, PendingWrite)) /\ AfterRaceChange

Spec == Init /\ [][Next]_formVars

-----------------------------------------------------------------------------
(* The variables have their types. *)
TypeOK ==
  /\ PanelTypeOK
  /\ form.mode \in ElimModes \cup {"DNF", "DNS", "DSQ"} /\ form.lap \in Nat \ {0}
  /\ form.saved \subseteq Bibs
  /\ \A i \in DOMAIN form.rows : form.rows[i] \in {EmptyRow} \cup {Row(b, t) : b \in Bibs, t \in BOOLEAN}

(* What the operator filled in row i. *)
TypedBib(rows, i) == IF i \in DOMAIN rows /\ rows[i].typed THEN rows[i].bib ELSE 0

(* What the operator has entered is changed by nothing that comes from outside, whatever sync does
   and however often the feed, the page's own writes or other operators change the proposals;
   except for a save that waited for its starters, which empties the form. *)
EntriesStay ==
  inputs' = inputs /\ pendingSave' = pendingSave =>
    /\ \A i \in DOMAIN form.rows \cup DOMAIN form'.rows : TypedBib(form'.rows, i) = TypedBib(form.rows, i)
    /\ ~syncEnabled \/ form.overridden => form'.lap = form.lap
OperatorDecides == [][EntriesStay]_formVars

(* The riders proposed for DNF or DNS are always those the present feed calls for: not out of the
   race and not just saved, for DNF the ones furthest behind with the lap they have completed (as
   long as one of those who are racing has the laps the feed shows), for DNS the ones without a lap. *)
ProposalsRight ==
  syncEnabled /\ ~form.overridden /\ form.autoList # <<>> /\ RowBibs(form.rows) = form.autoList =>
    LET bibs == ToSet(form.autoList)
        racing == ToSet(liveFeed.order) \ outOfRace
        laps(b) == liveFeed.done[b]
        others == racing \ (bibs \cup form.saved)
    IN /\ form.mode \in {"DNF", "DNS"} => bibs \subseteq racing \ form.saved
       /\ form.mode = "DNS" => bibs = {b \in racing \ form.saved : laps(b) = 0} /\ liveFeed.laps >= 2
       /\ form.mode = "DNF" =>
            /\ \A b \in bibs, c \in others : laps(b) < laps(c)
            /\ \A b, c \in bibs : laps(b) = laps(c)
            /\ (\E c \in racing : laps(c) = liveFeed.laps) /\ (\A c \in racing : laps(c) <= liveFeed.laps) =>
                 \A b \in bibs : form.lap = AtLeastOne(laps(b))
=============================================================================
