----------------------------- MODULE LiveScoring -----------------------------
(***************************************************************************)
(* What the scoring panels have in common: the race and the live feed they *)
(* show, the sync switch, the hints liveScoring.ts derives from the feed,  *)
(* the dialog for missing starters with the save that waits for them, and  *)
(* the writes of the page.  EliminationScoring and PointsScoring extend    *)
(* it; one of them is on the page at a time.                               *)
(*                                                                         *)
(* Left out: names and nations, what the starter list marks, the standings.*)
(***************************************************************************)
EXTENDS Integers, SequencesExt, FiniteSetsExt

CONSTANTS
  Bibs,      \* all bibs
  Entered,   \* bibs of the race's first starters
  Feeds,     \* what the timing system may show: [laps, toGo, order, done (bib -> completed laps)]
  MaxInputs, \* bound: what the operator does
  MaxNews    \* bound: changes of the feed and of others' documents

VARIABLES
  panelStarters, \* starters of the race
  outOfRace,     \* blockedBibs: riders taken out
  liveFeed,
  syncEnabled,
  asked,         \* missingDialogBibs, {} when the dialog is closed
  pendingSave,   \* pendingSaveRef: what the form held, or NoSave
  awaited,       \* pendingSaveBibs
  inFlight,      \* writes of the page, all based on the revision it shows
  inputs, news

panelVars == <<panelStarters, outOfRace, liveFeed, syncEnabled, asked, pendingSave, awaited, inFlight,
               inputs, news>>

Click == inputs < MaxInputs /\ inputs' = inputs + 1
Input == asked = {} /\ Click \* the dialog is modal
News == news < MaxNews /\ news' = news + 1

NoSave == <<>>
NoFeed == [laps |-> -1, toGo |-> -1, order |-> <<>>, done |-> <<>>] \* no active race

AtLeastOne(n) == Max({1, n})

-----------------------------------------------------------------------------
(* deriveLiveScoring: what the feed f means when the riders in `gone` are out. *)

(* liveTopBibs, whoever is out *)
TopBibs(f) == SubSeq(f.order, 1, Min({3, Len(f.order)}))

RacingBibs(f, gone) == ToSet(f.order) \ gone

(* liveLastEligibleBibs: from the back *)
LastEligible(f, gone) ==
  LET racing == SelectSeq(f.order, LAMBDA b : b \notin gone)
  IN SubSeq(Reverse(racing), 1, Min({2, Len(racing)}))

(* lappedIndicationByBib *)
Deficit(f, gone, bib) == Max({f.done[b] : b \in RacingBibs(f, gone)}) - f.done[bib]

(* Mutant of SuggestDnfGroup: riders just saved are proposed again. *)
SuggestDnfGroupAgain(f, gone, excluded) ==
  LET lapped == {b \in RacingBibs(f, gone) : Deficit(f, gone, b) > 0}
  IN {b \in lapped : \A c \in lapped : Deficit(f, gone, b) >= Deficit(f, gone, c)}

SuggestDnfGroup(f, gone, excluded) ==
  LET lapped == {b \in RacingBibs(f, gone) \ excluded : Deficit(f, gone, b) > 0}
  IN {b \in lapped : \A c \in lapped : Deficit(f, gone, b) >= Deficit(f, gone, c)}

SuggestDnsBibs(f, gone, excluded) ==
  IF f.laps < 2 THEN {} ELSE {b \in RacingBibs(f, gone) \ excluded : f.done[b] = 0}

DnfLapForDeficit(f, deficit) == AtLeastOne(AtLeastOne(f.laps) - deficit)

-----------------------------------------------------------------------------
(* The missing starters. *)

(* A save with riders who are no starters opens the dialog. *)
AskFor(save, missing) ==
  /\ asked' = missing /\ pendingSave' = save /\ awaited' = {}
  /\ UNCHANGED <<panelStarters, outOfRace, liveFeed, syncEnabled, inFlight, news>>

(* handleDialogCancel *)
CancelStarters ==
  /\ Click /\ asked # {}
  /\ asked' = {} /\ pendingSave' = NoSave /\ awaited' = {}
  /\ UNCHANGED <<panelStarters, outOfRace, liveFeed, syncEnabled, inFlight, news>>

(* handleDialogCreateAndSave: who has become a starter meanwhile is not created again, and with
   nobody to create the save does not wait. *)
CreateStarters ==
  /\ Click /\ asked # {} /\ ~asked \subseteq panelStarters
  /\ asked' = {} /\ awaited' = asked
  /\ inFlight' = Append(inFlight, [starters |-> asked \ panelStarters, out |-> {}, sprint |-> 0])
  /\ UNCHANGED <<panelStarters, outOfRace, liveFeed, syncEnabled, pendingSave, news>>

NothingToCreate(write) ==
  /\ Click /\ asked # {} /\ asked \subseteq panelStarters
  /\ asked' = {} /\ pendingSave' = NoSave /\ awaited' = {}
  /\ inFlight' = Append(inFlight, write)
  /\ UNCHANGED <<panelStarters, outOfRace, liveFeed, syncEnabled, news>>

(* The starters a pending save waits for are there. *)
Awaited(starters) == awaited # {} /\ awaited \subseteq starters

-----------------------------------------------------------------------------
(* The race of the page changes: the page's writes were made on the revision before it and are
   refused.  A pending save is made when its starters have come. *)
RaceChanges(starters, gone, write) ==
  /\ panelStarters' = starters /\ outOfRace' = gone
  /\ UNCHANGED <<liveFeed, syncEnabled, asked, inputs>>
  /\ IF Awaited(starters)
     THEN inFlight' = <<write>> /\ pendingSave' = NoSave /\ awaited' = {}
     ELSE inFlight' = <<>> /\ UNCHANGED <<pendingSave, awaited>>

(* The first write of the page is accepted, *)
OwnWrite(write) ==
  /\ inFlight # <<>>
  /\ RaceChanges(panelStarters \cup Head(inFlight).starters, outOfRace \cup Head(inFlight).out, write)
  /\ UNCHANGED news

(* or another operator takes a rider out of the race or back, or enters a starter. *)
OtherOperator(bib, write) ==
  /\ News
  /\ \/ RaceChanges(panelStarters, outOfRace \cup {bib}, write)
     \/ RaceChanges(panelStarters, outOfRace \ {bib}, write)
     \/ RaceChanges(panelStarters \cup {bib}, outOfRace, write)

-----------------------------------------------------------------------------
(* The list of the starters is memoized: it renders again when what it shows changes, and only
   then takes over the click handler of the panel. *)

(* The marks of the feed f: starters it does not list, riders behind. *)
Marks(f) ==
  [missing |-> IF f.order = <<>> THEN {} ELSE panelStarters \ ToSet(f.order),
   behind |-> {<<b, Deficit(f, outOfRace, b)>> : b \in {c \in RacingBibs(f, outOfRace) : Deficit(f, outOfRace, c) > 0}}]

FeedRenewsList == Marks(liveFeed') # Marks(liveFeed)

(* The status of a rider who is out is a new object with every change of the race. *)
RaceRenewsList == panelStarters' # panelStarters \/ outOfRace' # outOfRace \/ outOfRace' # {}

-----------------------------------------------------------------------------
FeedArrives(f) ==
  /\ News /\ f # liveFeed
  /\ liveFeed' = f
  /\ UNCHANGED <<panelStarters, outOfRace, syncEnabled, asked, pendingSave, awaited, inFlight, inputs>>

ToggleSync ==
  /\ Input
  /\ syncEnabled' = ~syncEnabled
  /\ UNCHANGED <<panelStarters, outOfRace, liveFeed, asked, pendingSave, awaited, inFlight, news>>

PanelInit ==
  /\ panelStarters = Entered /\ outOfRace = {} /\ liveFeed = NoFeed /\ syncEnabled = FALSE
  /\ asked = {} /\ pendingSave = NoSave /\ awaited = {} /\ inFlight = <<>>
  /\ inputs = 0 /\ news = 0

PanelTypeOK ==
  /\ panelStarters \subseteq Bibs /\ outOfRace \subseteq Bibs /\ liveFeed \in Feeds \cup {NoFeed}
  /\ syncEnabled \in BOOLEAN /\ asked \subseteq Bibs /\ awaited \subseteq Bibs
  /\ inputs \in 0 .. MaxInputs /\ news \in 0 .. MaxNews
=============================================================================
