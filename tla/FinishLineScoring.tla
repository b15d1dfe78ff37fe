--------------------------- MODULE FinishLineScoring ---------------------------
(***************************************************************************)
(* FinishLineScoring: the panel in which an operator enters the riders in  *)
(* the order they cross the finish line, takes that order from the live    *)
(* feed, and corrects it by dragging rows.  The panel proposes the next    *)
(* rank.  A rider who is no starter is added when the starter the operator *)
(* agrees to create has come back from the server.                         *)
(*                                                                         *)
(* The effects of a render are part of the step that causes it.  A click   *)
(* on a starter runs the handler of the list's last render.  Left out:     *)
(* focus, error texts, finish times (an edit writes the rows as they are), *)
(* the question before everything is cleared, the deletion of starters.    *)
(***************************************************************************)
EXTENDS Integers, SequencesExt, FiniteSetsExt

CONSTANTS
  Bibs,      \* all bibs
  Entered,   \* bibs of the race's first starters
  Feeds,     \* what the timing system may show: [order, done (bib -> completed laps)] and more
  MaxRank,   \* bound: ranks typed
  MaxInputs, \* bound: what the operator does
  MaxNews    \* bound: what others do

VARIABLES
  arrivals, \* the race: [starters, out, rank], rank the finishRank by bib, 0 for none
  entry,    \* the panel's state, see InitialEntry
  sent,     \* the page's first write on the revision it shows, [starters, rank], or Nothing
  clicks, others

finishVars == <<arrivals, entry, sent, clicks, others>>

NoAdd == [bib |-> 0, rank |-> 0]
Nothing == <<>>

-----------------------------------------------------------------------------
(* Ranks. *)

Finishers(rank) == {b \in Bibs : rank[b] # 0}

(* finishers: the rows of the table *)
Rows(rank) ==
  SetToSortSeq(Finishers(rank), LAMBDA b, c : rank[b] < rank[c] \/ (rank[b] = rank[c] /\ b < c))

(* computeNextSuggestedRank *)
SuggestedRank(rank) ==
  LET last == Max({rank[b] : b \in Bibs})
  IN IF last = 0 THEN 1 ELSE last + Cardinality({b \in Bibs : rank[b] = last})

(* groupFinishersByFinishRank: the riders of one group have one place in the order of the groups, 0 for
   none.  Places are even, which leaves one before each group. *)
Groups(rank) == [b \in Bibs |-> 2 * rank[b]]

(* applyCompetitionRanking *)
CompetitionRanks(groups) ==
  [b \in Bibs |-> IF groups[b] = 0 THEN 0
                  ELSE 1 + Cardinality({c \in Bibs : groups[c] # 0 /\ groups[c] < groups[b]})]

(* onDrop: into the target's group, or as a group of its own before it. *)
Dropped(rank, dragged, target, tie) ==
  LET groups == Groups(rank)
  IN CompetitionRanks([groups EXCEPT ![dragged] = IF tie THEN groups[target] ELSE groups[target] - 1])

(* buildFinishResultsFromLive: no rank for riders without a lap or not in the feed. *)
LiveRanks(f) ==
  [b \in Bibs |-> IF b \in ToSet(f.order) /\ f.done[b] > 0 THEN CHOOSE i \in DOMAIN f.order : f.order[i] = b ELSE 0]

-----------------------------------------------------------------------------
(* The effects. *)

InitialEntry(rank) ==
  [rank |-> SuggestedRank(rank), \* rankInput, 0 for none
   click |-> [rank |-> 0, ranks |-> rank], \* onStarterClickRef: rankInput, still empty, and the rows of its render
   own |-> FALSE,                \* ghost: has the operator typed it?
   bib |-> 0,                    \* bibInput, 0 for none
   asked |-> 0,                  \* missingDialogBibs, 0 when the dialog is closed
   add |-> NoAdd,                \* pendingAddBib, pendingAddRank
   drag |-> 0]                   \* dragFromIndexRef, 0 for null

(* Mutant of Realigned: the rank follows the race while a bib is typed. *)
RealignedAlways(e, rank) ==
  IF e.asked # 0 \/ e.add # NoAdd THEN e ELSE [e EXCEPT !.rank = SuggestedRank(rank), !.own = FALSE]

(* The rank follows the race, unless a bib is typed, asked about or waited for. *)
Realigned(e, rank) ==
  IF e.bib # 0 \/ e.asked # 0 \/ e.add # NoAdd THEN e
  ELSE [e EXCEPT !.rank = SuggestedRank(rank), !.own = FALSE]

(* What the panel shows after it has written the ranks `next`; an emptied bib field runs the
   effect, with the ranks of before. *)
Onward(e, next) == [e EXCEPT !.rank = SuggestedRank(next), !.own = FALSE, !.bib = 0]

Emptied(next) ==
  LET e == Onward(entry, next) IN IF entry.bib # 0 THEN Realigned(e, arrivals.rank) ELSE e

(* The list of the starters marks those who have arrived and those who are out, the latter with a
   new object whenever the race changes. *)
RaceRenewsList(a) ==
  \/ a.starters # arrivals.starters \/ a.out # arrivals.out \/ a.out # {}
  \/ Finishers(a.rank) \cap a.starters # Finishers(arrivals.rank) \cap arrivals.starters

ListShows(e, rank) == [e EXCEPT !.click = [rank |-> e.rank, ranks |-> rank]]

(* The race of the page changes, and the writes made on the revision before are refused.  The
   rider who is waited for is added when the starter is there, unless another has added them. *)
RaceChanges(a) ==
  LET bib == entry.add.bib
      added == [a.rank EXCEPT ![bib] = entry.add.rank]
      listed == IF RaceRenewsList(a) THEN ListShows(entry, a.rank) ELSE entry
      done == [listed EXCEPT !.add = NoAdd]
  IN /\ arrivals' = a
     /\ IF bib = 0 \/ a.rank[bib] # 0 THEN sent' = Nothing /\ entry' = Realigned(done, a.rank)
        ELSE IF bib \notin a.starters THEN sent' = Nothing /\ entry' = listed
        ELSE /\ sent' = [starters |-> a.starters, rank |-> added]
             /\ entry' = Realigned(Onward(done, added), a.rank)

-----------------------------------------------------------------------------
(* The operator. *)

Click == clicks < MaxInputs /\ clicks' = clicks + 1 /\ UNCHANGED <<arrivals, others>>
Input == Click /\ entry.asked = 0 \* the dialog is modal

(* Of several writes on one revision the first is accepted, the others are refused. *)
Send(starters, rank) == sent' = IF sent = Nothing THEN [starters |-> starters, rank |-> rank] ELSE sent

Write(rank) == Send(arrivals.starters, rank)

TypeRank(n) ==
  /\ Input
  /\ entry' = [entry EXCEPT !.rank = n, !.own = TRUE]
  /\ UNCHANGED sent

TypeBib(bib) ==
  /\ Input
  /\ bib # entry.bib
  /\ entry' = Realigned([entry EXCEPT !.bib = bib], arrivals.rank)
  /\ UNCHANGED sent

(* requestAddBibFromText with the rank and the rows of the render it belongs to: `shown` is the
   panel if nothing comes of it, `after` if the rider is added. *)
RequestAdd(bib, rank, ranks, shown, after) ==
  IF rank = 0 \/ bib \in Finishers(ranks) \cup arrivals.out
  THEN UNCHANGED sent /\ entry' = shown
  ELSE IF bib \notin arrivals.starters
  THEN /\ entry' = [shown EXCEPT !.asked = bib, !.add = [bib |-> bib, rank |-> rank]]
       /\ UNCHANGED sent
  ELSE Write([ranks EXCEPT ![bib] = rank]) /\ entry' = after

WithNext(bib) == [arrivals.rank EXCEPT ![bib] = entry.rank]

(* The Add button, or Enter after a bib that was picked while it was typed. *)
Add ==
  /\ Input
  /\ entry.bib # 0
  /\ RequestAdd(entry.bib, entry.rank, arrivals.rank, entry, Emptied(WithNext(entry.bib)))

(* Enter after a bib that was not picked, as it could be the beginning of another: the field
   selects it as well, which puts it back. *)
EnterUnpicked ==
  /\ Input
  /\ entry.bib # 0
  /\ RequestAdd(entry.bib, entry.rank, arrivals.rank, entry,
                [Onward(entry, WithNext(entry.bib)) EXCEPT !.bib = entry.bib])

(* handleStarterClick of the list's last render *)
Clicked(bib) == [entry.click.ranks EXCEPT ![bib] = entry.click.rank]

ClickStarter(bib) ==
  /\ Input
  /\ bib \in arrivals.starters \ arrivals.out
  /\ RequestAdd(bib, entry.click.rank, entry.click.ranks, [entry EXCEPT !.bib = bib], Emptied(Clicked(bib)))

(* The marks of the live feed change: the list renders again. *)
FeedMarks == entry' = ListShows(entry, arrivals.rank) /\ UNCHANGED <<arrivals, sent, clicks, others>>

FillFromLive(f) ==
  /\ Input
  /\ f.order # <<>>
  /\ Write(LiveRanks(f)) /\ entry' = Emptied(LiveRanks(f))

ClearAll ==
  /\ Input
  /\ Finishers(arrivals.rank) # {}
  /\ Write([b \in Bibs |-> 0]) /\ entry' = Emptied([b \in Bibs |-> 0])

(* removeAt *)
TakeOff(bib) ==
  /\ Input
  /\ bib \in Finishers(arrivals.rank)
  /\ Write([arrivals.rank EXCEPT ![bib] = 0])
  /\ UNCHANGED entry

(* updateAt *)
EditTime ==
  /\ Input
  /\ Finishers(arrivals.rank) # {}
  /\ Write(arrivals.rank)
  /\ UNCHANGED entry

DragStart(i) ==
  /\ Input
  /\ i \in DOMAIN Rows(arrivals.rank)
  /\ entry' = [entry EXCEPT !.drag = i]
  /\ UNCHANGED sent

(* The rows are those of now, whatever row was dragged. *)
Drop(i, tie) ==
  LET rows == Rows(arrivals.rank)
      from == entry.drag
  IN /\ Input
     /\ from # 0 /\ i \in DOMAIN rows
     /\ entry' = [entry EXCEPT !.drag = 0]
     /\ IF from = i \/ from \notin DOMAIN rows THEN UNCHANGED sent
        ELSE Write(Dropped(arrivals.rank, rows[from], rows[i], tie))

(* handleDialogCreateAndAdd *)
CreateStarter ==
  /\ Click
  /\ entry.asked # 0
  /\ entry' = Realigned([entry EXCEPT !.asked = 0], arrivals.rank)
  /\ IF entry.asked \in arrivals.starters THEN UNCHANGED sent
     ELSE Send(arrivals.starters \cup {entry.asked}, arrivals.rank)

(* handleDialogCancel *)
CancelStarter ==
  /\ Click
  /\ entry.asked # 0
  /\ entry' = Realigned([entry EXCEPT !.asked = 0, !.add = NoAdd], arrivals.rank)
  /\ UNCHANGED sent

(* Another tab is opened and this one again: a new panel. *)
Reopen ==
  /\ Input
  /\ entry' = InitialEntry(arrivals.rank)
  /\ UNCHANGED sent

-----------------------------------------------------------------------------
(* The page's write is accepted, *)
OwnWrite ==
  /\ sent # Nothing
  /\ RaceChanges([arrivals EXCEPT !.starters = sent.starters, !.rank = sent.rank])
  /\ UNCHANGED <<clicks, others>>

(* or another operator changes the race. *)
OtherOperator(bib) ==
  /\ others < MaxNews /\ others' = others + 1
  /\ \/ RaceChanges([arrivals EXCEPT !.starters = @ \cup {bib}])
     \/ RaceChanges([arrivals EXCEPT !.starters = @ \ {bib}, !.rank[bib] = 0])
     \/ RaceChanges([arrivals EXCEPT !.out = @ \cup {bib}])
     \/ \E r \in 0 .. MaxRank : RaceChanges([arrivals EXCEPT !.rank[bib] = r])
  /\ UNCHANGED clicks

Init ==
  /\ arrivals = [starters |-> Entered, out |-> {}, rank |-> [b \in Bibs |-> 0]]
  /\ entry = InitialEntry(arrivals.rank)
  /\ sent = Nothing /\ clicks = 0 /\ others = 0

Next ==
  \/ \E n \in 0 .. MaxRank : TypeRank(n)
  \/ \E bib \in Bibs \cup {0} : TypeBib(bib)
  \/ Add \/ EnterUnpicked \/ ClearAll \/ EditTime \/ CreateStarter \/ CancelStarter \/ Reopen
  \/ \E bib \in Bibs : ClickStarter(bib) \/ TakeOff(bib) \/ OtherOperator(bib)
  \/ \E f \in Feeds : FillFromLive(f)
  \/ \E i \in 1 .. Cardinality(Bibs) : DragStart(i) \/ \E tie \in BOOLEAN : Drop(i, tie)
  \/ OwnWrite \/ FeedMarks

Spec == Init /\ [][Next]_finishVars

-----------------------------------------------------------------------------
(* The variables have their types. *)
TypeOK ==
  /\ arrivals.starters \subseteq Bibs /\ arrivals.out \subseteq Bibs /\ arrivals.rank \in [Bibs -> Nat]
  /\ entry.rank \in Nat /\ entry.bib \in Bibs \cup {0} /\ entry.asked \in Bibs \cup {0}
  /\ entry.add.bib \in Bibs \cup {0} /\ entry.drag \in 0 .. Cardinality(Bibs)
  /\ clicks \in 0 .. MaxInputs /\ others \in 0 .. MaxNews

(* Ties share a rank, and the next rank counts everybody ahead. *)
IsRanking(rank) ==
  \A b \in Finishers(rank) : rank[b] = 1 + Cardinality({c \in Finishers(rank) : rank[c] < rank[b]})

(* Dragging a row, in whatever order the riders are: the result is a competition ranking of the
   same riders, the dragged one is level with the target or immediately ahead of it and of those
   level with it, and the others keep their order. *)
DropsRight ==
  \A d, t \in Finishers(arrivals.rank), tie \in BOOLEAN :
    d # t =>
      LET before == arrivals.rank
          after == Dropped(before, d, t, tie)
          rest == Finishers(before) \ {d}
      IN /\ Finishers(after) = Finishers(before) /\ IsRanking(after)
         /\ \A b, c \in rest : after[b] < after[c] <=> before[b] < before[c]
         /\ IF tie THEN after[d] = after[t]
            ELSE after[d] < after[t] /\ \A b \in rest : after[b] < after[d] \/ after[b] >= after[t]

(* The rank proposed for the next rider, once the page's own writes have come back, is behind
   every rider in the race, and the next place of a competition ranking. *)
NextRankRight ==
  entry.bib = 0 /\ entry.asked = 0 /\ entry.add = NoAdd /\ ~entry.own /\ sent = Nothing =>
    /\ \A b \in Bibs : arrivals.rank[b] < entry.rank
    /\ IsRanking(arrivals.rank) => entry.rank = 1 + Cardinality(Finishers(arrivals.rank))

(* What the panel makes of a drag and what it proposes fits the present order of arrival. *)
ProposalsRight == DropsRight /\ NextRankRight

(* What the operator has typed stays, also the rank once there is a bib, whatever others and the
   page's own writes do to the race, except when a rider who was waited for is added. *)
EntriesStay ==
  clicks' = clicks /\ entry'.add = entry.add =>
    /\ entry'.bib = entry.bib /\ entry'.drag = entry.drag
    /\ entry.bib # 0 => entry'.rank = entry.rank

(* A click on a starter adds the rider to the order the panel shows, at the rank it shows: the list
   "avoids stale closures in click handlers" (ScoringStarterList.tsx:98).  It does not hold: the
   handler is renewed only when the list itself renders again. *)
ClicksCurrent ==
  entry.click.rank # 0 =>
    \A bib \in arrivals.starters \ (arrivals.out \cup Finishers(arrivals.rank)) :
      Clicked(bib) = [arrivals.rank EXCEPT ![bib] = entry.rank]
=============================================================================
