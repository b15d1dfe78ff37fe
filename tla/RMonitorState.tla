---------------------------- MODULE RMonitorState ----------------------------
(***************************************************************************)
(* The race state a stream of RMonitor lines builds: RaceStateStore (the   *)
(* current, the previous and the stored races) and the laps of one rider   *)
(* of the current race (CompetitorState), fed by Orbits, which announces a *)
(* crossing with $J and $G and corrects a time after a photo finish with   *)
(* $COR and $G.                                                            *)
(*                                                                         *)
(* Races are objects 1, 2, ... in the order they are started; times are    *)
(* small numbers; names, classes, positions and lines that cannot be       *)
(* parsed are left out.                                                    *)
(***************************************************************************)
EXTENDS Integers, Sequences, FiniteSetsExt

CONSTANTS
  RaceIds,        \* ids Orbits uses in $B
  NoRaceId,       \* NO_RACE_ID
  MaxRaces,       \* maxRaces
  MaxRaceObjects, \* bound: races started
  MaxLaps,        \* bound: laps of the rider in a race
  MaxClock,       \* bound: race time
  MaxCorrections  \* bound: corrections in a race

NotSet == -1 \* a lap field that is null

VARIABLES
  raceId,   \* raceId[r], flag[r]: of race object r
  flag,
  races,    \* the stored races, last touched last
  current, previous, \* race objects; previous may be 0 for null
  rider,    \* the rider in the current race
  feed      \* Orbits: the total times it has for the laps, the $G it still owes, corrections made

raceVars == <<raceId, flag, races, current, previous, rider, feed>>
book == <<raceId, flag, races, current, previous>>

NewRider == [laps |-> <<>>, total |-> 0, best |-> 0, last |-> 0, lapsComplete |-> 0]
NewFeed == [totals |-> <<>>, owed |-> FALSE, corrected |-> {}, corrections |-> 0]

-----------------------------------------------------------------------------
(* RaceStateStore *)

(* Drops the oldest race over the limit, but never the current and the previous one. *)
Evict[q \in Seq(1 .. MaxRaceObjects), keep \in SUBSET (0 .. MaxRaceObjects)] ==
  IF Len(q) <= MaxRaces THEN q
  ELSE IF Head(q) \notin keep THEN Evict[Tail(q), keep]
  ELSE IF Len(q) <= 2 THEN Append(Tail(q), Head(q))
  ELSE Evict[Append(Tail(q), Head(q)), keep]

Store(q, ids, r, keep) ==
  Evict[Append(SelectSeq(q, LAMBDA s : ids[s] # ids[r]), r), keep]

(* startNewRace: the next object becomes current. *)
NewRace(ids, flags, q) ==
  LET known == raceId[current] # NoRaceId IN
  /\ current < MaxRaceObjects
  /\ current' = current + 1
  /\ previous' = IF known THEN current ELSE previous
  /\ raceId' = ids
  /\ flag' = flags
  /\ races' = q
  /\ rider' = NewRider /\ feed' = NewFeed

Finished == [flag EXCEPT ![current] = "FINISH"]

StoredOld == IF raceId[current] # NoRaceId
               THEN Store(races, raceId, current, {current, previous}) ELSE races

(* $I *)
InitRecord == NewRace(raceId, Finished, StoredOld)

(* $B with another id: the new race takes it over and is stored. *)
RunInfoNew(id) ==
  /\ raceId[current] # id
  /\ current < MaxRaceObjects
  /\ LET ids == [raceId EXCEPT ![current + 1] = id]
         before == IF raceId[current] # NoRaceId THEN current ELSE previous
     IN NewRace(ids, [Finished EXCEPT ![current + 1] = "PURPLE"],
                Store(StoredOld, ids, current + 1, {current + 1, before}))

(* $B repeated. *)
RunInfoAgain(id) ==
  /\ raceId[current] = id
  /\ flag' = [flag EXCEPT ![current] = "PURPLE"]
  /\ races' = Store(races, raceId, current, {current, previous})
  /\ UNCHANGED <<raceId, current, previous, rider, feed>>

(* $F; an empty flag is PURPLE. *)
Heartbeat(f) ==
  /\ flag' = [flag EXCEPT ![current] = f]
  /\ UNCHANGED <<raceId, races, current, previous, rider, feed>>

(* displayRace: an object, the present one if no race has an id yet. *)
Displayed == IF raceId[current] # NoRaceId \/ previous = 0 THEN current ELSE previous

-----------------------------------------------------------------------------
(* CompetitorState *)

FindOrCreate(laps, total) ==
  IF \E i \in DOMAIN laps : laps[i].total = total THEN laps
  ELSE Append(laps, [num |-> 0, time |-> NotSet, total |-> total])

Found(laps, total) == CHOOSE i \in DOMAIN laps :
  laps[i].total = total /\ \A j \in 1 .. (i - 1) : laps[j].total # total

Faster(best, time) == IF best = 0 \/ time < best THEN time ELSE best

PositiveTimes(laps) ==
  {laps[i].time : i \in {j \in DOMAIN laps : laps[j].num > 0 /\ laps[j].time > 0}}

MinLapTime(laps) == IF PositiveTimes(laps) = {} THEN 0 ELSE Min(PositiveTimes(laps))

(* applyPassingInfo, $J *)
AfterPassing(c, time, total) ==
  LET laps == FindOrCreate(c.laps, total)
  IN [c EXCEPT !.laps = [laps EXCEPT ![Found(laps, total)].time = time],
               !.last = time, !.total = total, !.best = Faster(@, time)]

(* applyRaceInfo, $G *)
AfterRaceInfo(c, lap, total) ==
  LET laps == FindOrCreate(c.laps, total)
  IN [c EXCEPT !.laps = [laps EXCEPT ![Found(laps, total)].num = lap],
               !.total = total, !.lapsComplete = lap]

(* lastLapWithTotal: 0 if there is none. *)
LastLap(laps, num) ==
  LET at == {i \in DOMAIN laps : laps[i].num = num /\ laps[i].total # NotSet}
  IN IF at = {} THEN 0 ELSE Max(at)

CorrectedBest(c, laps, oldLap, newLap) ==
  IF oldLap # NotSet /\ c.best = oldLap THEN MinLapTime(laps) ELSE Faster(c.best, newLap)

(* applyCorrection, $COR *)
AfterCorrection(c, lap, corrected, delta) ==
  LET target == LastLap(c.laps, lap)
      before == IF lap > 1 THEN LastLap(c.laps, lap - 1) ELSE 0
      isCurrent == lap = c.lapsComplete
      oldTotal == IF target # 0 THEN c.laps[target].total ELSE IF isCurrent THEN c.total ELSE NotSet
      oldLap == IF target # 0 THEN c.laps[target].time ELSE IF isCurrent THEN c.last ELSE NotSet
      newLap == IF before # 0 THEN corrected - c.laps[before].total
                ELSE IF oldLap > 0
                  THEN oldLap + (IF oldTotal # NotSet THEN corrected - oldTotal ELSE delta)
                  ELSE oldLap
      laps == IF target = 0 THEN c.laps
              ELSE [c.laps EXCEPT ![target].total = corrected, ![target].time = newLap]
      reaches == isCurrent \/ (oldTotal # NotSet /\ c.total = oldTotal)
  IN [c EXCEPT !.laps = laps,
               !.total = IF reaches THEN corrected ELSE @,
               !.last = IF reaches /\ oldLap # NotSet /\ newLap # NotSet /\ @ = oldLap
                          THEN newLap ELSE @,
               !.best = IF newLap > 0 THEN CorrectedBest(c, laps, oldLap, newLap) ELSE @]

-----------------------------------------------------------------------------
(* Orbits *)

Laps == Len(feed.totals)

Before(lap) == IF lap = 1 THEN 0 ELSE feed.totals[lap - 1]

(* A crossing at time t: $J. The lap time of the first one, from the start line, is zero. *)
Crossing(t) ==
  /\ ~feed.owed /\ Laps < MaxLaps
  /\ t > Before(Laps + 1)
  /\ rider' = AfterPassing(rider, IF Laps = 0 THEN 0 ELSE t - feed.totals[Laps], t)
  /\ feed' = [feed EXCEPT !.totals = Append(@, t), !.owed = TRUE]
  /\ UNCHANGED book

(* The $G after a $J or a $COR. *)
RaceInfo ==
  /\ feed.owed
  /\ rider' = AfterRaceInfo(rider, Laps, feed.totals[Laps])
  /\ feed' = [feed EXCEPT !.owed = FALSE]
  /\ UNCHANGED book

(* A correction that keeps the order of the crossings; a $G follows for the last lap only. *)
Correction(lap, t) ==
  /\ ~feed.owed /\ lap <= Laps /\ feed.corrections < MaxCorrections
  /\ t # feed.totals[lap]
  /\ t > Before(lap)
  /\ lap < Laps => t < feed.totals[lap + 1]
  /\ rider' = AfterCorrection(rider, lap, t, t - feed.totals[lap])
  /\ feed' = [totals |-> [feed.totals EXCEPT ![lap] = t], owed |-> lap = Laps,
              corrected |-> IF lap = Laps THEN feed.corrected \ {lap}
                            ELSE (feed.corrected \ {lap}) \cup {lap + 1},
              corrections |-> feed.corrections + 1]
  /\ UNCHANGED book

-----------------------------------------------------------------------------
Init ==
  /\ raceId = [r \in 1 .. MaxRaceObjects |-> NoRaceId]
  /\ flag = [r \in 1 .. MaxRaceObjects |-> "NONE"]
  /\ races = <<>> /\ current = 1 /\ previous = 0
  /\ rider = NewRider /\ feed = NewFeed

Next ==
  \/ InitRecord
  \/ \E id \in RaceIds : RunInfoNew(id) \/ RunInfoAgain(id)
  \/ \E f \in {"GREEN", "FINISH", "PURPLE"} : Heartbeat(f)
  \/ \E t \in 1 .. MaxClock : Crossing(t) \/ \E lap \in 1 .. MaxLaps : Correction(lap, t)
  \/ RaceInfo

Spec == Init /\ [][Next]_raceVars

-----------------------------------------------------------------------------
(* Type invariant. *)
TypeOK ==
  /\ raceId \in [1 .. MaxRaceObjects -> RaceIds \cup {NoRaceId}]
  /\ flag \in [1 .. MaxRaceObjects -> {"NONE", "PURPLE", "GREEN", "FINISH"}]
  /\ races \in Seq(1 .. current) /\ current \in 1 .. MaxRaceObjects
  /\ previous \in 0 .. current - 1
  /\ rider.total \in Nat /\ rider.best \in Nat /\ rider.last \in Nat
  /\ rider.lapsComplete \in 0 .. MaxLaps

(* The display never loses its race: whatever order of $I and $B and however low the limit, the
   race the service publishes as current is stored under its id, a stored race other than the
   current one is finished, an id is stored once, and the limit is kept up to the two protected
   races. *)
RacesConsistent ==
  /\ raceId[Displayed] # NoRaceId => \E i \in DOMAIN races : races[i] = Displayed
  /\ \A i \in DOMAIN races :
       /\ races[i] # current => flag[races[i]] = "FINISH"
       /\ \A j \in DOMAIN races : raceId[races[i]] = raceId[races[j]] => i = j
  /\ Len(races) <= Max({2, MaxRaces})

(* The rider's laps agree with Orbits between its messages, also after corrections: one entry per
   lap, the corrected total, the fastest lap as the best one, and lap times that are the difference
   of the totals, except for a lap whose predecessor was corrected after it was driven. *)
LapsConsistent ==
  ~feed.owed =>
    /\ \A n \in 1 .. Laps : Cardinality({i \in DOMAIN rider.laps : rider.laps[i].num = n}) = 1
    /\ Len(rider.laps) = Laps
    /\ Laps > 0 => rider.total = feed.totals[Laps] /\ rider.last = rider.laps[Laps].time
    /\ rider.best = MinLapTime(rider.laps)
    /\ \A n \in 1 .. Laps : rider.laps[n].total = feed.totals[n]
    /\ \A n \in (2 .. Laps) \ feed.corrected :
         rider.laps[n].time = feed.totals[n] - feed.totals[n - 1]
=============================================================================
