-------------------------- MODULE RaceRecordsProofs --------------------------
(***************************************************************************)
(* Proofs about RaceRecords, for every value of its constants: the laps of *)
(* a rider in the race state, the page on which events are edited, the     *)
(* panels for eliminations, points and the order of arrival, and the       *)
(* activities of a scoring page.  Each part has an inductive invariant of  *)
(* its own; a step is one of the part that runs.  The log of the finish    *)
(* line and the bytes of a decoder are in StreamProofs.                    *)
(***************************************************************************)
EXTENDS RaceRecords, SequenceTheorems, FiniteSetTheorems, WellFoundedInduction, TLAPS

(* A step is one of the part that runs, or changes nothing of it. *)
LEMMA StepOfAPart ==
  ASSUME [RecordsNext]_recordVars
  PROVE  /\ part' = part
         /\ part = "raceState" => [RaceState!Next]_(RaceState!raceVars)
         /\ part = "events" => [EventPage!Next]_(EventPage!eventVars)
         /\ part = "elimination" => [Elimination!Next]_(Elimination!formVars)
         /\ part = "points" => [PointsPanel!Next]_(PointsPanel!pointsVars)
         /\ part = "finish" => [Finish!Next]_(Finish!finishVars)
         /\ part = "activities" => [ScoringPageEdits!Next]_(ScoringPageEdits!activityVars)
<1>1. CASE UNCHANGED recordVars
  BY <1>1 DEF recordVars, raceStateVars, eventVars, livePanelVars, pointsVars, finishVars, activityVars, logVars, bytesVars,
     RaceState!raceVars, EventPage!eventVars, Elimination!formVars, Elimination!panelVars, PointsPanel!pointsVars, PointsPanel!panelVars, Finish!finishVars,
     ScoringPageEdits!activityVars
<1>2. CASE RecordsNext
  BY <1>2 DEF RecordsNext, RaceStateStep, EventStep, EliminationStep, PointsStep, FinishStep, ActivityStep, LogStep, BytesStep
<1> QED
  BY <1>1, <1>2

-----------------------------------------------------------------------------
(* The race state.  The laps of the rider are those of Orbits, one entry each, in order. *)
LapRecord == [num : Nat, time : Nat, total : Nat]
RiderType == [laps : Seq(LapRecord), total : Nat, best : Nat, last : Nat, lapsComplete : Nat]
FeedType == [totals : Seq(Nat), owed : BOOLEAN, corrected : SUBSET Nat, corrections : Nat]

Rising(totals) ==
  \A i \in 1 .. Len(totals) : totals[i] > 0 /\ \A j \in 1 .. Len(totals) : i < j => totals[i] < totals[j]

(* The first lap is from the start line and has no time of its own. *)
LapsSound(laps, totals, complete) ==
  /\ Len(laps) = Len(totals)
  /\ \A n \in 1 .. Len(laps) :
       /\ laps[n].total = totals[n]
       /\ laps[n].num = IF n <= complete THEN n ELSE 0
       /\ IF n = 1 THEN laps[n].time = 0 ELSE laps[n].time > 0

TimesOf(laps) == [n \in 1 .. Len(laps) |-> laps[n].time]

(* The best of the times of n laps, whether the $G of the last one has come or not. *)
BestRight(times, n, best) ==
  IF n < 2 THEN best = 0
  ELSE /\ \E i \in 2 .. n : best = times[i]
       /\ \A i \in 2 .. n : best <= times[i]

(* The lap a $J has told of is not complete before its $G. *)
RiderRight(c, fd) ==
  LET laps == Len(fd.totals)
  IN /\ c \in RiderType /\ fd \in FeedType
     /\ Rising(fd.totals) /\ LapsSound(c.laps, fd.totals, c.lapsComplete) /\ BestRight(TimesOf(c.laps), laps, c.best)
     /\ fd.owed => laps > 0
     /\ c.lapsComplete = laps \/ (fd.owed /\ laps = c.lapsComplete + 1)
     /\ laps > 0 => c.total = fd.totals[laps] /\ c.last = c.laps[laps].time
     /\ \A n \in (2 .. laps) \ fd.corrected : c.laps[n].time = fd.totals[n] - fd.totals[n - 1]

RaceStateInv == RiderRight(rider, feed)

LEMMA FirstRider == RiderRight(RaceState!NewRider, RaceState!NewFeed)
<1>1. <<>> \in Seq(LapRecord) /\ <<>> \in Seq(Nat) /\ Len(<<>>) = 0
  OBVIOUS
<1>2. RaceState!NewRider \in RiderType /\ RaceState!NewFeed \in FeedType
  BY <1>1 DEF RaceState!NewRider, RaceState!NewFeed, RiderType, FeedType
<1> QED
  BY <1>1, <1>2 DEF RaceState!NewRider, RaceState!NewFeed, RiderRight, Rising, LapsSound, BestRight

(* An entry is found by its total, as every lap has its own. *)
LEMMA FoundByTotal ==
  ASSUME NEW laps \in Seq(LapRecord), NEW totals \in Seq(Nat), NEW complete \in Nat,
         Rising(totals), LapsSound(laps, totals, complete), NEW n \in 1 .. Len(totals)
  PROVE  RaceState!FindOrCreate(laps, totals[n]) = laps /\ RaceState!Found(laps, totals[n]) = n
<1>1. DOMAIN laps = 1 .. Len(totals) /\ \A i \in 1 .. Len(totals) : laps[i].total = totals[i] /\ totals[i] \in Nat
  BY DEF LapsSound
<1>2. \A i \in 1 .. Len(totals) : laps[i].total = totals[n] => i = n
  BY <1>1 DEF Rising
<1>3. n \in DOMAIN laps /\ laps[n].total = totals[n] /\ \A j \in 1 .. (n - 1) : laps[j].total # totals[n]
  BY <1>1, <1>2
<1>4. RaceState!Found(laps, totals[n]) = n
  BY <1>1, <1>2, <1>3 DEF RaceState!Found
<1> QED
  BY <1>3, <1>4 DEF RaceState!FindOrCreate

(* $J: a total nobody has yet makes a new entry. *)
LEMMA NewLapFound ==
  ASSUME NEW laps \in Seq(LapRecord), NEW totals \in Seq(Nat), NEW complete \in Nat,
         Rising(totals), LapsSound(laps, totals, complete),
         NEW t \in Nat, \A i \in 1 .. Len(totals) : totals[i] < t
  PROVE  /\ RaceState!FindOrCreate(laps, t) = Append(laps, [num |-> 0, time |-> RaceState!NotSet, total |-> t])
         /\ RaceState!Found(RaceState!FindOrCreate(laps, t), t) = Len(laps) + 1
<1> DEFINE more == Append(laps, [num |-> 0, time |-> RaceState!NotSet, total |-> t])
<1>1. DOMAIN laps = 1 .. Len(totals) /\ Len(laps) = Len(totals) /\ \A i \in 1 .. Len(totals) : laps[i].total = totals[i] /\ totals[i] \in Nat
  BY DEF LapsSound
<1>2. \A i \in 1 .. Len(totals) : laps[i].total # t
  BY <1>1
<1>3. RaceState!FindOrCreate(laps, t) = more
  BY <1>1, <1>2 DEF RaceState!FindOrCreate
<1>4. /\ DOMAIN more = 1 .. Len(laps) + 1
      /\ more[Len(laps) + 1] = [num |-> 0, time |-> RaceState!NotSet, total |-> t]
      /\ \A i \in 1 .. Len(laps) : more[i] = laps[i]
  OBVIOUS
<1> HIDE DEF more
<1>5. RaceState!Found(more, t) = Len(laps) + 1
  BY <1>1, <1>2, <1>4 DEF RaceState!Found
<1> QED
  BY <1>3, <1>5 DEF more

LEMMA RisingAppend ==
  ASSUME NEW totals \in Seq(Nat), Rising(totals), NEW t \in Nat, t > 0, \A i \in 1 .. Len(totals) : totals[i] < t
  PROVE  Rising(Append(totals, t))
<1> DEFINE more == Append(totals, t)
           n == Len(totals)
<1>1. n \in Nat /\ Len(more) = n + 1 /\ more[n + 1] = t /\ \A i \in 1 .. n : more[i] = totals[i] /\ totals[i] \in Nat
  OBVIOUS
<1>2. \A i \in 1 .. n : totals[i] > 0 /\ totals[i] < t /\ \A j \in 1 .. n : i < j => totals[i] < totals[j]
  BY DEF Rising
<1> HIDE DEF more, n
<1>3. ASSUME NEW i \in 1 .. n + 1
      PROVE  more[i] > 0 /\ \A j \in 1 .. n + 1 : i < j => more[i] < more[j]
  BY <1>1, <1>2
<1> QED
  BY <1>1, <1>3 DEF Rising, more

LEMMA BestAppended ==
  ASSUME NEW n \in Nat, NEW times, NEW next, NEW best \in Nat, BestRight(times, n, best),
         \A i \in 1 .. n : times[i] \in Nat /\ next[i] = times[i] /\ (i # 1 => times[i] > 0),
         next[n + 1] \in Nat, next[n + 1] > 0 <=> n > 0
  PROVE  BestRight(next, n + 1, RaceState!Faster(best, next[n + 1]))
<1> DEFINE time == next[n + 1]
<1>1. CASE n = 0
  <2>1. best = 0 /\ time = 0
    BY <1>1 DEF BestRight
  <2> QED
    BY <1>1, <2>1 DEF BestRight, RaceState!Faster
<1>2. CASE n = 1
  <2>1. best = 0
    BY <1>2 DEF BestRight
  <2> QED
    BY <1>2, <2>1 DEF BestRight, RaceState!Faster
<1>3. CASE n >= 2
  <2>1. PICK k \in 2 .. n : best = times[k]
    BY <1>3 DEF BestRight
  <2>2. \A i \in 2 .. n : best <= times[i]
    BY <1>3 DEF BestRight
  <2>3. best > 0 /\ next[k] = best /\ \A i \in 2 .. n : best <= next[i] /\ next[i] \in Nat
    BY <2>1, <2>2
  <2>4. ASSUME NEW new \in Nat, new = time
        PROVE  BestRight(next, n + 1, RaceState!Faster(best, new))
    <3>1. RaceState!Faster(best, new) = IF new < best THEN new ELSE best
      BY <2>3 DEF RaceState!Faster
    <3>2. next[n + 1] = new
      BY <2>4
    <3>3. CASE new < best
      BY <1>3, <2>3, <3>1, <3>2, <3>3 DEF BestRight
    <3>4. CASE ~(new < best)
      BY <1>3, <2>3, <3>1, <3>2, <3>4 DEF BestRight
    <3> QED
      BY <3>3, <3>4
  <2> QED
    BY <2>4
<1> QED
  BY <1>1, <1>2, <1>3

LEMMA CrossingKeeps ==
  ASSUME RiderRight(rider, feed), NEW t \in Int, RaceState!Crossing(t)
  PROVE  RiderRight(rider', feed')
<1> DEFINE n == Len(feed.totals)
           time == IF n = 0 THEN 0 ELSE t - feed.totals[n]
           more == Append(rider.laps, [num |-> 0, time |-> RaceState!NotSet, total |-> t])
           laps == [more EXCEPT ![n + 1].time = time]
           totals == Append(feed.totals, t)
<1>1. /\ rider \in RiderType /\ feed \in FeedType /\ Rising(feed.totals)
      /\ LapsSound(rider.laps, feed.totals, rider.lapsComplete) /\ BestRight(TimesOf(rider.laps), n, rider.best)
      /\ ~feed.owed /\ rider.lapsComplete = n
      /\ n > 0 => rider.total = feed.totals[n] /\ rider.last = rider.laps[n].time
      /\ \A i \in (2 .. n) \ feed.corrected : rider.laps[i].time = feed.totals[i] - feed.totals[i - 1]
  BY DEF RiderRight, RaceState!Crossing
<1>2. rider.laps \in Seq(LapRecord) /\ feed.totals \in Seq(Nat) /\ rider.lapsComplete \in Nat /\ n \in Nat
      /\ rider.best \in Nat /\ Len(rider.laps) = n
  BY <1>1 DEF RiderType, FeedType, LapsSound
<1>3. /\ t > 0 /\ (n > 0 => t > feed.totals[n] /\ feed.totals[n] \in Nat)
      /\ rider' = RaceState!AfterPassing(rider, time, t)
      /\ feed' = [feed EXCEPT !.totals = Append(@, t), !.owed = TRUE]
  <2>1. t > RaceState!Before(n + 1) /\ (n + 1) - 1 = n /\ (n = 0 => n + 1 = 1) /\ (n > 0 => n + 1 # 1)
    BY <1>2 DEF RaceState!Crossing, RaceState!Laps
  <2>2. n > 0 => feed.totals[n] \in Nat
    BY <1>2
  <2>3. n = 0 => t > 0
    BY <2>1 DEF RaceState!Before
  <2>4. n > 0 => t > feed.totals[n]
    BY <2>1 DEF RaceState!Before
  <2> QED
    BY <1>2, <2>2, <2>3, <2>4 DEF RaceState!Crossing, RaceState!Laps
<1>n. n = Len(feed.totals) /\ (time = IF n = 0 THEN 0 ELSE t - feed.totals[n])
  OBVIOUS
<1>4. t \in Nat /\ time \in Nat /\ (n > 0 => time > 0) /\ \A i \in 1 .. n : feed.totals[i] < t /\ feed.totals[i] \in Nat
  <2>1. \A i \in 1 .. n : feed.totals[i] \in Nat /\ (i < n => feed.totals[i] < feed.totals[n])
    <3>1. \A i \in 1 .. n : feed.totals[i] \in Nat
      BY <1>2
    <3>2. \A i \in 1 .. n : \A j \in 1 .. n : i < j => feed.totals[i] < feed.totals[j]
      BY <1>1 DEF Rising
    <3>3. ASSUME NEW i \in 1 .. n, i < n
          PROVE  feed.totals[i] < feed.totals[n]
      <4>1. n \in 1 .. n
        BY <1>2, <3>3
      <4> QED
        BY <3>2, <3>3, <4>1
    <3> QED
      BY <3>1, <3>3
  <2>2. ASSUME NEW i \in 1 .. n
        PROVE  feed.totals[i] < t
    <3>1. n > 0 /\ t > feed.totals[n] /\ feed.totals[n] \in Nat
      BY <1>2, <1>3
    <3>2. feed.totals[i] \in Nat /\ (i = n \/ feed.totals[i] < feed.totals[n])
      BY <1>2, <2>1
    <3> HIDE DEF n
    <3> QED
      BY <3>1, <3>2
  <2> HIDE DEF n
  <2>3. t \in Nat /\ time \in Nat /\ (n > 0 => time > 0)
    BY <1>2, <1>3
  <2> QED
    BY <2>1, <2>2, <2>3
<1>5. rider' = [rider EXCEPT !.laps = laps, !.last = time, !.total = t, !.best = RaceState!Faster(@, time)]
  BY <1>1, <1>2, <1>3, <1>4, NewLapFound DEF RaceState!AfterPassing
<1>6. /\ laps \in Seq(LapRecord) /\ Len(laps) = n + 1
      /\ \A i \in 1 .. n : laps[i] = rider.laps[i]
      /\ laps[n + 1] = [num |-> 0, time |-> time, total |-> t]
  <2>1. /\ \A i \in 1 .. n : more[i] = rider.laps[i]
        /\ more[n + 1] = [num |-> 0, time |-> RaceState!NotSet, total |-> t]
        /\ DOMAIN more = 1 .. n + 1
    BY <1>2
  <2> HIDE DEF more
  <2>2. /\ DOMAIN laps = 1 .. n + 1
        /\ \A i \in 1 .. n : laps[i] = rider.laps[i]
        /\ laps[n + 1] = [num |-> 0, time |-> time, total |-> t]
    BY <1>2, <2>1
  <2>3. laps = [i \in 1 .. n + 1 |-> laps[i]]
    BY <2>2
  <2>4. [num |-> 0, time |-> time, total |-> t] \in LapRecord
    BY <1>4 DEF LapRecord
  <2>5. \A i \in 1 .. n + 1 : laps[i] \in LapRecord
    BY <1>2, <2>2, <2>4
  <2> HIDE DEF laps
  <2>6. laps \in Seq(LapRecord) /\ Len(laps) = n + 1
    <3> HIDE DEF n
    <3>1. n + 1 \in Nat
      BY <1>2
    <3>2. laps \in [1 .. n + 1 -> LapRecord]
      BY <2>3, <2>5
    <3> QED
      BY <3>1, <3>2
  <2> QED
    BY <2>2, <2>6
<1>7. totals \in Seq(Nat) /\ Len(totals) = n + 1 /\ totals[n + 1] = t /\ \A i \in 1 .. n : totals[i] = feed.totals[i]
  BY <1>2, <1>4
<1> HIDE DEF laps, totals, time, more, n
<1>8. feed'.totals = totals /\ feed'.owed = TRUE /\ feed'.corrected = feed.corrected /\ feed' \in FeedType
  <2>1. feed' = [feed EXCEPT !.totals = totals, !.owed = TRUE]
    BY <1>3 DEF totals
  <2> QED
    BY <1>1, <1>7, <2>1 DEF FeedType
<1>9. /\ rider'.laps = laps /\ rider'.last = time /\ rider'.total = t /\ rider'.lapsComplete = rider.lapsComplete
      /\ rider'.best = RaceState!Faster(rider.best, time) /\ rider' \in RiderType
  <2>1. RaceState!Faster(rider.best, time) \in Nat
    BY <1>2, <1>4 DEF RaceState!Faster
  <2> QED
    BY <1>1, <1>4, <1>5, <1>6, <2>1 DEF RiderType
<1>10. Rising(totals)
  BY <1>1, <1>2, <1>3, <1>4, <1>n, RisingAppend DEF totals
<1>11. LapsSound(laps, totals, rider.lapsComplete)
  <2>1. ASSUME NEW i \in 1 .. n + 1
        PROVE  /\ laps[i].total = totals[i]
               /\ laps[i].num = IF i <= rider.lapsComplete THEN i ELSE 0
               /\ IF i = 1 THEN laps[i].time = 0 ELSE laps[i].time > 0
    <3>1. CASE i \in 1 .. n
      BY <1>1, <1>2, <1>6, <1>7, <3>1 DEF LapsSound
    <3>2. CASE i = n + 1
      <4>1. laps[i].total = t /\ laps[i].num = 0 /\ laps[i].time = time /\ totals[i] = t
        BY <1>6, <1>7, <3>2
      <4>2. i > rider.lapsComplete /\ (i = 1 => time = 0) /\ (i # 1 => time > 0)
        BY <1>1, <1>2, <1>4, <3>2 DEF time
      <4> QED
        BY <1>1, <1>2, <4>1, <4>2
    <3> QED
      BY <1>2, <3>1, <3>2
  <2> QED
    BY <1>6, <1>7, <2>1 DEF LapsSound
<1>12. BestRight(TimesOf(laps), n + 1, RaceState!Faster(rider.best, time))
  <2>1. ASSUME NEW i \in 1 .. n
        PROVE  /\ TimesOf(rider.laps)[i] = rider.laps[i].time /\ TimesOf(laps)[i] = rider.laps[i].time
               /\ rider.laps[i].time \in Nat /\ (i # 1 => rider.laps[i].time > 0)
    <3>1. rider.laps[i] \in LapRecord /\ i \in 1 .. n + 1
      BY <1>2
    <3> QED
      BY <1>1, <1>2, <1>6, <3>1 DEF LapsSound, LapRecord, TimesOf
  <2>2. TimesOf(laps)[n + 1] = time
    BY <1>2, <1>6 DEF TimesOf
  <2>3. time > 0 <=> n > 0
    BY <1>2, <1>4, <1>n
  <2> QED
    <3> DEFINE times == TimesOf(rider.laps)
               next == TimesOf(laps)
    <3>1. \A i \in 1 .. n : times[i] \in Nat /\ next[i] = times[i] /\ (i # 1 => times[i] > 0)
      BY <2>1
    <3>2. next[n + 1] = time /\ next[n + 1] \in Nat /\ (next[n + 1] > 0 <=> n > 0)
      BY <1>4, <2>2, <2>3
    <3>3. BestRight(times, n, rider.best)
      BY <1>1
    <3> HIDE DEF times, next
    <3>4. BestRight(next, n + 1, RaceState!Faster(rider.best, next[n + 1]))
      BY <1>2, <3>1, <3>2, <3>3, BestAppended
    <3> QED
      BY <3>2, <3>4 DEF next
<1>13. \A i \in (2 .. n + 1) \ feed.corrected : laps[i].time = totals[i] - totals[i - 1]
  <2>1. ASSUME NEW i \in (2 .. n + 1) \ feed.corrected
        PROVE  laps[i].time = totals[i] - totals[i - 1]
    <3>1. CASE i \in 2 .. n
      <4>1. i - 1 \in 1 .. n /\ i \in 1 .. n /\ i \in (2 .. n) \ feed.corrected
        BY <1>2, <3>1
      <4> QED
        BY <1>1, <1>6, <1>7, <4>1
    <3>2. CASE i = n + 1
      <4>1. i - 1 = n /\ n \in 1 .. n /\ n # 0
        BY <1>2, <3>2
      <4>2. time = t - feed.totals[n] /\ laps[i].time = time /\ totals[i] = t /\ totals[i - 1] = feed.totals[n]
        <5>1. time = t - feed.totals[n]
          BY <1>n, <4>1
        <5>2. laps[i].time = time /\ totals[i] = t
          BY <1>6, <1>7, <3>2
        <5>3. totals[i - 1] = feed.totals[n]
          BY <1>7, <4>1
        <5> QED
          BY <5>1, <5>2, <5>3
      <4> QED
        BY <4>2
    <3> QED
      BY <1>2, <3>1, <3>2
  <2> QED
    BY <2>1
<1> QED
  BY <1>n, <1>1, <1>2, <1>6, <1>7, <1>8, <1>9, <1>10, <1>11, <1>12, <1>13 DEF RiderRight

LEMMA RaceInfoKeeps ==
  ASSUME RiderRight(rider, feed), RaceState!RaceInfo
  PROVE  RiderRight(rider', feed') /\ ~feed'.owed
<1> DEFINE n == Len(feed.totals)
           laps == [rider.laps EXCEPT ![n].num = n]
<1>1. /\ rider \in RiderType /\ feed \in FeedType /\ Rising(feed.totals)
      /\ LapsSound(rider.laps, feed.totals, rider.lapsComplete) /\ BestRight(TimesOf(rider.laps), n, rider.best)
      /\ n > 0 /\ (rider.lapsComplete = n \/ n = rider.lapsComplete + 1)
      /\ rider.total = feed.totals[n] /\ rider.last = rider.laps[n].time
      /\ \A i \in (2 .. n) \ feed.corrected : rider.laps[i].time = feed.totals[i] - feed.totals[i - 1]
  BY DEF RiderRight, RaceState!RaceInfo
<1>2. rider.laps \in Seq(LapRecord) /\ feed.totals \in Seq(Nat) /\ rider.lapsComplete \in Nat /\ n \in Nat
      /\ Len(rider.laps) = n /\ n \in 1 .. Len(feed.totals)
  BY <1>1 DEF RiderType, FeedType, LapsSound
<1>3. rider' = [rider EXCEPT !.laps = laps, !.total = feed.totals[n], !.lapsComplete = n]
  <2>1. RaceState!FindOrCreate(rider.laps, feed.totals[n]) = rider.laps /\ RaceState!Found(rider.laps, feed.totals[n]) = n
    BY <1>1, <1>2, FoundByTotal
  <2>2. rider' = RaceState!AfterRaceInfo(rider, n, feed.totals[n])
    BY DEF RaceState!RaceInfo, RaceState!Laps
  <2> QED
    BY <2>1, <2>2 DEF RaceState!AfterRaceInfo
<1>4. feed' = [feed EXCEPT !.owed = FALSE]
  BY DEF RaceState!RaceInfo
<1> HIDE DEF n
<1>5. /\ laps \in Seq(LapRecord) /\ Len(laps) = n
      /\ \A i \in 1 .. n : /\ laps[i].time = rider.laps[i].time /\ laps[i].total = rider.laps[i].total
                           /\ laps[i].num = IF i = n THEN n ELSE rider.laps[i].num
  <2>1. /\ DOMAIN laps = 1 .. n
        /\ \A i \in 1 .. n : laps[i] = IF i = n THEN [rider.laps[i] EXCEPT !.num = n] ELSE rider.laps[i]
    BY <1>2
  <2>2. \A i \in 1 .. n : rider.laps[i] \in LapRecord
    BY <1>2
  <2>3. laps = [i \in 1 .. n |-> laps[i]]
    BY <2>1
  <2> HIDE DEF laps
  <2>4. ASSUME NEW i \in 1 .. n
        PROVE  /\ laps[i] \in LapRecord
               /\ laps[i].time = rider.laps[i].time /\ laps[i].total = rider.laps[i].total
               /\ laps[i].num = IF i = n THEN n ELSE rider.laps[i].num
    BY <1>2, <2>1, <2>2 DEF LapRecord
  <2>5. laps \in [1 .. n -> LapRecord]
    BY <2>3, <2>4
  <2>6. n \in Nat
    BY <1>2
  <2>7. laps \in Seq(LapRecord) /\ Len(laps) = n
    BY <2>5, <2>6
  <2> QED
    BY <2>4, <2>7
<1>6. /\ rider'.laps = laps /\ rider'.last = rider.last /\ rider'.total = feed.totals[n] /\ rider'.lapsComplete = n
      /\ rider'.best = rider.best /\ rider' \in RiderType
  <2>1. feed.totals[n] \in Nat
    BY <1>2
  <2> HIDE DEF laps
  <2> QED
    BY <1>1, <1>2, <1>3, <1>5, <2>1 DEF RiderType
<1>7. feed'.totals = feed.totals /\ ~feed'.owed /\ feed'.corrected = feed.corrected /\ feed' \in FeedType
  BY <1>1, <1>4 DEF FeedType
<1> HIDE DEF laps
<1>8. LapsSound(laps, feed.totals, n)
  <2>1. ASSUME NEW i \in 1 .. n
        PROVE  /\ laps[i].total = feed.totals[i] /\ laps[i].num = i
               /\ IF i = 1 THEN laps[i].time = 0 ELSE laps[i].time > 0
    <3>1. i < n => i <= rider.lapsComplete
      BY <1>1, <1>2
    <3> QED
      BY <1>1, <1>2, <1>5, <3>1 DEF LapsSound
  <2> QED
    BY <1>2, <1>5, <2>1 DEF LapsSound, n
<1>9. TimesOf(laps) = TimesOf(rider.laps)
  BY <1>2, <1>5 DEF TimesOf
<1>10. \A i \in (2 .. n) \ feed.corrected : laps[i].time = feed.totals[i] - feed.totals[i - 1]
  BY <1>1, <1>2, <1>5
<1>11. rider.last = laps[n].time
  BY <1>1, <1>2, <1>5
<1> QED
  BY <1>1, <1>2, <1>5, <1>6, <1>7, <1>8, <1>9, <1>10, <1>11 DEF RiderRight, n

(* The least number principle. *)
LEMMA LeastNatural ==
  ASSUME NEW T \in SUBSET Nat, T # {}
  PROVE  \E x \in T : \A y \in T : x <= y
<1> DEFINE less == OpToRel(<, Nat)
<1>1. IsWellFoundedOn(less, Nat)
  BY NatLessThanWellFounded
<1>2. ASSUME NEW x \in Nat, NEW y \in Nat, y < x
      PROVE <<y, x>> \in less
  BY <1>2 DEF OpToRel
<1> HIDE DEF less
<1>3. \E x \in T : \A y \in T : ~(<<y, x>> \in less)
  BY <1>1, WFMin
<1>4. PICK x \in T : \A y \in T : ~(<<y, x>> \in less)
  BY <1>3
<1>5. ASSUME NEW y \in T
      PROVE  x <= y
  <2>1. x \in Nat /\ y \in Nat /\ ~(y < x)
    BY <1>2, <1>4
  <2> QED
    BY <2>1
<1> QED
  BY <1>5

(* The fastest lap there is, over all laps but the first one. *)
LEMMA FastestLap ==
  ASSUME NEW laps \in Seq(LapRecord), NEW n \in Nat, n >= 2, Len(laps) = n,
         \A i \in 1 .. n : laps[i].num = i /\ (IF i = 1 THEN laps[i].time = 0 ELSE laps[i].time > 0)
  PROVE  RaceState!MinLapTime(laps) \in Nat /\ BestRight(TimesOf(laps), n, RaceState!MinLapTime(laps))
<1> DEFINE positive == RaceState!PositiveTimes(laps)
           least == RaceState!Min(positive)
<1>1. \A i \in 1 .. n : laps[i].time \in Nat /\ laps[i].num = i /\ laps[i].num > 0
                        /\ (IF i = 1 THEN laps[i].time = 0 ELSE laps[i].time > 0)
  <2>1. \A i \in 1 .. n : laps[i] \in LapRecord
    OBVIOUS
  <2>2. \A i \in 1 .. n : laps[i].time \in Nat
    BY <2>1 DEF LapRecord
  <2> QED
    BY <2>2
<1>2. DOMAIN laps = 1 .. n
  OBVIOUS
<1>3. positive = {laps[i].time : i \in 2 .. n}
  <2>1. {j \in DOMAIN laps : laps[j].num > 0 /\ laps[j].time > 0} = 2 .. n
    BY <1>1, <1>2
  <2> QED
    BY <2>1 DEF RaceState!PositiveTimes
<1>4. positive \in SUBSET Nat /\ laps[2].time \in positive
  BY <1>1, <1>3
<1> HIDE DEF positive
<1>5. \E x \in positive : \A y \in positive : x <= y
  BY <1>4, LeastNatural
<1>6. least \in positive /\ \A y \in positive : least <= y
  BY <1>5 DEF RaceState!Min
<1>7. RaceState!MinLapTime(laps) = least
  BY <1>4 DEF RaceState!MinLapTime, positive
<1> HIDE DEF least
<1>8. \A i \in 2 .. n : TimesOf(laps)[i] = laps[i].time /\ laps[i].time \in positive
  BY <1>1, <1>3 DEF TimesOf
<1>9. \E i \in 2 .. n : least = TimesOf(laps)[i]
  BY <1>3, <1>6, <1>8
<1>10. \A i \in 2 .. n : least <= TimesOf(laps)[i]
  BY <1>6, <1>8
<1>11. BestRight(TimesOf(laps), n, least)
  BY <1>9, <1>10 DEF BestRight
<1> QED
  BY <1>4, <1>6, <1>7, <1>11

(* Lap by lap: the entry of a complete lap is found by its number. *)
LEMMA FoundByNumber ==
  ASSUME NEW laps \in Seq(LapRecord), NEW n \in 1 .. Len(laps), \A i \in 1 .. Len(laps) : laps[i].num = i
  PROVE  RaceState!LastLap(laps, n) = n
<1>1. DOMAIN laps = 1 .. Len(laps) /\ \A i \in 1 .. Len(laps) : laps[i].total \in Nat
  <2>1. \A i \in 1 .. Len(laps) : laps[i] \in LapRecord
    OBVIOUS
  <2> QED
    BY <2>1 DEF LapRecord
<1>2. {i \in DOMAIN laps : laps[i].num = n /\ laps[i].total # RaceState!NotSet} = {n}
  BY <1>1 DEF RaceState!NotSet
<1>3. RaceState!Max({n}) = n
  BY DEF RaceState!Max
<1> QED
  BY <1>2, <1>3 DEF RaceState!LastLap

(* The best time after one of the laps has got another time. *)
LEMMA BestChanged ==
  ASSUME NEW n \in Nat, n >= 2, NEW times, NEW next, NEW best \in Nat, NEW k \in 2 .. n, BestRight(times, n, best),
         \A i \in 2 .. n : times[i] \in Nat /\ times[i] > 0 /\ (i # k => next[i] = times[i]),
         next[k] \in Nat, next[k] > 0, best # times[k]
  PROVE  BestRight(next, n, RaceState!Faster(best, next[k]))
<1>1. PICK i \in 2 .. n : best = times[i]
  BY DEF BestRight
<1>2. \A j \in 2 .. n : best <= times[j]
  BY DEF BestRight
<1>3. i # k /\ next[i] = best /\ best > 0
  BY <1>1
<1>4. RaceState!Faster(best, next[k]) = IF next[k] < best THEN next[k] ELSE best
  BY <1>3 DEF RaceState!Faster
<1>5. \A j \in 2 .. n : j # k => best <= next[j] /\ next[j] \in Nat
  BY <1>2
<1>6. CASE next[k] < best
  BY <1>3, <1>4, <1>5, <1>6 DEF BestRight
<1>7. CASE ~(next[k] < best)
  BY <1>3, <1>4, <1>5, <1>7 DEF BestRight
<1> QED
  BY <1>6, <1>7

LEMMA CorrectionKeeps ==
  ASSUME RiderRight(rider, feed), NEW lap \in 1 .. MaxLaps, NEW t \in Int, RaceState!Correction(lap, t)
  PROVE  RiderRight(rider', feed')
<1> DEFINE n == Len(feed.totals)
           oldLap == rider.laps[lap].time
           newLap == IF lap = 1 THEN 0 ELSE t - feed.totals[lap - 1]
           laps == [rider.laps EXCEPT ![lap].total = t, ![lap].time = newLap]
           totals == [feed.totals EXCEPT ![lap] = t]
           corrected == IF lap = n THEN feed.corrected \ {lap} ELSE (feed.corrected \ {lap}) \cup {lap + 1}
           best == IF newLap > 0 THEN RaceState!CorrectedBest(rider, laps, oldLap, newLap) ELSE rider.best
<1>1. /\ rider \in RiderType /\ feed \in FeedType /\ Rising(feed.totals)
      /\ LapsSound(rider.laps, feed.totals, rider.lapsComplete) /\ BestRight(TimesOf(rider.laps), n, rider.best)
      /\ rider.lapsComplete = n /\ lap <= n
      /\ rider.total = feed.totals[n] /\ rider.last = rider.laps[n].time
      /\ \A i \in (2 .. n) \ feed.corrected : rider.laps[i].time = feed.totals[i] - feed.totals[i - 1]
  BY DEF RiderRight, RaceState!Correction, RaceState!Laps
<1>2. /\ rider.laps \in Seq(LapRecord) /\ feed.totals \in Seq(Nat) /\ feed.corrected \in SUBSET Nat /\ feed.corrections \in Nat
      /\ rider.best \in Nat /\ n \in Nat /\ Len(rider.laps) = n /\ lap \in 1 .. n /\ lap \in Nat
  BY <1>1 DEF RiderType, FeedType, LapsSound
<1>3. /\ t > RaceState!Before(lap) /\ (lap < n => t < feed.totals[lap + 1])
      /\ rider' = RaceState!AfterCorrection(rider, lap, t, t - feed.totals[lap])
      /\ feed' = [totals |-> totals, owed |-> lap = n, corrected |-> corrected, corrections |-> feed.corrections + 1]
  BY DEF RaceState!Correction, RaceState!Laps
<1>n. n = Len(feed.totals)
  OBVIOUS
<1> HIDE DEF n
<1>4. \A i \in 1 .. n : /\ rider.laps[i] \in LapRecord /\ rider.laps[i].time \in Nat
                        /\ rider.laps[i].num = i /\ rider.laps[i].total = feed.totals[i] /\ feed.totals[i] \in Nat
                        /\ IF i = 1 THEN rider.laps[i].time = 0 ELSE rider.laps[i].time > 0
  <2>1. \A i \in 1 .. n : rider.laps[i] \in LapRecord /\ feed.totals[i] \in Nat
    BY <1>2, <1>n
  <2>2. \A i \in 1 .. n : rider.laps[i].time \in Nat
    BY <2>1 DEF LapRecord
  <2> QED
    BY <1>1, <1>2, <2>1, <2>2 DEF LapsSound
<1>5. /\ t \in Nat /\ t > 0 /\ newLap \in Nat /\ (newLap > 0 <=> lap # 1)
      /\ (lap # 1 => feed.totals[lap - 1] < t) /\ (lap < n => t < feed.totals[lap + 1])
  <2>1. lap = 1 => t > 0
    BY <1>3 DEF RaceState!Before
  <2>2. lap # 1 => lap - 1 \in 1 .. n /\ feed.totals[lap - 1] < t
    BY <1>2, <1>3 DEF RaceState!Before
  <2>3. lap # 1 => feed.totals[lap - 1] \in Nat
    BY <1>4, <2>2
  <2> QED
    BY <1>2, <1>3, <2>1, <2>2, <2>3
<1>6. /\ RaceState!LastLap(rider.laps, lap) = lap
      /\ lap # 1 => lap - 1 \in 1 .. n /\ RaceState!LastLap(rider.laps, lap - 1) = lap - 1
  <2>1. lap # 1 => lap - 1 \in 1 .. Len(rider.laps)
    BY <1>2
  <2> QED
    BY <1>2, <1>4, <2>1, FoundByNumber
<1>7. rider.total = feed.totals[lap] <=> lap = n
  <2>1. /\ lap \in 1 .. n /\ n \in 1 .. n /\ n \in Nat
        /\ feed.totals[lap] \in Nat /\ feed.totals[n] \in Nat /\ rider.total = feed.totals[n]
    BY <1>1, <1>2, <1>4
  <2>2. lap < n => feed.totals[lap] < feed.totals[n]
    BY <1>1, <1>n, <2>1 DEF Rising
  <2>3. lap = n \/ lap < n
    BY <2>1
  <2> QED
    BY <2>1, <2>2, <2>3
<1>8. rider' = [rider EXCEPT !.laps = laps, !.total = IF lap = n THEN t ELSE @,
                              !.last = IF lap = n THEN newLap ELSE @, !.best = best]
  <2> DEFINE c == rider
             before == IF lap > 1 THEN RaceState!LastLap(c.laps, lap - 1) ELSE 0
             computed == IF before # 0 THEN t - c.laps[before].total
                         ELSE IF oldLap > 0
                           THEN oldLap + (IF feed.totals[lap] # RaceState!NotSet THEN t - feed.totals[lap] ELSE t - feed.totals[lap])
                           ELSE oldLap
             reaches == lap = rider.lapsComplete \/ (feed.totals[lap] # RaceState!NotSet /\ rider.total = feed.totals[lap])
  <2>1. lap # 0 /\ rider.laps[lap].total = feed.totals[lap] /\ feed.totals[lap] \in Nat /\ oldLap \in Nat
    BY <1>2, <1>4
  <2>2. computed = newLap
    <3>1. CASE lap = 1
      <4>1. before = 0 /\ oldLap = 0
        BY <1>2, <1>4, <3>1
      <4> QED
        BY <3>1, <4>1
    <3>2. CASE lap # 1
      <4>1. before = lap - 1 /\ before # 0 /\ before \in 1 .. n
        BY <1>2, <1>6, <3>2
      <4> QED
        BY <1>4, <3>2, <4>1
    <3> QED
      BY <3>1, <3>2
  <2>3. reaches <=> lap = n
    BY <1>1, <1>2, <1>7
  <2>4. lap = n => rider.last = oldLap
    BY <1>1
  <2>5. oldLap # RaceState!NotSet /\ newLap # RaceState!NotSet /\ feed.totals[lap] # RaceState!NotSet
    BY <1>5, <2>1 DEF RaceState!NotSet
  <2>6. RaceState!AfterCorrection(rider, lap, t, t - feed.totals[lap])
          = [rider EXCEPT !.laps = [rider.laps EXCEPT ![lap].total = t, ![lap].time = computed],
               !.total = IF reaches THEN t ELSE @,
               !.last = IF reaches /\ oldLap # RaceState!NotSet /\ computed # RaceState!NotSet /\ @ = oldLap
                          THEN computed ELSE @,
               !.best = IF computed > 0
                          THEN RaceState!CorrectedBest(rider, [rider.laps EXCEPT ![lap].total = t, ![lap].time = computed], oldLap, computed)
                          ELSE @]
    <3> HIDE DEF oldLap
    <3> QED
      BY <1>6, <2>1 DEF RaceState!AfterCorrection, oldLap
  <2> HIDE DEF computed, reaches, oldLap, newLap
  <2>7. (IF reaches /\ oldLap # RaceState!NotSet /\ newLap # RaceState!NotSet /\ rider.last = oldLap THEN newLap ELSE rider.last)
          = IF lap = n THEN newLap ELSE rider.last
    BY <2>3, <2>4, <2>5
  <2>8. (IF reaches THEN t ELSE rider.total) = IF lap = n THEN t ELSE rider.total
    BY <2>3
  <2> QED
    BY <1>3, <2>2, <2>6, <2>7, <2>8
<1>9. /\ laps \in Seq(LapRecord) /\ Len(laps) = n
      /\ \A i \in 1 .. n : /\ laps[i].num = i
                           /\ laps[i].total = IF i = lap THEN t ELSE rider.laps[i].total
                           /\ laps[i].time = IF i = lap THEN newLap ELSE rider.laps[i].time
  <2> HIDE DEF newLap
  <2>1. /\ DOMAIN laps = 1 .. n
        /\ \A i \in 1 .. n : laps[i] = IF i = lap THEN [rider.laps[i] EXCEPT !.total = t, !.time = newLap] ELSE rider.laps[i]
    <3> DEFINE moved == [rider.laps EXCEPT ![lap].total = t]
    <3>1. DOMAIN rider.laps = 1 .. n
      BY <1>2
    <3>2. /\ DOMAIN moved = 1 .. n /\ moved[lap] = [rider.laps[lap] EXCEPT !.total = t]
          /\ \A i \in 1 .. n : i # lap => moved[i] = rider.laps[i]
      BY <1>2, <3>1
    <3>3. laps = [moved EXCEPT ![lap].time = newLap]
      OBVIOUS
    <3> HIDE DEF moved, laps
    <3>4. /\ DOMAIN laps = 1 .. n /\ laps[lap] = [moved[lap] EXCEPT !.time = newLap]
          /\ \A i \in 1 .. n : i # lap => laps[i] = moved[i]
      BY <1>2, <3>2, <3>3
    <3>5. laps[lap] = [rider.laps[lap] EXCEPT !.total = t, !.time = newLap]
      BY <3>2, <3>4
    <3> QED
      BY <3>2, <3>4, <3>5
  <2>2. laps = [i \in 1 .. n |-> laps[i]]
    BY <2>1
  <2> HIDE DEF laps
  <2>3. ASSUME NEW i \in 1 .. n
        PROVE  /\ laps[i] \in LapRecord /\ laps[i].num = i
               /\ laps[i].total = IF i = lap THEN t ELSE rider.laps[i].total
               /\ laps[i].time = IF i = lap THEN newLap ELSE rider.laps[i].time
    <3>1. rider.laps[i] \in LapRecord /\ rider.laps[i].num = i
      BY <1>4
    <3> QED
      BY <1>5, <2>1, <3>1 DEF LapRecord
  <2>4. laps \in [1 .. n -> LapRecord]
    BY <2>2, <2>3
  <2> QED
    BY <1>2, <2>3, <2>4
<1>10. /\ totals \in Seq(Nat) /\ Len(totals) = n
       /\ \A i \in 1 .. n : totals[i] = IF i = lap THEN t ELSE feed.totals[i]
  BY <1>2, <1>5, <1>n
<1>11. corrected \in SUBSET Nat
  BY <1>2
<1>b. oldLap \in Nat /\ (lap # 1 => oldLap > 0) /\ oldLap = rider.laps[lap].time
  BY <1>2, <1>4
<1> HIDE DEF laps, totals
<1>12. \A i \in (2 .. n) \ corrected : laps[i].time = totals[i] - totals[i - 1]
  <2>1. ASSUME NEW i \in (2 .. n) \ corrected
        PROVE  laps[i].time = totals[i] - totals[i - 1]
    <3>0. i \in 1 .. n /\ i - 1 \in 1 .. n /\ i \in Nat /\ i # 1
      BY <1>2
    <3>1. CASE i = lap
      <4>1. totals[i] = t /\ totals[i - 1] = feed.totals[lap - 1] /\ laps[i].time = newLap
        BY <1>9, <1>10, <3>0, <3>1
      <4> QED
        BY <3>0, <3>1, <4>1
    <3>2. CASE i # lap
      <4>1. i # lap + 1 /\ i \in (2 .. n) \ feed.corrected
        BY <1>2, <3>0, <3>2
      <4>2. totals[i] = feed.totals[i] /\ totals[i - 1] = feed.totals[i - 1] /\ laps[i].time = rider.laps[i].time
        BY <1>2, <1>9, <1>10, <3>0, <3>2, <4>1
      <4> QED
        BY <1>1, <4>1, <4>2
    <3> QED
      BY <3>1, <3>2
  <2> QED
    BY <2>1
<1>t. lap = 1 => newLap = 0
  OBVIOUS
<1> HIDE DEF corrected, newLap
<1>13. Rising(totals)
  <2>1. \A i \in 1 .. n : feed.totals[i] > 0 /\ \A j \in 1 .. n : i < j => feed.totals[i] < feed.totals[j]
    BY <1>1, <1>n DEF Rising
  <2>2. \A i \in 1 .. n : i < lap => feed.totals[i] < t
    <3>1. ASSUME NEW i \in 1 .. n, i < lap
          PROVE  feed.totals[i] < t
      <4>1. lap # 1 /\ lap - 1 \in 1 .. n /\ (i = lap - 1 \/ i < lap - 1)
        BY <1>2, <3>1
      <4>2. feed.totals[i] <= feed.totals[lap - 1] /\ feed.totals[i] \in Nat /\ feed.totals[lap - 1] \in Nat
        BY <1>4, <2>1, <4>1
      <4> QED
        BY <1>5, <4>1, <4>2
    <3> QED
      BY <3>1
  <2>3. \A i \in 1 .. n : lap < i => t < feed.totals[i]
    <3>1. ASSUME NEW i \in 1 .. n, lap < i
          PROVE  t < feed.totals[i]
      <4>1. lap < n /\ lap + 1 \in 1 .. n /\ (i = lap + 1 \/ lap + 1 < i)
        BY <1>2, <3>1
      <4>2. feed.totals[lap + 1] <= feed.totals[i] /\ feed.totals[i] \in Nat /\ feed.totals[lap + 1] \in Nat
        BY <1>4, <2>1, <4>1
      <4> QED
        BY <1>5, <4>1, <4>2
    <3> QED
      BY <3>1
  <2>4. ASSUME NEW i \in 1 .. n
        PROVE  totals[i] > 0 /\ \A j \in 1 .. n : i < j => totals[i] < totals[j]
    <3>1. CASE i = lap
      <4>1. totals[i] = t /\ \A j \in 1 .. n : i < j => totals[j] = feed.totals[j]
        BY <1>2, <1>10, <3>1
      <4> QED
        BY <1>5, <2>3, <3>1, <4>1
    <3>2. CASE i # lap
      <4>1. totals[i] = feed.totals[i] /\ \A j \in 1 .. n : totals[j] = IF j = lap THEN t ELSE feed.totals[j]
        BY <1>10, <3>2
      <4>2. totals[i] > 0
        BY <2>1, <4>1
      <4>3. ASSUME NEW j \in 1 .. n, i < j
            PROVE  totals[i] < totals[j]
        <5>1. CASE j = lap
          BY <2>2, <4>1, <4>3, <5>1
        <5>2. CASE j # lap
          BY <2>1, <4>1, <4>3, <5>2
        <5> QED
          BY <5>1, <5>2
      <4> QED
        BY <4>2, <4>3
    <3> QED
      BY <3>1, <3>2
  <2> QED
    BY <1>10, <2>4 DEF Rising
<1>14. LapsSound(laps, totals, n)
  <2>1. ASSUME NEW i \in 1 .. n
        PROVE  /\ laps[i].total = totals[i] /\ laps[i].num = i
               /\ IF i = 1 THEN laps[i].time = 0 ELSE laps[i].time > 0
    BY <1>4, <1>5, <1>9, <1>10, <1>t
  <2> QED
    BY <1>2, <1>9, <1>10, <2>1 DEF LapsSound
<1>15. best \in Nat /\ BestRight(TimesOf(laps), n, best)
  <2> DEFINE times == TimesOf(rider.laps)
             next == TimesOf(laps)
  <2>1. \A i \in 1 .. n : /\ times[i] = rider.laps[i].time /\ times[i] \in Nat /\ (i # 1 => times[i] > 0)
                          /\ next[i] = IF i = lap THEN newLap ELSE rider.laps[i].time
    BY <1>2, <1>4, <1>9 DEF TimesOf
  <2>2. BestRight(times, n, rider.best)
    BY <1>1
  <2>3. CASE lap = 1
    <3>1. best = rider.best
      BY <1>5, <2>3
    <3>2. \A i \in 2 .. n : next[i] = times[i]
      BY <1>2, <2>1, <2>3
    <3> HIDE DEF times, next
    <3>3. BestRight(next, n, rider.best)
      BY <1>2, <2>2, <3>2 DEF BestRight
    <3> HIDE DEF best
    <3> QED
      BY <1>2, <3>1, <3>3 DEF next
  <2>4. CASE lap # 1 /\ rider.best = oldLap
    <3>1. best = RaceState!MinLapTime(laps)
      BY <1>5, <1>b, <2>4 DEF RaceState!CorrectedBest, RaceState!NotSet
    <3>2. n >= 2 /\ n = Len(laps)
      BY <1>2, <1>9, <2>4
    <3>3. \A i \in 1 .. n : laps[i].num = i /\ (IF i = 1 THEN laps[i].time = 0 ELSE laps[i].time > 0)
      BY <1>14, <1>9 DEF LapsSound
    <3> HIDE DEF best, times, next
    <3>4. RaceState!MinLapTime(laps) \in Nat /\ BestRight(TimesOf(laps), n, RaceState!MinLapTime(laps))
      BY <1>2, <1>9, <3>2, <3>3, FastestLap
    <3> QED
      BY <3>1, <3>4
  <2>5. CASE lap # 1 /\ rider.best # oldLap
    <3>1. best = RaceState!Faster(rider.best, newLap)
      BY <1>5, <2>5 DEF RaceState!CorrectedBest
    <3>2. n >= 2 /\ lap \in 2 .. n
      BY <1>2, <2>5
    <3>3. /\ \A i \in 2 .. n : times[i] \in Nat /\ times[i] > 0 /\ (i # lap => next[i] = times[i])
          /\ next[lap] = newLap /\ newLap > 0 /\ newLap \in Nat /\ rider.best # times[lap]
      <4>1. \A i \in 2 .. n : i \in 1 .. n /\ i # 1
        BY <1>2
      <4> QED
        BY <1>2, <1>5, <1>b, <2>1, <2>5, <4>1
    <3> HIDE DEF best, times, next
    <3>4. BestRight(next, n, RaceState!Faster(rider.best, next[lap]))
      BY <1>2, <2>2, <3>2, <3>3, BestChanged
    <3>5. RaceState!Faster(rider.best, newLap) \in Nat
      BY <1>2, <1>5 DEF RaceState!Faster
    <3> QED
      BY <3>1, <3>3, <3>4, <3>5 DEF next
  <2> QED
    BY <2>3, <2>4, <2>5
<1> HIDE DEF best
<1>16. /\ rider'.laps = laps /\ rider'.total = totals[n] /\ rider'.last = laps[n].time /\ rider'.best = best
       /\ rider'.lapsComplete = n /\ rider' \in RiderType
  <2>1. n \in 1 .. n
    BY <1>2
  <2>2. /\ rider'.laps = laps /\ rider'.best = best /\ rider'.lapsComplete = n
        /\ rider'.total = (IF lap = n THEN t ELSE rider.total)
        /\ rider'.last = (IF lap = n THEN newLap ELSE rider.last)
        /\ rider' \in RiderType
    BY <1>1, <1>2, <1>5, <1>8, <1>9, <1>15 DEF RiderType
  <2>3. (IF lap = n THEN t ELSE rider.total) = totals[n]
    BY <1>1, <1>10, <2>1
  <2>4. (IF lap = n THEN newLap ELSE rider.last) = laps[n].time
    BY <1>1, <1>9, <2>1
  <2> QED
    BY <2>2, <2>3, <2>4
<1>17. feed'.totals = totals /\ feed'.corrected = corrected /\ feed' \in FeedType
  BY <1>2, <1>3, <1>10, <1>11 DEF FeedType
<1>18. n > 0
  BY <1>2
<1> QED
  BY <1>9, <1>10, <1>12, <1>13, <1>14, <1>15, <1>16, <1>17, <1>18 DEF RiderRight

LEMMA RaceStateInductive == ASSUME RaceStateInv, [RaceState!Next]_(RaceState!raceVars)  PROVE RaceStateInv'
<1> USE DEF RaceStateInv
<1>1. CASE UNCHANGED <<rider, feed>>
  BY <1>1
<1>2. CASE \E ids, flags, q : RaceState!NewRace(ids, flags, q)
  BY <1>2, FirstRider DEF RaceState!NewRace
<1>3. ASSUME NEW t \in Int, RaceState!Crossing(t)
      PROVE  RaceStateInv'
  BY <1>3, CrossingKeeps
<1>4. ASSUME NEW lap \in 1 .. MaxLaps, NEW t \in Int, RaceState!Correction(lap, t)
      PROVE  RaceStateInv'
  BY <1>4, CorrectionKeeps
<1>5. CASE RaceState!RaceInfo
  BY <1>5, RaceInfoKeeps
<1> QED
  <2>1. CASE UNCHANGED RaceState!raceVars
    BY <1>1, <2>1 DEF RaceState!raceVars
  <2>2. CASE RaceState!InitRecord
    BY <1>2, <2>2 DEF RaceState!InitRecord
  <2>3. ASSUME NEW id \in RaceIds, RaceState!RunInfoNew(id)
        PROVE  RaceStateInv'
    BY <1>2, <2>3 DEF RaceState!RunInfoNew
  <2>4. ASSUME NEW id \in RaceIds, RaceState!RunInfoAgain(id)
        PROVE  RaceStateInv'
    BY <1>1, <2>4 DEF RaceState!RunInfoAgain
  <2>5. ASSUME NEW f \in {"GREEN", "FINISH", "PURPLE"}, RaceState!Heartbeat(f)
        PROVE  RaceStateInv'
    BY <1>1, <2>5 DEF RaceState!Heartbeat
  <2>6. \A t \in 1 .. MaxClock : t \in Int
    OBVIOUS
  <2> QED
    BY <1>3, <1>4, <1>5, <2>1, <2>2, <2>3, <2>4, <2>5, <2>6 DEF RaceState!Next

LEMMA RaceStateInitially == RaceState!Init => RaceStateInv
BY FirstRider DEF RaceState!Init, RaceStateInv

LEMMA RaceInvConsistent == RaceStateInv => RaceState!LapsConsistent
<1> SUFFICES ASSUME RaceStateInv, ~feed.owed
             PROVE  RaceState!LapsConsistent
  BY DEF RaceState!LapsConsistent
<1> DEFINE n == Len(feed.totals)
<1>1. /\ rider \in RiderType /\ feed \in FeedType
      /\ LapsSound(rider.laps, feed.totals, n) /\ BestRight(TimesOf(rider.laps), n, rider.best)
      /\ n > 0 => rider.total = feed.totals[n] /\ rider.last = rider.laps[n].time
      /\ \A i \in (2 .. n) \ feed.corrected : rider.laps[i].time = feed.totals[i] - feed.totals[i - 1]
  BY DEF RaceStateInv, RiderRight
<1>2. rider.laps \in Seq(LapRecord) /\ n \in Nat /\ Len(rider.laps) = n /\ DOMAIN rider.laps = 1 .. n /\ rider.best \in Nat
  BY <1>1 DEF RiderType, FeedType, LapsSound
<1>3. \A i \in 1 .. n : /\ rider.laps[i].num = i /\ rider.laps[i].total = feed.totals[i]
                        /\ IF i = 1 THEN rider.laps[i].time = 0 ELSE rider.laps[i].time > 0
  BY <1>1, <1>2 DEF LapsSound
<1> HIDE DEF n
<1>4. \A i \in 1 .. n : RaceState!Cardinality({k \in DOMAIN rider.laps : rider.laps[k].num = i}) = 1
  <2>1. ASSUME NEW i \in 1 .. n
        PROVE  {k \in DOMAIN rider.laps : rider.laps[k].num = i} = {i}
    BY <1>2, <1>3
  <2>2. ASSUME NEW i \in 1 .. n
        PROVE  RaceState!Cardinality({i}) = 1
    <3>1. RaceState!Cardinality({i}) = Cardinality({i})
      BY DEF RaceState!Cardinality, Cardinality
    <3> QED
      BY <3>1, FS_Singleton
  <2> QED
    BY <2>1, <2>2
<1>5. rider.best = RaceState!MinLapTime(rider.laps)
  <2>1. CASE n < 2
    <3>1. {j \in DOMAIN rider.laps : rider.laps[j].num > 0 /\ rider.laps[j].time > 0} = {}
      BY <1>2, <1>3, <2>1
    <3>2. RaceState!PositiveTimes(rider.laps) = {}
      BY <3>1 DEF RaceState!PositiveTimes
    <3> QED
      BY <1>1, <2>1, <3>2 DEF BestRight, RaceState!MinLapTime
  <2>2. CASE n >= 2
    <3> DEFINE times == TimesOf(rider.laps)
               least == RaceState!MinLapTime(rider.laps)
    <3>1. least \in Nat /\ BestRight(times, n, least)
      BY <1>2, <1>3, <2>2, FastestLap
    <3>2. BestRight(times, n, rider.best)
      BY <1>1
    <3>3. \A i \in 2 .. n : times[i] \in Nat
      <4>1. \A i \in 1 .. n : rider.laps[i] \in LapRecord
        BY <1>2
      <4>2. \A i \in 2 .. n : i \in 1 .. n /\ rider.laps[i].time \in Nat
        BY <1>2, <4>1 DEF LapRecord
      <4> QED
        BY <1>2, <4>2 DEF TimesOf
    <3> HIDE DEF times, least
    <3> QED
      <4>1. PICK i \in 2 .. n : least = times[i] /\ \A j \in 2 .. n : least <= times[j]
        BY <1>2, <2>2, <3>1 DEF BestRight
      <4>2. PICK i2 \in 2 .. n : rider.best = times[i2] /\ \A j \in 2 .. n : rider.best <= times[j]
        BY <1>2, <2>2, <3>2 DEF BestRight
      <4>3. least <= rider.best /\ rider.best <= least
        BY <4>1, <4>2
      <4>4. least = rider.best
        BY <1>2, <3>1, <4>3
      <4> QED
        BY <4>4 DEF least
  <2> QED
    BY <1>2, <2>1, <2>2
<1> QED
  BY <1>1, <1>2, <1>3, <1>4, <1>5 DEF RaceState!LapsConsistent, RaceState!Laps, n

-----------------------------------------------------------------------------
(* The events.  Behind what the property says of the two documents: the page's copy of the list is the list as
   long as it has heard of every change; while an event is imported the list has the name it is
   imported with; and the ghosts tell what the operator has done to the age groups. *)
EventListType == [name : [EventPage!Ids -> EventPage!AllNames], active : EventPage!Ids \cup {None}]
EventEditorType ==
  [id : EventPage!Ids \cup {None}, loaded : BOOLEAN, raw : EventPage!Docs,
   name : EventPage!AllNames, ageGroups : SUBSET AgeGroups,
   baseName : EventPage!AllNames, baseAgeGroups : SUBSET AgeGroups,
   added : SUBSET AgeGroups, removed : SUBSET AgeGroups]
EventImportType == [id : EventPage!Ids \cup {None}, name : EventPage!AllNames, knows : {"nothing", "present", "past"}]

EventTyped ==
  /\ eventList \in EventListType /\ shownList \in EventListType
  /\ eventDoc \in [EventPage!Ids -> EventPage!Docs]
  /\ unheard \subseteq EventPage!Ids \cup {EventPage!List}
  /\ editor \in EventEditorType
  /\ conflictImport \in EventPage!Ids \cup {None} /\ importTarget \in EventImportType
  /\ clashed \in BOOLEAN

ListHeard == EventPage!List \in unheard \/ shownList = eventList

OneDialog ==
  /\ conflictImport = None \/ importTarget.id = None
  /\ importTarget.id = None => importTarget.knows = "nothing"

ImportNamed == clashed \/ importTarget.id = None \/ eventList.name[importTarget.id] \in {NoName, importTarget.name}

(* What was added was not there, what was removed was. *)
GroupsTold(ed) ==
  /\ ed.added \cap ed.baseAgeGroups = {} /\ ed.removed \subseteq ed.baseAgeGroups
  /\ ed.ageGroups = (ed.baseAgeGroups \cup ed.added) \ ed.removed

EventInv ==
  /\ EventTyped /\ ListHeard /\ OneDialog /\ ImportNamed /\ GroupsTold(editor)
  /\ EventPage!NamesAgree /\ EventPage!ActiveListed

LEMMA EventConstants ==
  /\ Events # {} /\ Copy \notin Events /\ None \notin EventPage!Ids
  /\ EventPage!List \notin EventPage!Ids /\ EventPage!List = "list"
  /\ NoName \notin EventNames \cup {ImportName, CopyName}
BY RecordsAssumption DEF EventPage!Ids, EventPage!List

(* The editor keeps its account of the age groups when it takes over what the documents say. *)
LEMMA HydratedKeeps ==
  ASSUME NEW ed \in EventEditorType, NEW list \in EventListType, GroupsTold(ed)
  PROVE  /\ EventPage!Hydrated(ed, list) \in EventEditorType
         /\ GroupsTold(EventPage!Hydrated(ed, list))
<1> DEFINE new == EventPage!Hydrated(ed, list)
<1>1. CASE ed.id = None \/ EventPage!isDirty(ed)
  BY <1>1 DEF EventPage!Hydrated
<1>2. CASE ed.id # None /\ ~EventPage!isDirty(ed)
  <2> DEFINE name == IF list.name[ed.id] # NoName THEN list.name[ed.id] ELSE ed.raw.name
  <2>1. name \in EventPage!AllNames /\ ed.raw.ageGroups \in SUBSET AgeGroups
    BY <1>2 DEF EventEditorType, EventListType, EventPage!Docs
  <2>2. new = [ed EXCEPT !.name = name, !.baseName = name,
                         !.ageGroups = ed.raw.ageGroups, !.baseAgeGroups = ed.raw.ageGroups]
    BY <1>2 DEF EventPage!Hydrated
  <2> HIDE DEF name
  <2>3. new \in EventEditorType
    BY <2>1, <2>2 DEF EventEditorType
  <2>4. ed.added = {} /\ ed.removed = {}
    BY <1>2 DEF GroupsTold, EventPage!isDirty
  <2>5. new.added = {} /\ new.removed = {} /\ new.ageGroups = new.baseAgeGroups
    BY <2>2, <2>4 DEF EventEditorType
  <2> QED
    BY <2>3, <2>5 DEF GroupsTold
<1> QED
  BY <1>1, <1>2

LEMMA ClosedSound ==
  /\ EventPage!Closed \in EventEditorType /\ GroupsTold(EventPage!Closed)
  /\ \A eid \in EventPage!Ids :
       [EventPage!Closed EXCEPT !.id = eid] \in EventEditorType /\ GroupsTold([EventPage!Closed EXCEPT !.id = eid])
BY DEF EventPage!Closed, EventPage!Absent, EventEditorType, EventPage!Docs, EventPage!AllNames, GroupsTold

LEMMA EditorKeeps ==
  ASSUME EventInv, editor' \in EventEditorType, GroupsTold(editor'),
         UNCHANGED <<eventList, eventDoc, shownList, conflictImport, importTarget, clashed>>,
         unheard' \subseteq unheard, EventPage!List \in unheard => EventPage!List \in unheard'
  PROVE  EventInv'
BY DEF EventInv, EventTyped, ListHeard, OneDialog, ImportNamed, EventPage!NamesAgree, EventPage!ActiveListed

(* The page writes the list: `names` and `active` made of the list there is. *)
LEMMA ListUpdated ==
  ASSUME EventInv,
         NEW names \in [EventPage!Ids -> EventPage!AllNames], NEW active \in EventPage!Ids \cup {None},
         EventPage!UpdateList(names, active), unheard' = unheard \cup {EventPage!List},
         editor' \in EventEditorType, GroupsTold(editor'),
         UNCHANGED <<eventDoc, shownList>>,
         conflictImport' \in EventPage!Ids \cup {None}, importTarget' \in EventImportType, OneDialog',
         shownList = eventList => active = None \/ names[active] # NoName,
         clashed \/ importTarget'.id = None \/ names[importTarget'.id] \in {NoName, importTarget'.name},
         clashed \/ \A id \in EventPage!Ids : names[id] \in {NoName, eventDoc[id].name} \/ importTarget'.id = id
  PROVE  EventInv'
<1> USE EventConstants
<1>1. CASE EventPage!List \in unheard
  <2>1. eventList' = eventList /\ clashed' = TRUE
    BY <1>1 DEF EventPage!UpdateList
  <2>2. EventTyped'
    BY <2>1 DEF EventInv, EventTyped
  <2> QED
    BY <2>1, <2>2 DEF EventInv, ListHeard, ImportNamed, EventPage!NamesAgree, EventPage!ActiveListed
<1>2. CASE EventPage!List \notin unheard
  <2>1. eventList' = [name |-> names, active |-> active] /\ clashed' = clashed
    BY <1>2 DEF EventPage!UpdateList
  <2>2. eventList'.name = names /\ eventList'.active = active /\ eventList' \in EventListType
    BY <2>1 DEF EventListType
  <2>3. EventTyped'
    BY <2>1, <2>2 DEF EventInv, EventTyped
  <2>4. shownList = eventList
    BY <1>2 DEF EventInv, ListHeard
  <2>5. EventPage!ActiveListed'
    BY <2>2, <2>4 DEF EventPage!ActiveListed
  <2>6. EventPage!NamesAgree' /\ ImportNamed'
    BY <2>1, <2>2 DEF EventPage!NamesAgree, ImportNamed
  <2> QED
    BY <2>3, <2>5, <2>6 DEF EventInv, ListHeard
<1> QED
  BY <1>1, <1>2

LEMMA EventInductive ==
  ASSUME EventInv, [EventPage!Next]_(EventPage!eventVars)
  PROVE  EventInv'
<1> USE EventConstants
<1>1. EventTyped /\ ListHeard /\ OneDialog /\ ImportNamed /\ GroupsTold(editor) /\ editor \in EventEditorType
      /\ EventPage!NamesAgree /\ EventPage!ActiveListed
  BY DEF EventInv, EventTyped
<1>2. /\ eventList.name \in [EventPage!Ids -> EventPage!AllNames] /\ eventList.active \in EventPage!Ids \cup {None}
      /\ shownList.name \in [EventPage!Ids -> EventPage!AllNames] /\ shownList \in EventListType
      /\ EventNames \cup {NoName, ImportName, CopyName} = EventPage!AllNames
  BY <1>1 DEF EventTyped, EventListType, EventPage!AllNames
<1>3. ASSUME NEW eid \in EventPage!Ids, EventPage!setActiveEvent(eid) PROVE EventInv'
  <2>1. /\ EventPage!UpdateList(eventList.name, eid) /\ unheard' = unheard \cup {EventPage!List}
        /\ shownList.name[eid] # NoName
        /\ UNCHANGED <<eventDoc, shownList, editor, conflictImport, importTarget>>
    BY <1>3 DEF EventPage!setActiveEvent, EventPage!pageVars
  <2>2. OneDialog' /\ conflictImport' \in EventPage!Ids \cup {None} /\ importTarget' \in EventImportType
    BY <1>1, <2>1 DEF OneDialog, EventTyped
  <2>3. clashed \/ \A id \in EventPage!Ids : eventList.name[id] \in {NoName, eventDoc[id].name} \/ importTarget'.id = id
    BY <1>1, <2>1 DEF EventPage!NamesAgree
  <2>4. shownList = eventList => eid = None \/ eventList.name[eid] # NoName
    BY <2>1
  <2>5. clashed \/ importTarget'.id = None \/ eventList.name[importTarget'.id] \in {NoName, importTarget'.name}
    BY <1>1, <2>1 DEF ImportNamed
  <2>6. editor' \in EventEditorType /\ GroupsTold(editor')
    BY <1>1, <2>1
  <2> QED
    BY <1>2, <2>1, <2>2, <2>3, <2>4, <2>5, <2>6, ListUpdated
<1>4. ASSUME NEW eid \in EventPage!Ids, EventPage!handleDelete(eid) PROVE EventInv'
  <2> DEFINE names == [eventList.name EXCEPT ![eid] = NoName]
             now == IF eventList.active = eid THEN None ELSE eventList.active
  <2>1. /\ EventPage!UpdateList(names, now) /\ unheard' = unheard \cup {EventPage!List}
        /\ editor' = IF editor.id = eid THEN EventPage!Closed ELSE editor
        /\ UNCHANGED <<eventDoc, shownList, conflictImport, importTarget>>
    BY <1>4 DEF EventPage!handleDelete, EventPage!Renamed
  <2>2. OneDialog' /\ conflictImport' \in EventPage!Ids \cup {None} /\ importTarget' \in EventImportType
    BY <1>1, <2>1 DEF OneDialog, EventTyped
  <2>3. names \in [EventPage!Ids -> EventPage!AllNames] /\ now \in EventPage!Ids \cup {None}
    BY <1>2
  <2>4. clashed \/ \A id \in EventPage!Ids : names[id] \in {NoName, eventDoc[id].name} \/ importTarget'.id = id
    BY <1>1, <1>2, <2>1 DEF EventPage!NamesAgree
  <2>5. shownList = eventList => now = None \/ names[now] # NoName
    BY <1>1, <1>2 DEF EventPage!ActiveListed
  <2>6. importTarget.id \in EventPage!Ids \cup {None}
    BY <1>1 DEF EventTyped, EventImportType
  <2>7. clashed \/ importTarget'.id = None \/ names[importTarget'.id] \in {NoName, importTarget'.name}
    BY <1>1, <1>2, <2>1, <2>6 DEF ImportNamed
  <2>8. editor' \in EventEditorType /\ GroupsTold(editor')
    BY <1>1, <2>1, ClosedSound
  <2> HIDE DEF names, now
  <2> QED
    BY <2>1, <2>2, <2>3, <2>4, <2>5, <2>7, <2>8, ListUpdated
<1>5. ASSUME NEW eid \in EventPage!Ids, EventPage!Open(eid) PROVE EventInv'
  <2>1. editor' \in EventEditorType /\ GroupsTold(editor')
    BY <1>2, <1>5, ClosedSound, HydratedKeeps DEF EventPage!Open
  <2> QED
    BY <1>5, <2>1, EditorKeeps DEF EventPage!Open
<1>6. ASSUME EventPage!resetForm PROVE EventInv'
  BY <1>6, ClosedSound, EditorKeeps DEF EventPage!resetForm
<1>7. ASSUME NEW ed \in EventEditorType, GroupsTold(ed), EventPage!Edit(ed) PROVE EventInv'
  <2>1. editor' \in EventEditorType /\ GroupsTold(editor')
    BY <1>2, <1>7, HydratedKeeps DEF EventPage!Edit
  <2> QED
    BY <1>7, <2>1, EditorKeeps DEF EventPage!Edit
<1>8. ASSUME NEW name \in EventNames, EventPage!setName(name) PROVE EventInv'
  <2>1. [editor EXCEPT !.name = name] \in EventEditorType /\ GroupsTold([editor EXCEPT !.name = name])
    BY <1>1, <1>2 DEF EventEditorType, GroupsTold
  <2> QED
    BY <1>7, <1>8, <2>1 DEF EventPage!setName
<1>9. ASSUME NEW g \in AgeGroups, EventPage!addAgeGroup(g) PROVE EventInv'
  <2> DEFINE ed == [editor EXCEPT !.ageGroups = @ \cup {g}, !.added = @ \cup ({g} \ editor.removed),
                                  !.removed = @ \ {g}]
  <2>1. g \notin editor.ageGroups /\ EventPage!Edit(ed)
    BY <1>9 DEF EventPage!addAgeGroup
  <2>2. ed \in EventEditorType
    BY <1>1 DEF EventEditorType
  <2>3. /\ ed.ageGroups = editor.ageGroups \cup {g} /\ ed.added = editor.added \cup ({g} \ editor.removed)
        /\ ed.removed = editor.removed \ {g} /\ ed.baseAgeGroups = editor.baseAgeGroups
    BY <1>1 DEF EventEditorType
  <2> HIDE DEF ed
  <2>4. GroupsTold(ed)
    BY <1>1, <2>1, <2>3 DEF GroupsTold
  <2> QED
    BY <1>7, <2>1, <2>2, <2>4
<1>10. ASSUME NEW g \in AgeGroups, EventPage!deleteAgeGroup(g) PROVE EventInv'
  <2> DEFINE ed == [editor EXCEPT !.ageGroups = @ \ {g}, !.added = @ \ {g},
                                  !.removed = @ \cup ({g} \ editor.added)]
  <2>1. g \in editor.ageGroups /\ EventPage!Edit(ed)
    BY <1>10 DEF EventPage!deleteAgeGroup
  <2>2. ed \in EventEditorType
    BY <1>1 DEF EventEditorType
  <2>3. /\ ed.ageGroups = editor.ageGroups \ {g} /\ ed.added = editor.added \ {g}
        /\ ed.removed = editor.removed \cup ({g} \ editor.added) /\ ed.baseAgeGroups = editor.baseAgeGroups
    BY <1>1 DEF EventEditorType
  <2> HIDE DEF ed
  <2>4. GroupsTold(ed)
    BY <1>1, <2>1, <2>3 DEF GroupsTold
  <2> QED
    BY <1>7, <2>1, <2>2, <2>4
<1>11. ASSUME EventPage!handleSave PROVE EventInv'
  <2> DEFINE eid == editor.id
             names == [eventList.name EXCEPT ![eid] = editor.name]
             doc == [name |-> editor.name, ageGroups |-> editor.ageGroups]
  <2>1. eid \in EventPage!Ids /\ editor.name \in EventPage!AllNames /\ editor.name # NoName /\ doc \in EventPage!Docs
    BY <1>1, <1>11 DEF EventPage!handleSave, EventEditorType, EventPage!Docs
  <2>2. names \in [EventPage!Ids -> EventPage!AllNames] /\ names[eid] = editor.name
        /\ \A id \in EventPage!Ids : id # eid => names[id] = eventList.name[id]
    BY <1>2, <2>1
  <2>3. /\ eventDoc' = IF eid \in unheard THEN eventDoc ELSE [eventDoc EXCEPT ![eid] = doc]
        /\ eventList' = IF EventPage!List \in unheard THEN eventList ELSE [eventList EXCEPT !.name = names]
        /\ clashed' = (clashed \/ {EventPage!List, eid} \cap unheard # {} \/ importTarget.id = eid)
        /\ unheard' = unheard \cup {EventPage!List, eid}
        /\ importTarget' = EventPage!Outdated(eid) /\ editor' = EventPage!Closed
        /\ UNCHANGED <<shownList, conflictImport>>
    BY <1>11 DEF EventPage!handleSave, EventPage!Renamed
  <2> HIDE DEF names, doc
  <2>4. /\ importTarget' \in EventImportType /\ importTarget'.id = importTarget.id /\ importTarget'.name = importTarget.name
        /\ importTarget.id = None => importTarget'.knows = importTarget.knows
    BY <1>1, <2>1, <2>3 DEF EventPage!Outdated, EventTyped, EventImportType
  <2>5. eventList' \in EventListType /\ eventDoc' \in [EventPage!Ids -> EventPage!Docs] /\ clashed' \in BOOLEAN
        /\ eventList'.active = eventList.active
    BY <1>1, <2>1, <2>2, <2>3 DEF EventTyped, EventListType
  <2>6. EventTyped'
    BY <1>1, <2>1, <2>3, <2>4, <2>5, ClosedSound DEF EventTyped
  <2>7. ListHeard' /\ OneDialog' /\ GroupsTold(editor)'
    BY <1>1, <2>3, <2>4, ClosedSound DEF ListHeard, OneDialog
  <2>8. ASSUME EventPage!List \notin unheard PROVE eventList'.name = names
    BY <1>1, <2>3, <2>8 DEF EventTyped, EventListType
  <2>9. EventPage!ActiveListed'
    <3>1. CASE EventPage!List \in unheard
      BY <1>1, <2>3, <3>1 DEF EventPage!ActiveListed
    <3>2. CASE EventPage!List \notin unheard
      BY <1>1, <1>2, <2>1, <2>2, <2>5, <2>8, <3>2 DEF EventPage!ActiveListed
    <3> QED
      BY <3>1, <3>2
  <2>10. ASSUME ~clashed' PROVE ImportNamed' /\ EventPage!NamesAgree'
    <3>1. ~clashed /\ EventPage!List \notin unheard /\ eid \notin unheard /\ importTarget.id # eid
      BY <2>3, <2>10
    <3>2. eventList'.name = names /\ eventDoc' = [eventDoc EXCEPT ![eid] = doc]
      BY <2>3, <2>8, <3>1
    <3>3. eventDoc'[eid].name = editor.name /\ \A id \in EventPage!Ids : id # eid => eventDoc'[id] = eventDoc[id]
      BY <1>1, <2>1, <3>2 DEF EventTyped, doc
    <3>4. importTarget.id \in EventPage!Ids \cup {None}
      BY <1>1 DEF EventTyped, EventImportType
    <3>5. ImportNamed'
      BY <1>1, <2>2, <2>4, <3>1, <3>2, <3>4 DEF ImportNamed
    <3>6. EventPage!NamesAgree'
      BY <1>1, <2>1, <2>2, <2>4, <3>1, <3>2, <3>3 DEF EventPage!NamesAgree
    <3> QED
      BY <3>5, <3>6
  <2>11. ImportNamed' /\ EventPage!NamesAgree'
    BY <2>10 DEF ImportNamed, EventPage!NamesAgree
  <2> QED
    BY <2>6, <2>7, <2>9, <2>11 DEF EventInv
<1>12. ASSUME NEW eid \in EventPage!Ids, NEW name \in {ImportName, CopyName}, EventPage!commitImport(eid, name),
              importTarget.id = None, conflictImport' = None, UNCHANGED <<eventDoc, shownList, editor>>
       PROVE  EventInv'
  <2> DEFINE names == [eventList.name EXCEPT ![eid] = name]
  <2>1. /\ EventPage!UpdateList(names, eventList.active) /\ unheard' = unheard \cup {EventPage!List}
        /\ importTarget' = [id |-> eid, name |-> name, knows |-> "nothing"]
    BY <1>12 DEF EventPage!commitImport, EventPage!Renamed
  <2>2. importTarget' \in EventImportType /\ OneDialog' /\ conflictImport' \in EventPage!Ids \cup {None}
    BY <1>2, <1>12, <2>1 DEF EventImportType, OneDialog
  <2>3. names \in [EventPage!Ids -> EventPage!AllNames]
    BY <1>2, <1>12
  <2>4. clashed \/ \A id \in EventPage!Ids : names[id] \in {NoName, eventDoc[id].name} \/ importTarget'.id = id
    BY <1>1, <1>2, <1>12, <2>1 DEF EventPage!NamesAgree
  <2>5. shownList = eventList => eventList.active = None \/ names[eventList.active] # NoName
    BY <1>1, <1>2, <1>12 DEF EventPage!ActiveListed
  <2>6. clashed \/ importTarget'.id = None \/ names[importTarget'.id] \in {NoName, importTarget'.name}
    BY <1>2, <2>1
  <2>7. editor' \in EventEditorType /\ GroupsTold(editor')
    BY <1>1, <1>12
  <2> HIDE DEF names
  <2> QED
    BY <1>2, <1>12, <2>1, <2>2, <2>3, <2>4, <2>5, <2>6, <2>7, ListUpdated
<1>13. ASSUME conflictImport' \in EventPage!Ids \cup {None}, conflictImport' = None \/ importTarget.id = None,
              UNCHANGED <<eventList, eventDoc, shownList, editor, clashed, unheard, importTarget>>
       PROVE  EventInv'
  BY <1>1, <1>13 DEF EventInv, EventTyped, ListHeard, OneDialog, ImportNamed, EventPage!NamesAgree, EventPage!ActiveListed
<1>14. ASSUME NEW eid \in Events, EventPage!handleImportFile(eid) PROVE EventInv'
  <2>1. eid \in EventPage!Ids /\ importTarget.id = None /\ conflictImport = None
        /\ UNCHANGED <<eventDoc, shownList, editor>>
    BY <1>14 DEF EventPage!Ids, EventPage!handleImportFile
  <2>2. CASE shownList.name[eid] # NoName
    BY <1>13, <1>14, <2>1, <2>2 DEF EventPage!handleImportFile
  <2>3. CASE ~(shownList.name[eid] # NoName)
    BY <1>12, <1>14, <2>1, <2>3 DEF EventPage!handleImportFile
  <2> QED
    BY <2>2, <2>3
<1>15. ASSUME EventPage!resolveConflict PROVE EventInv'
  <2>1. /\ conflictImport \in EventPage!Ids /\ conflictImport' = None /\ importTarget.id = None
        /\ UNCHANGED <<eventDoc, shownList, editor>>
    BY <1>1, <1>15 DEF EventPage!resolveConflict, EventTyped, OneDialog
  <2>2. Copy \in EventPage!Ids
    BY DEF EventPage!Ids
  <2> QED
    BY <1>12, <1>13, <1>15, <2>1, <2>2 DEF EventPage!resolveConflict
<1>16. ASSUME EventPage!ImportLoaded PROVE EventInv'
  <2>1. importTarget' \in EventImportType /\ importTarget'.id = importTarget.id /\ importTarget'.name = importTarget.name
    BY <1>1, <1>16 DEF EventPage!ImportLoaded, EventTyped, EventImportType
  <2> QED
    BY <1>1, <1>16, <2>1 DEF EventPage!ImportLoaded, EventInv, EventTyped, ListHeard, OneDialog, ImportNamed,
                             EventPage!NamesAgree, EventPage!ActiveListed
<1>17. ASSUME EventPage!ImportWritten PROVE EventInv'
  <2> DEFINE eid == importTarget.id
             doc == [name |-> importTarget.name, ageGroups |-> AgeGroups]
  <2>1. /\ importTarget' = EventPage!NoImport
        /\ UNCHANGED <<eventList, shownList, editor, conflictImport>>
    BY <1>17 DEF EventPage!ImportWritten
  <2>2. importTarget' \in EventImportType /\ importTarget'.id = None /\ importTarget'.knows = "nothing"
    BY <2>1 DEF EventPage!NoImport, EventImportType, EventPage!AllNames
  <2>3. importTarget.id \in EventPage!Ids \cup {None} /\ doc \in EventPage!Docs /\ doc.name = importTarget.name
    BY <1>1 DEF EventTyped, EventImportType, EventPage!Docs
  <2>4. CASE importTarget.knows # "present"
    <3>1. clashed' = TRUE /\ UNCHANGED <<eventDoc, unheard>>
      BY <1>17, <2>4 DEF EventPage!ImportWritten
    <3> QED
      BY <1>1, <2>1, <2>2, <3>1 DEF EventInv, EventTyped, ListHeard, OneDialog, ImportNamed,
                                    EventPage!NamesAgree, EventPage!ActiveListed
  <2>5. CASE importTarget.knows = "present"
    <3>1. eventDoc' = [eventDoc EXCEPT ![eid] = doc] /\ unheard' = unheard \cup {eid} /\ clashed' = clashed
      BY <1>17, <2>5 DEF EventPage!ImportWritten
    <3> HIDE DEF doc
    <3>2. eid \in EventPage!Ids
      BY <1>1, <2>3, <2>5 DEF OneDialog
    <3>3. EventTyped'
      BY <1>1, <2>1, <2>2, <2>3, <3>1, <3>2 DEF EventTyped
    <3>4. EventPage!NamesAgree'
      BY <1>1, <2>1, <2>3, <3>1, <3>2 DEF EventTyped, ImportNamed, EventPage!NamesAgree
    <3> QED
      BY <1>1, <2>1, <2>2, <3>1, <3>2, <3>3, <3>4
         DEF EventInv, ListHeard, OneDialog, ImportNamed, EventPage!ActiveListed
  <2> QED
    BY <2>4, <2>5
<1>18. ASSUME EventPage!HearList PROVE EventInv'
  <2>1. editor' \in EventEditorType /\ GroupsTold(editor')
    BY <1>1, <1>18, HydratedKeeps DEF EventPage!HearList, EventTyped
  <2>2. /\ unheard' = unheard \ {EventPage!List} /\ shownList' = eventList
        /\ UNCHANGED <<eventList, eventDoc, conflictImport, importTarget, clashed>>
    BY <1>18 DEF EventPage!HearList
  <2> QED
    BY <1>1, <2>1, <2>2 DEF EventInv, EventTyped, ListHeard, OneDialog, ImportNamed, EventPage!NamesAgree, EventPage!ActiveListed
<1>19. ASSUME EventPage!HearEvent PROVE EventInv'
  <2> DEFINE ed == [editor EXCEPT !.loaded = TRUE, !.raw = eventDoc[editor.id]]
  <2>1. editor.id \in EventPage!Ids /\ unheard' = unheard \ {editor.id} /\ editor' = EventPage!Hydrated(ed, shownList)
        /\ UNCHANGED <<eventList, eventDoc, shownList, conflictImport, importTarget, clashed>>
    BY <1>1, <1>19 DEF EventPage!HearEvent, EventEditorType
  <2>2. eventDoc[editor.id] \in EventPage!Docs
    BY <1>1, <2>1 DEF EventTyped
  <2>3. ed \in EventEditorType /\ GroupsTold(ed)
    BY <1>1, <2>2 DEF EventEditorType, GroupsTold
  <2> HIDE DEF ed
  <2>4. editor' \in EventEditorType /\ GroupsTold(editor')
    BY <1>2, <2>1, <2>3, HydratedKeeps
  <2> QED
    BY <2>1, <2>4, EditorKeeps
<1>20. ASSUME EventPage!OtherPage PROVE EventInv'
  <2>1. PICK eid \in EventPage!Ids :
          /\ eventList.name[eid] # NoName
          /\ \/ /\ eventList' = [name |-> EventPage!Renamed(eid, NoName),
                                 active |-> IF eventList.active = eid THEN None ELSE eventList.active]
                /\ unheard' = unheard \cup {EventPage!List}
                /\ UNCHANGED <<eventDoc, importTarget, clashed>>
             \/ /\ eventList' = [eventList EXCEPT !.active = eid]
                /\ unheard' = unheard \cup {EventPage!List}
                /\ UNCHANGED <<eventDoc, importTarget, clashed>>
             \/ \E name \in EventNames :
                  /\ eventList' = [eventList EXCEPT !.name = EventPage!Renamed(eid, name)]
                  /\ eventDoc' = [eventDoc EXCEPT ![eid] = [name |-> name, ageGroups |-> {}]]
                  /\ unheard' = unheard \cup {EventPage!List, eid}
                  /\ importTarget' = EventPage!Outdated(eid)
                  /\ clashed' = (clashed \/ importTarget.id = eid)
    BY <1>20 DEF EventPage!OtherPage
  <2>2. UNCHANGED <<shownList, editor, conflictImport>>
    BY <1>20 DEF EventPage!OtherPage
  <2>3. importTarget.id \in EventPage!Ids \cup {None}
    BY <1>1 DEF EventTyped, EventImportType
  <2>4. CASE /\ eventList' = [name |-> EventPage!Renamed(eid, NoName),
                              active |-> IF eventList.active = eid THEN None ELSE eventList.active]
             /\ unheard' = unheard \cup {EventPage!List}
             /\ UNCHANGED <<eventDoc, importTarget, clashed>>
    <3>1. /\ eventList'.name = [eventList.name EXCEPT ![eid] = NoName] /\ eventList' \in EventListType
          /\ eventList'.active = IF eventList.active = eid THEN None ELSE eventList.active
      BY <1>2, <2>4 DEF EventPage!Renamed, EventListType
    <3>2. EventTyped' /\ ListHeard' /\ OneDialog'
      BY <1>1, <2>2, <2>4, <3>1 DEF EventTyped, ListHeard, OneDialog
    <3>3. EventPage!ActiveListed'
      BY <1>1, <1>2, <3>1 DEF EventPage!ActiveListed
    <3>4. ImportNamed' /\ EventPage!NamesAgree'
      BY <1>1, <1>2, <2>3, <2>4, <3>1 DEF ImportNamed, EventPage!NamesAgree
    <3> QED
      BY <1>1, <2>2, <3>2, <3>3, <3>4 DEF EventInv
  <2>5. CASE /\ eventList' = [eventList EXCEPT !.active = eid]
             /\ unheard' = unheard \cup {EventPage!List}
             /\ UNCHANGED <<eventDoc, importTarget, clashed>>
    <3>1. eventList' \in EventListType /\ eventList'.name = eventList.name /\ eventList'.active = eid
      BY <1>1, <2>5 DEF EventTyped, EventListType
    <3>2. EventTyped' /\ ListHeard' /\ OneDialog'
      BY <1>1, <2>2, <2>5, <3>1 DEF EventTyped, ListHeard, OneDialog
    <3> QED
      BY <1>1, <2>1, <2>2, <2>5, <3>1, <3>2 DEF EventInv, ImportNamed, EventPage!NamesAgree, EventPage!ActiveListed
  <2>6. CASE \E name \in EventNames :
               /\ eventList' = [eventList EXCEPT !.name = EventPage!Renamed(eid, name)]
               /\ eventDoc' = [eventDoc EXCEPT ![eid] = [name |-> name, ageGroups |-> {}]]
               /\ unheard' = unheard \cup {EventPage!List, eid}
               /\ importTarget' = EventPage!Outdated(eid)
               /\ clashed' = (clashed \/ importTarget.id = eid)
    <3>1. PICK name \in EventNames :
               /\ eventList' = [eventList EXCEPT !.name = EventPage!Renamed(eid, name)]
               /\ eventDoc' = [eventDoc EXCEPT ![eid] = [name |-> name, ageGroups |-> {}]]
               /\ unheard' = unheard \cup {EventPage!List, eid}
               /\ importTarget' = EventPage!Outdated(eid)
               /\ clashed' = (clashed \/ importTarget.id = eid)
      BY <2>6
    <3> DEFINE doc == [name |-> name, ageGroups |-> {}]
    <3>2. importTarget' \in EventImportType /\ importTarget'.id = importTarget.id /\ importTarget'.name = importTarget.name
          /\ (importTarget.id = None => importTarget'.knows = importTarget.knows)
      BY <1>1, <3>1 DEF EventPage!Outdated, EventTyped, EventImportType
    <3>3. /\ eventList' \in EventListType /\ eventList'.active = eventList.active
          /\ eventList'.name = [eventList.name EXCEPT ![eid] = name] /\ name # NoName
      BY <1>1, <1>2, <3>1 DEF EventTyped, EventListType, EventPage!Renamed
    <3>4. doc \in EventPage!Docs /\ doc.name = name /\ eventDoc' = [eventDoc EXCEPT ![eid] = doc]
      BY <1>2, <3>1 DEF EventPage!Docs
    <3> HIDE DEF doc
    <3>5. EventTyped' /\ ListHeard' /\ OneDialog'
      BY <1>1, <2>2, <3>1, <3>2, <3>3, <3>4 DEF EventTyped, ListHeard, OneDialog
    <3>6. EventPage!ActiveListed'
      BY <1>1, <1>2, <3>3 DEF EventPage!ActiveListed
    <3>7. ASSUME ~clashed' PROVE ImportNamed' /\ EventPage!NamesAgree'
      <4>1. ~clashed /\ importTarget.id # eid
        BY <3>1, <3>7
      <4>2. eventDoc'[eid].name = name /\ \A id \in EventPage!Ids : id # eid => eventDoc'[id] = eventDoc[id]
        BY <1>1, <3>4 DEF EventTyped
      <4> QED
        BY <1>1, <1>2, <2>3, <3>2, <3>3, <4>1, <4>2 DEF ImportNamed, EventPage!NamesAgree
    <3>8. ImportNamed' /\ EventPage!NamesAgree'
      BY <3>7 DEF ImportNamed, EventPage!NamesAgree
    <3> QED
      BY <1>1, <2>2, <3>5, <3>6, <3>8 DEF EventInv
  <2> QED
    BY <2>1, <2>4, <2>5, <2>6
<1>21. ASSUME UNCHANGED EventPage!eventVars PROVE EventInv'
  BY <1>1, <1>21 DEF EventPage!eventVars, EventInv, EventTyped, ListHeard, OneDialog, ImportNamed,
                     EventPage!NamesAgree, EventPage!ActiveListed
<1>22. ASSUME NEW eid \in EventPage!Ids, EventPage!EventRow(eid) \/ EventPage!startNewEvent(eid) PROVE EventInv'
  BY <1>3, <1>4, <1>5, <1>22 DEF EventPage!EventRow, EventPage!startEdit, EventPage!startNewEvent
<1>23. ASSUME EventPage!EditorForm \/ EventPage!AgeGroupsTable \/ EventPage!ConflictDialog PROVE EventInv'
  BY <1>6, <1>8, <1>9, <1>10, <1>11, <1>15, <1>23
     DEF EventPage!EditorForm, EventPage!AgeGroupsTable, EventPage!ConflictDialog
<1> QED
  BY <1>14, <1>16, <1>17, <1>18, <1>19, <1>20, <1>21, <1>22, <1>23 DEF EventPage!Next

LEMMA EventInitially ==
  ASSUME EventPage!Init
  PROVE  EventInv
<1> USE EventConstants
<1> DEFINE first == CHOOSE id \in Events : TRUE
<1>1. first \in EventPage!Ids
  BY DEF EventPage!Ids
<1>2. /\ eventList = [name |-> [id \in EventPage!Ids |-> IF id = first THEN ImportName ELSE NoName], active |-> first]
      /\ eventDoc = [id \in EventPage!Ids |-> IF id = first THEN [name |-> ImportName, ageGroups |-> AgeGroups]
                                              ELSE EventPage!Absent]
      /\ unheard = {} /\ shownList = eventList /\ editor = EventPage!Closed
      /\ conflictImport = None /\ importTarget = EventPage!NoImport /\ clashed = FALSE
  BY DEF EventPage!Init
<1> HIDE DEF first
<1>3. /\ eventList.name = [id \in EventPage!Ids |-> IF id = first THEN ImportName ELSE NoName]
      /\ eventList.active = first /\ eventList \in EventListType
  BY <1>1, <1>2 DEF EventListType, EventPage!AllNames
<1>4. eventDoc \in [EventPage!Ids -> EventPage!Docs] /\ eventDoc[first].name = ImportName
  BY <1>1, <1>2 DEF EventPage!Docs, EventPage!Absent, EventPage!AllNames
<1>5. importTarget \in EventImportType /\ importTarget.id = None /\ importTarget.knows = "nothing"
  BY <1>2 DEF EventPage!NoImport, EventImportType, EventPage!AllNames
<1>6. EventTyped /\ ListHeard /\ OneDialog /\ ImportNamed /\ GroupsTold(editor)
  BY <1>2, <1>3, <1>4, <1>5, ClosedSound DEF EventTyped, ListHeard, OneDialog, ImportNamed
<1>7. EventPage!NamesAgree /\ EventPage!ActiveListed
  BY <1>1, <1>3, <1>4 DEF EventPage!NamesAgree, EventPage!ActiveListed
<1> QED
  BY <1>6, <1>7 DEF EventInv

LEMMA EventInvAgrees ==
  ASSUME EventInv
  PROVE  EventPage!TypeOK /\ EventPage!NamesAgree /\ EventPage!ActiveListed /\ EventPage!GroupsAsTyped
BY DEF EventInv, EventTyped, EventListType, EventEditorType, EventImportType, OneDialog, GroupsTold,
       EventPage!TypeOK, EventPage!GroupsAsTyped

(* Only handleSave, of what the operator does, writes the document of an event. *)
LEMMA EventStepSaves ==
  ASSUME EventInv, [EventPage!Next]_(EventPage!eventVars)
  PROVE  EventPage!SavedAsTyped
<1>1. CASE EventPage!handleSave
  BY <1>1 DEF EventInv, EventTyped, EventEditorType, GroupsTold, EventPage!handleSave, EventPage!SavedAsTyped
<1>2. CASE inputs' = inputs \/ eventDoc' = eventDoc
  BY <1>2 DEF EventPage!SavedAsTyped
<1>3. EventPage!handleSave \/ inputs' = inputs \/ eventDoc' = eventDoc
  BY Zenon DEF EventPage!eventVars, EventPage!pageVars, EventPage!Next, EventPage!EventRow, EventPage!setActiveEvent, EventPage!startEdit,
     EventPage!handleDelete, EventPage!startNewEvent, EventPage!Open, EventPage!handleImportFile, EventPage!EditorForm,
     EventPage!resetForm, EventPage!setName, EventPage!Edit, EventPage!AgeGroupsTable, EventPage!addAgeGroup,
     EventPage!deleteAgeGroup, EventPage!ConflictDialog, EventPage!resolveConflict, EventPage!ImportLoaded,
     EventPage!ImportWritten, EventPage!HearList, EventPage!HearEvent, EventPage!OtherPage, EventPage!Other
<1> QED
  BY <1>1, <1>2, <1>3

-----------------------------------------------------------------------------
(* The points panel.  A field the operator has filled holds a rider and no proposal; one that holds
   a proposal holds the last one. *)
PointFields(fd) ==
  [mode : {"lap", "finish"}, lap : {fd.lap}, sel : [1 .. 3 -> Bibs \cup {0}], typed : [1 .. 3 -> BOOLEAN],
   auto : [1 .. 3 -> Bibs \cup {0}], overridden : {fd.overridden}, click : {fd.click},
   enterRequested : {fd.enterRequested}]

FieldsSound(fd) ==
  /\ fd \in PointFields(fd)
  /\ \A p \in 1 .. 3 :
       /\ fd.typed[p] => fd.sel[p] # 0 /\ fd.auto[p] = 0
       /\ ~fd.typed[p] /\ fd.sel[p] # 0 /\ fd.auto[p] # 0 => fd.sel[p] = fd.auto[p]

(* The fields that hold proposals hold the riders in front, f being the feed and `gone` out of the race. *)
InFront(fd, f, gone) ==
  \A p \in PointsPanel!FieldsOf(fd.mode) :
    LET place == IF fd.mode = "finish" THEN 4 - p ELSE 3 - p
    IN fd.sel[p] # 0 /\ ~fd.typed[p] /\ fd.auto[p] # 0
         /\ place \in DOMAIN f.order /\ f.order[place] \notin gone => fd.sel[p] = f.order[place]

FeedKnown == liveFeed \in Feeds \cup {PointsPanel!NoFeed}

FieldsRight == FieldsSound(fields) /\ (syncEnabled /\ ~fields.overridden => InFront(fields, liveFeed, outOfRace))

(* While the dialog is open or starters are awaited, but not both, a save is pending. *)
SaveHeld ==
  /\ asked = {} \/ awaited = {}
  /\ asked # {} \/ awaited # {} => pendingSave # PointsPanel!NoSave

PointsInv == FeedKnown /\ inputs \in Nat /\ SaveHeld /\ FieldsRight

(* What the operator has entered is the same. *)
SameEntries(fd, new) ==
  /\ new.lap = fd.lap /\ new.overridden = fd.overridden
  /\ \A p \in 1 .. 3 : fd.typed[p] => new.typed[p] /\ new.sel[p] = fd.sel[p]
SameFields(fd, new) ==
  new.mode = fd.mode /\ new.sel = fd.sel /\ new.typed = fd.typed /\ new.auto = fd.auto /\ new.overridden = fd.overridden

LEMMA FeedConstants ==
  0 \notin Bibs /\ \A f \in Feeds : f.order \in Seq(Bibs)
BY RecordsAssumption

LEMMA FeedOrder ==
  ASSUME NEW f \in Feeds \cup {PointsPanel!NoFeed}
  PROVE  /\ f.order \in Seq(Bibs)
         /\ PointsPanel!TopBibs(f) \in Seq(Bibs)
         /\ \A i \in 1 .. 3 : /\ i \in DOMAIN PointsPanel!TopBibs(f) <=> i \in DOMAIN f.order
                              /\ i \in DOMAIN f.order => PointsPanel!TopBibs(f)[i] = f.order[i]
<1>1. f.order \in Seq(Bibs)
  <2>1. PointsPanel!NoFeed.order = <<>> /\ <<>> \in Seq(Bibs)
    BY DEF PointsPanel!NoFeed
  <2> QED
    BY <2>1, FeedConstants
<1> DEFINE n == Len(f.order)
           m == PointsPanel!Min({3, n})
<1>2. n \in Nat /\ DOMAIN f.order = 1 .. n
  BY <1>1
<1>3. m \in 0 .. n /\ m = IF n < 3 THEN n ELSE 3
  BY <1>2 DEF PointsPanel!Min
<1>4. PointsPanel!TopBibs(f) = SubSeq(f.order, 1, m)
  BY DEF PointsPanel!TopBibs
<1> HIDE DEF n, m
<1>5. /\ SubSeq(f.order, 1, m) \in Seq(Bibs) /\ DOMAIN SubSeq(f.order, 1, m) = 1 .. m
      /\ \A i \in 1 .. m : SubSeq(f.order, 1, m)[i] = f.order[i]
  BY <1>1, <1>2, <1>3
<1> QED
  BY <1>1, <1>2, <1>3, <1>4, <1>5

LEMMA ListedKeeps ==
  ASSUME NEW fd, NEW before, FieldsSound(fd)
  PROVE  /\ FieldsSound(PointsPanel!ListShows(fd)) /\ SameEntries(fd, PointsPanel!ListShows(fd))
         /\ SameFields(fd, PointsPanel!ListShows(fd))
         /\ FieldsSound(PointsPanel!Listed(before, fd)) /\ SameEntries(fd, PointsPanel!Listed(before, fd))
         /\ SameFields(fd, PointsPanel!Listed(before, fd))
<1> DEFINE new == PointsPanel!ListShows(fd)
<1>1. /\ new \in PointFields(new) /\ new.mode = fd.mode /\ new.sel = fd.sel /\ new.typed = fd.typed
      /\ new.auto = fd.auto /\ new.overridden = fd.overridden /\ new.lap = fd.lap
  BY DEF PointsPanel!ListShows, FieldsSound, PointFields
<1>2. FieldsSound(new) /\ SameEntries(fd, new) /\ SameFields(fd, new)
  BY <1>1 DEF FieldsSound, SameEntries, SameFields
<1>3. FieldsSound(fd) /\ SameEntries(fd, fd) /\ SameFields(fd, fd)
  BY DEF SameEntries, SameFields
<1> QED
  BY <1>2, <1>3 DEF PointsPanel!Listed

LEMMA WithRidersKeeps ==
  ASSUME NEW fd, FieldsSound(fd), NEW f \in Feeds \cup {PointsPanel!NoFeed}, NEW gone
  PROVE  LET new == PointsPanel!WithRiders(fd, f, gone)
         IN FieldsSound(new) /\ SameEntries(fd, new) /\ InFront(new, f, gone) /\ new.mode = fd.mode
<1> DEFINE top == PointsPanel!TopBibs(f)
           place(p) == IF fd.mode = "finish" THEN 4 - p ELSE 3 - p
           own(p) == fd.sel[p] = 0 \/ (fd.auto[p] # 0 /\ fd.sel[p] = fd.auto[p])
           replaced == {p \in PointsPanel!FieldsOf(fd.mode) : place(p) \in DOMAIN top /\ top[place(p)] \notin gone /\ own(p)}
           new == PointsPanel!WithRiders(fd, f, gone)
           sel == [p \in 1 .. 3 |-> IF p \in replaced THEN top[place(p)] ELSE fd.sel[p]]
           auto == [p \in 1 .. 3 |-> IF p \in replaced THEN top[place(p)] ELSE fd.auto[p]]
           typed == [p \in 1 .. 3 |-> p \notin replaced /\ fd.typed[p]]
<1>1. PointsPanel!FieldsOf(fd.mode) \subseteq 1 .. 3
      /\ \A p \in PointsPanel!FieldsOf(fd.mode) : place(p) \in 1 .. 3
  BY DEF PointsPanel!FieldsOf, PointsPanel!Points
<1>2. fd \in PointFields(fd) /\ fd.sel \in [1 .. 3 -> Bibs \cup {0}] /\ fd.typed \in [1 .. 3 -> BOOLEAN]
      /\ fd.auto \in [1 .. 3 -> Bibs \cup {0}]
  BY DEF FieldsSound, PointFields
<1>3. new = [fd EXCEPT !.sel = sel, !.auto = auto, !.typed = typed]
  BY <1>2 DEF PointsPanel!WithRiders, PointsPanel!Points, PointFields
<1>4. /\ top \in Seq(Bibs)
      /\ \A i \in 1 .. 3 : (i \in DOMAIN top <=> i \in DOMAIN f.order) /\ (i \in DOMAIN f.order => top[i] = f.order[i])
  BY FeedOrder
<1>5. \A p \in replaced : top[place(p)] \in Bibs
  BY <1>4
<1> HIDE DEF top
<1>6. sel \in [1 .. 3 -> Bibs \cup {0}] /\ auto \in [1 .. 3 -> Bibs \cup {0}] /\ typed \in [1 .. 3 -> BOOLEAN]
  BY <1>2, <1>5
<1> HIDE DEF sel, auto, typed, new
<1>7. /\ new \in PointFields(new) /\ new.sel = sel /\ new.auto = auto /\ new.typed = typed
      /\ new.mode = fd.mode /\ new.lap = fd.lap /\ new.overridden = fd.overridden
  BY <1>2, <1>3, <1>6 DEF PointFields
<1>8. /\ \A p \in replaced : sel[p] = auto[p] /\ sel[p] # 0 /\ ~typed[p] /\ (fd.sel[p] = 0 \/ fd.auto[p] # 0)
      /\ \A p \in 1 .. 3 \ replaced : sel[p] = fd.sel[p] /\ auto[p] = fd.auto[p] /\ typed[p] = fd.typed[p]
  <2>1. \A p \in replaced : sel[p] = auto[p] /\ sel[p] # 0 /\ (fd.sel[p] = 0 \/ fd.auto[p] # 0)
    BY <1>1, <1>5, FeedConstants DEF sel, auto
  <2>2. \A p \in 1 .. 3 \ replaced : sel[p] = fd.sel[p] /\ auto[p] = fd.auto[p]
    BY DEF sel, auto
  <2>3. \A p \in replaced : ~typed[p]
    BY <1>1 DEF typed
  <2>4. \A p \in 1 .. 3 \ replaced : typed[p] = fd.typed[p]
    BY <1>2 DEF typed
  <2> QED
    BY <2>1, <2>2, <2>3, <2>4
<1>9. FieldsSound(new)
  <2> HIDE DEF replaced
  <2> QED
    BY <1>7, <1>8 DEF FieldsSound
<1>10. SameEntries(fd, new)
  <2> HIDE DEF replaced
  <2> QED
    BY <1>7, <1>8 DEF FieldsSound, SameEntries
<1>11. InFront(new, f, gone)
  BY <1>1, <1>4, <1>7 DEF FieldsSound, InFront, sel, auto, typed
<1> QED
  BY <1>7, <1>9, <1>10, <1>11 DEF new

LEMMA ProposedKeeps ==
  ASSUME NEW fd, FieldsSound(fd), FeedKnown'
  PROVE  LET new == PointsPanel!Proposed(fd)
         IN /\ FieldsSound(new) /\ SameEntries(fd, new)
            /\ syncEnabled' /\ ~new.overridden => InFront(new, liveFeed', outOfRace')
<1> DEFINE ridden == PointsPanel!WithRiders(fd, liveFeed', outOfRace')
           new == PointsPanel!Proposed(fd)
<1>1. CASE PointsPanel!Followed(fd)
  <2>1. FieldsSound(ridden) /\ SameEntries(fd, ridden) /\ InFront(ridden, liveFeed', outOfRace')
    BY WithRidersKeeps DEF FeedKnown
  <2>2. new = PointsPanel!Listed(fd, ridden)
    BY <1>1 DEF PointsPanel!Proposed
  <2> HIDE DEF ridden, new
  <2>3. FieldsSound(new) /\ SameEntries(ridden, new) /\ SameFields(ridden, new)
    BY <2>1, <2>2, ListedKeeps
  <2> QED
    BY <2>1, <2>3 DEF SameEntries, SameFields, InFront, new
<1>2. CASE ~PointsPanel!Followed(fd)
  BY <1>2 DEF PointsPanel!Proposed, PointsPanel!Followed, SameEntries
<1> QED
  BY <1>1, <1>2

(* The changes of the fields: none fills a field without a rider or leaves a proposal in one that is filled. *)
LEMMA FieldUpdates ==
  ASSUME NEW fd, FieldsSound(fd)
  PROVE  /\ \A l : FieldsSound([fd EXCEPT !.lap = l])
         /\ \A l, o : FieldsSound([fd EXCEPT !.lap = l, !.overridden = o])
                        /\ [fd EXCEPT !.lap = l, !.overridden = o].overridden = o
         /\ FieldsSound([fd EXCEPT !.mode = "finish"])
         /\ FieldsSound([fd EXCEPT !.enterRequested = FALSE])
         /\ \A sync : FieldsSound(PointsPanel!Prefill(fd, sync))
         /\ FieldsSound(PointsPanel!ResetInputs(fd))
<1>1. fd \in PointFields(fd)
  BY DEF FieldsSound
<1>2. ASSUME NEW l, NEW o
      PROVE  /\ FieldsSound([fd EXCEPT !.lap = l])
             /\ FieldsSound([fd EXCEPT !.lap = l, !.overridden = o])
             /\ [fd EXCEPT !.lap = l, !.overridden = o].overridden = o
  BY DEF FieldsSound, PointFields
<1>3. FieldsSound([fd EXCEPT !.mode = "finish"]) /\ FieldsSound([fd EXCEPT !.enterRequested = FALSE])
  BY DEF FieldsSound, PointFields
<1>4. FieldsSound([fd EXCEPT !.overridden = FALSE, !.auto = PointsPanel!NoRiders])
  BY DEF FieldsSound, PointFields, PointsPanel!NoRiders, PointsPanel!Points
<1>5. FieldsSound([fd EXCEPT !.sel = PointsPanel!NoRiders, !.typed = PointsPanel!Nobody, !.auto = PointsPanel!NoRiders])
  BY DEF FieldsSound, PointFields, PointsPanel!NoRiders, PointsPanel!Nobody, PointsPanel!Points
<1>6. FieldsSound(PointsPanel!ResetInputs(fd))
  BY <1>5, ListedKeeps DEF PointsPanel!ResetInputs
<1>7. \A sync : FieldsSound(PointsPanel!Prefill(fd, sync))
  BY <1>4 DEF PointsPanel!Prefill
<1> QED
  BY <1>2, <1>3, <1>6, <1>7

LEMMA SetKeeps ==
  ASSUME NEW fd, FieldsSound(fd), NEW p \in 1 .. 3, NEW bib \in Bibs \cup {0}
  PROVE  FieldsSound(PointsPanel!Set(fd, p, bib)) /\ PointsPanel!Set(fd, p, bib).overridden = TRUE
<1> DEFINE new == [fd EXCEPT !.sel[p] = bib, !.typed[p] = bib # 0, !.auto[p] = 0, !.overridden = TRUE]
<1>1. /\ fd \in PointFields(fd) /\ fd.sel \in [1 .. 3 -> Bibs \cup {0}] /\ fd.typed \in [1 .. 3 -> BOOLEAN]
      /\ fd.auto \in [1 .. 3 -> Bibs \cup {0}]
  BY DEF FieldsSound, PointFields
<1>2. /\ new.mode = fd.mode /\ new.lap = fd.lap /\ new.overridden = TRUE
      /\ new.sel = [fd.sel EXCEPT ![p] = bib] /\ new.typed = [fd.typed EXCEPT ![p] = bib # 0]
      /\ new.auto = [fd.auto EXCEPT ![p] = 0] /\ new.click = fd.click /\ new.enterRequested = fd.enterRequested
  BY <1>1 DEF PointFields
<1>3. new.sel \in [1 .. 3 -> Bibs \cup {0}] /\ new.typed \in [1 .. 3 -> BOOLEAN] /\ new.auto \in [1 .. 3 -> Bibs \cup {0}]
  BY <1>1, <1>2
<1>4. new \in PointFields(new)
  BY <1>1, <1>2, <1>3 DEF PointFields
<1> HIDE DEF new
<1>5. FieldsSound(new)
  <2>1. \A q \in 1 .. 3 \ {p} : new.sel[q] = fd.sel[q] /\ new.auto[q] = fd.auto[q]
    BY <1>1, <1>2
  <2>2. \A q \in 1 .. 3 \ {p} : new.typed[q] = fd.typed[q]
    BY <1>1, <1>2
  <2>3. new.sel[p] = bib /\ new.auto[p] = 0
    BY <1>1, <1>2
  <2>4. new.typed[p] = (bib # 0)
    BY <1>1, <1>2
  <2>5. ASSUME NEW q \in 1 .. 3
        PROVE  /\ new.typed[q] => new.sel[q] # 0 /\ new.auto[q] = 0
               /\ ~new.typed[q] /\ new.sel[q] # 0 /\ new.auto[q] # 0 => new.sel[q] = new.auto[q]
    <3>1. CASE q = p
      BY <2>3, <2>4, <3>1
    <3>2. CASE q # p
      BY <2>1, <2>2, <3>2 DEF FieldsSound
    <3> QED
      BY <3>1, <3>2
  <2> QED
    BY <1>4, <2>5 DEF FieldsSound
<1>6. PointsPanel!Set(fd, p, bib) = PointsPanel!Listed(fd, new)
  BY DEF PointsPanel!Set, new
<1> QED
  BY <1>2, <1>5, <1>6, ListedKeeps DEF SameFields

LEMMA FieldsProposed ==
  ASSUME NEW fd, FieldsSound(fd), FeedKnown', fields' = PointsPanel!Proposed(fd)
  PROVE  FieldsRight'
BY ProposedKeeps DEF FieldsRight

LEMMA FinishedKeeps ==
  ASSUME NEW fd, FieldsSound(fd)
  PROVE  /\ FieldsSound(PointsPanel!Finished(fd))
         /\ \A f : FieldsSound(PointsPanel!WithLap(fd, f))
BY FieldUpdates DEF PointsPanel!Finished, PointsPanel!WithFinish, PointsPanel!WithLap

LEMMA CommitSound ==
  ASSUME NEW fd, FieldsSound(fd), NEW s
  PROVE  FieldsSound(PointsPanel!CommitSave(fd, s))
<1>1. FieldsSound([fd EXCEPT !.enterRequested = FALSE])
  BY FieldUpdates
<1>2. FieldsSound(PointsPanel!Prefill([fd EXCEPT !.enterRequested = FALSE], s.sync))
  BY <1>1, FieldUpdates
<1> QED
  BY <1>2, FieldUpdates DEF PointsPanel!CommitSave

LEMMA StartedSound ==
  ASSUME NEW fd, FieldsSound(fd), FeedKnown', fields' = PointsPanel!Started(fd)
  PROVE  FieldsRight'
<1> DEFINE again == PointsPanel!Prefill(fd, syncEnabled')
           lap == IF syncEnabled' THEN PointsPanel!WithLap(again, liveFeed') ELSE [again EXCEPT !.lap = PointsPanel!DefaultLap]
<1>1. FieldsSound(again)
  BY FieldUpdates
<1> HIDE DEF again
<1>2. FieldsSound(lap)
  BY <1>1, FieldUpdates, FinishedKeeps
<1>3. fields' = PointsPanel!Proposed(PointsPanel!Finished(lap))
  BY DEF PointsPanel!Started, again
<1> HIDE DEF lap
<1> QED
  BY <1>2, <1>3, FinishedKeeps, FieldsProposed

LEMMA SaveAsyncKeeps ==
  ASSUME PointsInv, NEW view, FieldsSound(view), view.overridden = TRUE \/ view = fields,
         PointsPanel!SaveAsync(view)
  PROVE  FieldsRight' /\ SaveHeld' /\ FeedKnown'
<1>1. CASE ~PointsPanel!CanSave
  BY <1>1 DEF PointsInv, FieldsRight, SaveHeld, FeedKnown, PointsPanel!SaveAsync, PointsPanel!FieldsOnly
<1>2. CASE PointsPanel!CanSave /\ PointsPanel!Missing # {}
  <2>1. /\ pendingSave' = PointsPanel!ThisSave /\ fields' = view /\ awaited' = {}
        /\ UNCHANGED <<outOfRace, liveFeed, syncEnabled>>
    BY <1>2 DEF PointsPanel!SaveAsync, PointsPanel!AskFor
  <2>2. PointsPanel!ThisSave # PointsPanel!NoSave
    BY DEF PointsPanel!ThisSave, PointsPanel!NoSave
  <2> QED
    BY <2>1, <2>2 DEF PointsInv, FieldsRight, SaveHeld, FeedKnown
<1>3. CASE PointsPanel!CanSave /\ ~(PointsPanel!Missing # {})
  <2>1. /\ UNCHANGED <<liveFeed, asked, awaited, pendingSave>>
        /\ fields' = PointsPanel!Proposed(PointsPanel!CommitSave(view, PointsPanel!ThisSave))
    BY <1>3 DEF PointsPanel!SaveAsync
  <2> QED
    BY <2>1, CommitSound, FieldsProposed DEF PointsInv, SaveHeld, FeedKnown
<1> QED
  BY <1>1, <1>2, <1>3

LEMMA InitialSound ==
  FieldsSound(PointsPanel!InitialFields)
BY DEF PointsPanel!InitialFields, PointsPanel!NoRiders, PointsPanel!Nobody, PointsPanel!Points, FieldsSound, PointFields

(* A change of the race makes the pending save or leaves the fields to the proposals. *)
LEMMA RaceChangeKeeps ==
  ASSUME PointsInv, NEW renews, NEW riders, NEW gone, NEW write, PointsPanel!RaceChanges(riders, gone, write),
         PointsPanel!AfterRaceChange(renews)
  PROVE  /\ FieldsRight' /\ SaveHeld' /\ FeedKnown' /\ UNCHANGED <<inputs, syncEnabled>>
         /\ pendingSave' = pendingSave => SameEntries(fields, fields')
<1> DEFINE listed == IF renews THEN PointsPanel!ListShows(fields) ELSE fields
<1>1. FieldsSound(fields) /\ SaveHeld /\ FeedKnown
  BY DEF PointsInv, FieldsRight
<1>2. /\ panelStarters' = riders /\ UNCHANGED <<liveFeed, syncEnabled, asked, inputs>>
      /\ IF PointsPanel!Awaited(riders) THEN pendingSave' = PointsPanel!NoSave /\ awaited' = {}
                                          ELSE UNCHANGED <<pendingSave, awaited>>
  BY DEF PointsPanel!RaceChanges
<1>3. FieldsSound(listed) /\ SameEntries(fields, listed)
  BY <1>1, ListedKeeps DEF SameEntries
<1>4. fields' = PointsPanel!Proposed(IF PointsPanel!Awaited(riders)
                                       THEN PointsPanel!CommitSave(listed, pendingSave) ELSE listed)
  BY <1>2 DEF PointsPanel!AfterRaceChange
<1> HIDE DEF listed
<1>5. FeedKnown'
  BY <1>1, <1>2 DEF FeedKnown
<1>6. CASE PointsPanel!Awaited(riders)
  <2>1. FieldsRight'
    BY <1>3, <1>4, <1>5, <1>6, CommitSound, FieldsProposed
  <2>2. awaited # {} /\ asked' = asked /\ awaited' = {} /\ pendingSave' = PointsPanel!NoSave
    BY <1>2, <1>6 DEF PointsPanel!Awaited
  <2>3. asked = {}
    BY <1>1, <2>2 DEF SaveHeld
  <2> QED
    BY <1>1, <1>2, <1>5, <2>1, <2>2, <2>3 DEF SaveHeld
<1>7. CASE ~PointsPanel!Awaited(riders)
  <2>1. fields' = PointsPanel!Proposed(listed)
    BY <1>4, <1>7
  <2>2. FieldsRight' /\ SameEntries(listed, fields')
    BY <1>3, <1>5, <2>1, FieldsProposed, ProposedKeeps
  <2>3. SaveHeld'
    BY <1>1, <1>2, <1>7 DEF SaveHeld
  <2> QED
    BY <1>2, <1>3, <1>5, <2>2, <2>3 DEF SameEntries
<1> QED
  BY <1>6, <1>7

(* The operator's steps: a field, *)
LEMMA FieldChosen ==
  ASSUME PointsInv, PointsPanel!Input, PointsPanel!FieldsOnly, FieldsSound(fields)', fields'.overridden = TRUE
  PROVE  FieldsRight' /\ SaveHeld' /\ FeedKnown' /\ inputs' = inputs + 1
<1>1. inputs' = inputs + 1
  BY DEF PointsPanel!Input, PointsPanel!Click
<1>2. SaveHeld' /\ FeedKnown'
  BY DEF PointsInv, SaveHeld, FeedKnown, PointsPanel!FieldsOnly
<1>3. FieldsRight'
  BY DEF FieldsRight
<1> QED
  BY <1>1, <1>2, <1>3

LEMMA SetOneOrTwo ==
  ASSUME NEW fd, FieldsSound(fd), NEW bib \in Bibs \cup {0}
  PROVE  /\ FieldsSound(PointsPanel!Set(fd, 1, bib)) /\ PointsPanel!Set(fd, 1, bib).overridden = TRUE
         /\ FieldsSound(PointsPanel!Set(fd, 2, bib)) /\ PointsPanel!Set(fd, 2, bib).overridden = TRUE
<1>1. \A p \in 1 .. 3 : FieldsSound(PointsPanel!Set(fd, p, bib)) /\ PointsPanel!Set(fd, p, bib).overridden = TRUE
  BY SetKeeps
<1>2. 1 \in 1 .. 3 /\ 2 \in 1 .. 3
  OBVIOUS
<1> QED
  BY <1>1, <1>2, Zenon

LEMMA LastEntered ==
  ASSUME PointsInv, NEW bib \in Bibs, PointsPanel!EnterLast(bib)
  PROVE  FieldsRight' /\ SaveHeld' /\ FeedKnown' /\ inputs' = inputs + 1
<1> DEFINE requested == [fields EXCEPT !.enterRequested = TRUE, !.overridden = TRUE, !.auto[1] = 0]
           refused == [requested EXCEPT !.sel[1] = 0, !.typed[1] = FALSE]
<1>1. FieldsSound(fields) /\ fields \in PointFields(fields)
  BY DEF PointsInv, FieldsRight, FieldsSound
<1>2. FieldsSound(requested) /\ requested.overridden = TRUE
  BY <1>1 DEF FieldsSound, PointFields
<1>3. PointsPanel!Input /\ inputs' = inputs + 1
  BY DEF PointsPanel!EnterLast, PointsPanel!Input, PointsPanel!Click
<1>4. \/ PointsPanel!SaveAsync(requested)
      \/ /\ PointsPanel!FieldsOnly
         /\ fields' = PointsPanel!Listed(fields, refused) \/ fields' = PointsPanel!Set(requested, 1, bib)
  BY DEF PointsPanel!EnterLast
<1>5. FieldsSound(refused) /\ refused.overridden = TRUE
  <2>1. /\ requested \in PointFields(requested) /\ requested.sel \in [1 .. 3 -> Bibs \cup {0}]
        /\ requested.typed \in [1 .. 3 -> BOOLEAN]
    BY <1>2 DEF FieldsSound, PointFields
  <2> HIDE DEF requested
  <2> QED
    BY <1>2, <2>1 DEF FieldsSound, PointFields
<1> HIDE DEF requested, refused
<1>6. CASE PointsPanel!SaveAsync(requested)
  BY <1>2, <1>3, <1>6, SaveAsyncKeeps
<1>7. CASE PointsPanel!FieldsOnly /\ fields' = PointsPanel!Listed(fields, refused)
  <2>1. FieldsSound(fields') /\ fields'.overridden = TRUE
    BY <1>5, <1>7, ListedKeeps DEF SameFields
  <2> QED
    BY <1>3, <1>7, <2>1, FieldChosen
<1>8. CASE PointsPanel!FieldsOnly /\ fields' = PointsPanel!Set(requested, 1, bib)
  <2>1. FieldsSound(fields') /\ fields'.overridden = TRUE
    BY <1>2, <1>8, SetOneOrTwo
  <2> QED
    BY <1>3, <1>8, <2>1, FieldChosen
<1> QED
  BY <1>4, <1>6, <1>7, <1>8

LEMMA RiderSet ==
  ASSUME PointsInv, PointsPanel!Input, PointsPanel!FieldsOnly, NEW p \in 1 .. 3, NEW bib \in Bibs \cup {0},
         fields' = PointsPanel!Set(fields, p, bib)
  PROVE  FieldsRight' /\ SaveHeld' /\ FeedKnown' /\ inputs' = inputs + 1
<1>1. FieldsSound(fields') /\ fields'.overridden = TRUE
  BY SetKeeps DEF PointsInv, FieldsRight
<1> QED
  BY <1>1, FieldChosen

LEMMA OneOfThree ==
  ASSUME NEW some, some \subseteq 1 .. 3, some # {}
  PROVE  PointsPanel!Max(some) \in 1 .. 3
<1>1. \E x \in some : \A y \in some : x >= y
  <2>1. CASE 3 \in some
    BY <2>1
  <2>2. CASE 3 \notin some /\ 2 \in some
    BY <2>2
  <2>3. CASE 3 \notin some /\ 2 \notin some
    <3>1. \A x \in some : x = 1
      BY <2>3
    <3>2. 1 \in some
      BY <3>1
    <3> QED
      BY <3>1, <3>2
  <2> QED
    BY <2>1, <2>2, <2>3
<1>2. PointsPanel!Max(some) \in some
  BY <1>1 DEF PointsPanel!Max
<1> QED
  BY <1>2

LEMMA RidersChosen ==
  ASSUME PointsInv, \/ \E bib \in Bibs : PointsPanel!ClickStarter(bib)
                    \/ \E p \in PointsPanel!Points, bib \in Bibs \cup {0} : PointsPanel!Choose(p, bib)
                    \/ PointsPanel!EmptyLast \/ PointsPanel!Swap
  PROVE  FieldsRight' /\ SaveHeld' /\ FeedKnown' /\ inputs' = inputs + 1
<1>1. FieldsSound(fields) /\ \A p \in 1 .. 3 : fields.sel[p] \in Bibs \cup {0}
  BY DEF PointsInv, FieldsRight, FieldsSound, PointFields
<1>2. ASSUME NEW bib \in Bibs, PointsPanel!ClickStarter(bib)
      PROVE  FieldsRight' /\ SaveHeld' /\ FeedKnown' /\ inputs' = inputs + 1
  <2> DEFINE free == {p \in PointsPanel!FieldsOf(fields.click.mode) : fields.click.sel[p] = 0}
  <2>1. /\ PointsPanel!Input /\ PointsPanel!FieldsOnly
        /\ free # {} /\ fields' = PointsPanel!Set(fields, PointsPanel!Max(free), bib)
    BY <1>2 DEF PointsPanel!ClickStarter
  <2>2. free \subseteq 1 .. 3
    BY DEF PointsPanel!FieldsOf, PointsPanel!Points
  <2> HIDE DEF free
  <2> QED
    BY <2>1, <2>2, OneOfThree, RiderSet
<1>3. ASSUME NEW p \in PointsPanel!Points, NEW bib \in Bibs \cup {0}, PointsPanel!Choose(p, bib)
      PROVE  FieldsRight' /\ SaveHeld' /\ FeedKnown' /\ inputs' = inputs + 1
  BY <1>3, RiderSet DEF PointsPanel!Choose, PointsPanel!Points
<1>4. CASE PointsPanel!EmptyLast
  <2>1. PointsPanel!Input /\ inputs' = inputs + 1
    BY <1>4 DEF PointsPanel!EmptyLast, PointsPanel!Input, PointsPanel!Click
  <2>2. \/ PointsPanel!SaveAsync(PointsPanel!Set(fields, 1, 0))
        \/ PointsPanel!FieldsOnly /\ fields' = PointsPanel!Set(fields, 1, 0)
    BY <1>4 DEF PointsPanel!EmptyLast
  <2>3. FieldsSound(PointsPanel!Set(fields, 1, 0)) /\ PointsPanel!Set(fields, 1, 0).overridden = TRUE
    BY <1>1, SetOneOrTwo
  <2>4. CASE PointsPanel!SaveAsync(PointsPanel!Set(fields, 1, 0))
    BY <2>1, <2>3, <2>4, SaveAsyncKeeps
  <2>5. CASE PointsPanel!FieldsOnly /\ fields' = PointsPanel!Set(fields, 1, 0)
    BY <2>1, <2>3, <2>5, FieldChosen
  <2> QED
    BY <2>2, <2>4, <2>5
<1>5. CASE PointsPanel!Swap
  <2> DEFINE once == PointsPanel!Set(fields, 2, fields.sel[1])
             swapped == PointsPanel!Set(once, 1, fields.sel[2])
  <2>1. PointsPanel!Input /\ PointsPanel!FieldsOnly /\ fields' = [swapped EXCEPT !.click = fields.click]
    BY <1>5 DEF PointsPanel!Swap
  <2>2. FieldsSound(once)
    <3>1. fields.sel[1] \in Bibs \cup {0}
      BY <1>1
    <3> QED
      BY <1>1, <3>1, SetOneOrTwo
  <2> HIDE DEF once
  <2>3. FieldsSound(swapped) /\ swapped.overridden = TRUE
    <3>1. fields.sel[2] \in Bibs \cup {0}
      BY <1>1
    <3> QED
      BY <2>2, <3>1, SetOneOrTwo
  <2> HIDE DEF swapped
  <2>4. FieldsSound(fields') /\ fields'.overridden = TRUE
    BY <2>1, <2>3 DEF FieldsSound, PointFields
  <2> QED
    BY <2>1, <2>4, FieldChosen
<1> QED
  BY <1>2, <1>3, <1>4, <1>5

(* the panel, *)
LEMMA PanelChanged ==
  ASSUME PointsInv, \/ \E n \in 1 .. 2 : PointsPanel!EditLap(n)
                    \/ \E m \in {"lap", "finish"} : PointsPanel!SetMode(m)
                    \/ PointsPanel!Clear \/ PointsPanel!SwitchSync \/ PointsPanel!Reopen
  PROVE  FieldsRight' /\ SaveHeld' /\ FeedKnown' /\ inputs' = inputs + 1
<1>1. FieldsSound(fields) /\ fields \in PointFields(fields)
  BY DEF PointsInv, FieldsRight, FieldsSound
<1>2. inputs' = inputs + 1
  BY DEF PointsPanel!EditLap, PointsPanel!SetMode, PointsPanel!Clear, PointsPanel!SwitchSync, PointsPanel!Reopen,
         PointsPanel!ToggleSync, PointsPanel!Input, PointsPanel!Click
<1>3. SaveHeld' /\ FeedKnown'
  <2>1. liveFeed' = liveFeed
    BY DEF PointsPanel!EditLap, PointsPanel!SetMode, PointsPanel!Clear, PointsPanel!SwitchSync, PointsPanel!Reopen,
           PointsPanel!ToggleSync, PointsPanel!FieldsOnly
  <2>2. \/ UNCHANGED <<asked, awaited, pendingSave>>
        \/ asked' = {} /\ awaited' = {}
    BY DEF PointsPanel!EditLap, PointsPanel!SetMode, PointsPanel!Clear, PointsPanel!SwitchSync, PointsPanel!Reopen,
           PointsPanel!ToggleSync, PointsPanel!FieldsOnly, PointsPanel!Input
  <2> QED
    BY <2>1, <2>2 DEF PointsInv, SaveHeld, FeedKnown
<1>4. ASSUME NEW n \in 1 .. 2, PointsPanel!EditLap(n)
      PROVE  FieldsRight'
  <2>1. /\ fields' = [fields EXCEPT !.lap = n, !.overridden = @ \/ syncEnabled]
        /\ UNCHANGED <<syncEnabled, outOfRace, liveFeed>>
    BY <1>4 DEF PointsPanel!EditLap, PointsPanel!FieldsOnly
  <2>2. FieldsSound(fields')
    BY <1>1, <2>1, FieldUpdates
  <2>3. fields'.overridden = (fields.overridden \/ syncEnabled)
    BY <1>1, <2>1 DEF PointFields
  <2> QED
    BY <2>1, <2>2, <2>3 DEF FieldsRight
<1>5. ASSUME NEW m \in {"lap", "finish"}, PointsPanel!SetMode(m)
      PROVE  FieldsRight'
  <2> DEFINE left == IF m = "finish" THEN fields
                     ELSE [fields EXCEPT !.sel[3] = 0, !.typed[3] = FALSE, !.auto[3] = 0]
             moved == [left EXCEPT !.mode = m]
  <2>1. fields' = PointsPanel!Proposed(PointsPanel!Finished(PointsPanel!Listed(fields, moved)))
    BY <1>5 DEF PointsPanel!SetMode
  <2>2. FieldsSound(left)
    <3>1. FieldsSound([fields EXCEPT !.sel[3] = 0, !.typed[3] = FALSE, !.auto[3] = 0])
      BY <1>1 DEF FieldsSound, PointFields
    <3> QED
      BY <1>1, <3>1
  <2> HIDE DEF left
  <2>3. FieldsSound(moved)
    BY <2>2 DEF FieldsSound, PointFields
  <2> HIDE DEF moved
  <2>4. FieldsSound(PointsPanel!Finished(PointsPanel!Listed(fields, moved)))
    BY <2>3, ListedKeeps, FinishedKeeps
  <2> QED
    BY <1>3, <2>1, <2>4, FieldsProposed
<1>6. CASE PointsPanel!Clear
  <2> DEFINE cleared == PointsPanel!Prefill([fields EXCEPT !.enterRequested = FALSE], syncEnabled)
  <2>1. fields' = PointsPanel!Proposed(PointsPanel!ResetInputs(cleared))
    BY <1>6 DEF PointsPanel!Clear
  <2>2. FieldsSound(cleared)
    <3>1. FieldsSound([fields EXCEPT !.enterRequested = FALSE])
      BY <1>1, FieldUpdates
    <3> QED
      BY <3>1, FieldUpdates
  <2> HIDE DEF cleared
  <2>3. FieldsSound(PointsPanel!ResetInputs(cleared))
    BY <2>2, FieldUpdates
  <2> QED
    BY <1>2, <1>3, <2>1, <2>3, FieldsProposed
<1>7. CASE PointsPanel!SwitchSync
  <2>1. fields' = PointsPanel!Started(fields)
    BY <1>7 DEF PointsPanel!SwitchSync
  <2> QED
    BY <1>1, <1>2, <1>3, <2>1, StartedSound
<1>8. CASE PointsPanel!Reopen
  <2> DEFINE opened == [PointsPanel!InitialFields EXCEPT !.lap = PointsPanel!DefaultLap]
  <2>1. fields' = PointsPanel!Started(opened)
    BY <1>8 DEF PointsPanel!Reopen
  <2>2. FieldsSound(opened)
    BY InitialSound, FieldUpdates
  <2> HIDE DEF opened
  <2> QED
    BY <1>2, <1>3, <2>1, <2>2, StartedSound
<1> QED
  BY <1>2, <1>3, <1>4, <1>5, <1>6, <1>7, <1>8

(* and the saves. *)
LEMMA PointsSaved ==
  ASSUME PointsInv, PointsPanel!Save \/ PointsPanel!SaveCreated \/ PointsPanel!RemovePoints \/ PointsPanel!Dialog
  PROVE  FieldsRight' /\ SaveHeld' /\ FeedKnown' /\ inputs' = inputs + 1
<1>1. FieldsSound(fields) /\ FieldsRight /\ SaveHeld /\ FeedKnown
  BY DEF PointsInv, FieldsRight
<1>2. inputs' = inputs + 1
  BY DEF PointsPanel!Save, PointsPanel!SaveCreated, PointsPanel!NothingToCreate, PointsPanel!RemovePoints, PointsPanel!Dialog,
         PointsPanel!CreateStarters, PointsPanel!CancelStarters, PointsPanel!Input, PointsPanel!Click
<1>3. CASE PointsPanel!Save
  BY <1>1, <1>2, <1>3, SaveAsyncKeeps DEF PointsPanel!Save
<1>4. CASE PointsPanel!SaveCreated
  <2>1. /\ fields' = PointsPanel!Proposed(PointsPanel!CommitSave(fields, pendingSave))
        /\ liveFeed' = liveFeed /\ asked' = {} /\ awaited' = {}
    BY <1>4 DEF PointsPanel!SaveCreated, PointsPanel!NothingToCreate
  <2>2. SaveHeld' /\ FeedKnown'
    BY <1>1, <2>1 DEF SaveHeld, FeedKnown
  <2> QED
    BY <1>1, <1>2, <2>1, <2>2, CommitSound, FieldsProposed
<1>5. CASE PointsPanel!RemovePoints
  <2>1. UNCHANGED <<outOfRace, liveFeed, syncEnabled, asked, pendingSave, awaited, fields>>
    BY <1>5 DEF PointsPanel!RemovePoints
  <2> QED
    BY <1>1, <1>2, <2>1 DEF FieldsRight, SaveHeld, FeedKnown
<1>6. CASE PointsPanel!Dialog
  <2>1. /\ UNCHANGED <<outOfRace, liveFeed, syncEnabled, fields>> /\ asked' = {}
        /\ (awaited' = asked /\ asked # {} /\ pendingSave' = pendingSave) \/ awaited' = {}
    BY <1>6 DEF PointsPanel!Dialog, PointsPanel!CreateStarters, PointsPanel!CancelStarters
  <2> QED
    BY <1>1, <1>2, <2>1 DEF FieldsRight, SaveHeld, FeedKnown
<1> QED
  BY <1>3, <1>4, <1>5, <1>6

LEMMA FeedKeeps ==
  ASSUME PointsInv, NEW f \in Feeds, PointsPanel!Feed(f)
  PROVE  /\ FieldsRight' /\ SaveHeld' /\ FeedKnown' /\ inputs' = inputs
         /\ \A p \in 1 .. 3 : fields.typed[p] => fields'.typed[p] /\ fields'.sel[p] = fields.sel[p]
         /\ ~syncEnabled \/ fields.overridden => fields'.lap = fields.lap
<1> DEFINE view == IF PointsPanel!FeedRenewsList THEN PointsPanel!ListShows(fields) ELSE fields
           followed == PointsPanel!Followed(fields) /\ f.laps # liveFeed.laps
           lap == IF followed THEN PointsPanel!WithLap(view, f) ELSE view
           proposed == IF f.toGo # liveFeed.toGo THEN PointsPanel!Finished(lap) ELSE lap
<1>1. FieldsSound(fields) /\ SaveHeld /\ FeedKnown
  BY DEF PointsInv, FieldsRight
<1>2. /\ fields' = PointsPanel!Proposed(proposed) /\ liveFeed' = f
      /\ UNCHANGED <<syncEnabled, asked, pendingSave, awaited, inputs>>
  BY DEF PointsPanel!Feed, PointsPanel!FeedArrives
<1>3. SaveHeld' /\ FeedKnown'
  BY <1>1, <1>2 DEF SaveHeld, FeedKnown
<1>4. followed => syncEnabled /\ ~fields.overridden
  BY <1>2 DEF PointsPanel!Followed
<1>5. FieldsSound(view) /\ SameEntries(fields, view) /\ SameFields(fields, view)
  BY <1>1, ListedKeeps DEF SameEntries, SameFields
<1> HIDE DEF view, followed
<1>6. FieldsSound(lap) /\ lap.sel = view.sel /\ lap.typed = view.typed /\ lap.overridden = view.overridden
      /\ (~followed => lap.lap = view.lap)
  <2>1. CASE lap = view
    BY <1>5, <2>1
  <2>2. CASE followed /\ lap = PointsPanel!WithLap(view, f) /\ lap # view
    <3>1. lap = [view EXCEPT !.lap = PointsPanel!AtLeastOne(f.laps)]
      BY <2>2 DEF PointsPanel!WithLap
    <3>2. lap.sel = view.sel /\ lap.typed = view.typed /\ lap.overridden = view.overridden
      BY <1>5, <3>1 DEF FieldsSound, PointFields
    <3> QED
      BY <1>5, <2>2, <3>2, FinishedKeeps
  <2> QED
    BY <2>1, <2>2
<1> HIDE DEF lap
<1>7. FieldsSound(proposed) /\ proposed.sel = lap.sel /\ proposed.typed = lap.typed
      /\ proposed.overridden = lap.overridden /\ proposed.lap = lap.lap
  <2>1. CASE proposed = lap
    BY <1>6, <2>1
  <2>2. CASE proposed = PointsPanel!Finished(lap) /\ proposed # lap
    <3>1. proposed = [lap EXCEPT !.mode = "finish"]
      BY <2>2 DEF PointsPanel!Finished, PointsPanel!WithFinish
    <3>2. proposed.sel = lap.sel /\ proposed.typed = lap.typed /\ proposed.overridden = lap.overridden /\ proposed.lap = lap.lap
      BY <1>6, <3>1 DEF FieldsSound, PointFields
    <3> QED
      BY <1>6, <2>2, <3>2, FinishedKeeps
  <2> QED
    BY <2>1, <2>2
<1> HIDE DEF proposed
<1>8. FieldsRight' /\ SameEntries(proposed, fields')
  BY <1>2, <1>3, <1>7, FieldsProposed, ProposedKeeps
<1>9. \A p \in 1 .. 3 : fields.typed[p] => fields'.typed[p] /\ fields'.sel[p] = fields.sel[p]
  BY <1>5, <1>6, <1>7, <1>8 DEF SameEntries
<1>10. ~syncEnabled \/ fields.overridden => fields'.lap = fields.lap
  BY <1>4, <1>5, <1>6, <1>7, <1>8 DEF SameEntries
<1> QED
  BY <1>2, <1>3, <1>8, <1>9, <1>10

LEMMA PointsInductive ==
  ASSUME PointsInv, [PointsPanel!Next]_(PointsPanel!pointsVars)
  PROVE  PointsInv' /\ PointsPanel!EntriesStay
<1>1. FieldsSound(fields) /\ FieldsRight /\ SaveHeld /\ FeedKnown /\ inputs \in Nat
  BY DEF PointsInv, FieldsRight
<1> DEFINE Held == FieldsRight' /\ SaveHeld' /\ FeedKnown'
           Entries == /\ \A p \in 1 .. 3 : fields.typed[p] => fields'.typed[p] /\ fields'.sel[p] = fields.sel[p]
                      /\ ~syncEnabled \/ fields.overridden => fields'.lap = fields.lap
<1>2. CASE UNCHANGED PointsPanel!pointsVars
  <2>1. UNCHANGED <<outOfRace, liveFeed, syncEnabled, asked, pendingSave, awaited, inputs, fields>>
    BY <1>2 DEF PointsPanel!pointsVars, PointsPanel!panelVars
  <2>2. FieldsRight' /\ SaveHeld' /\ FeedKnown' /\ inputs' \in Nat
    BY <1>1, <2>1 DEF FieldsRight, SaveHeld, FeedKnown
  <2>3. PointsPanel!EntriesStay
    BY <2>1 DEF PointsPanel!EntriesStay
  <2> QED
    BY <2>2, <2>3 DEF PointsInv
<1>3. ASSUME NEW bib \in Bibs, PointsPanel!Other(bib)
      PROVE  Held /\ inputs' = inputs /\ (pendingSave' = pendingSave => Entries)
  <2>1. \E riders, gone : PointsPanel!RaceChanges(riders, gone, PointsPanel!PendingWrite)
    BY <1>3 DEF PointsPanel!Other, PointsPanel!OtherOperator
  <2>2. PointsPanel!AfterRaceChange(PointsPanel!RaceRenewsList)
    BY <1>3 DEF PointsPanel!Other
  <2> QED
    BY <2>1, <2>2, RaceChangeKeeps DEF SameEntries
<1>4. CASE PointsPanel!Own
  <2>1. \E riders, gone : PointsPanel!RaceChanges(riders, gone, PointsPanel!PendingWrite)
    BY <1>4 DEF PointsPanel!Own, PointsPanel!OwnWrite
  <2>2. PointsPanel!AfterRaceChange(TRUE)
    BY <1>4 DEF PointsPanel!Own
  <2>3. Held /\ inputs' = inputs /\ (pendingSave' = pendingSave => Entries)
    BY <2>1, <2>2, RaceChangeKeeps DEF SameEntries
  <2> QED
    BY <1>1, <2>3 DEF PointsInv, PointsPanel!EntriesStay, PointsPanel!Points
<1>5. ASSUME NEW f \in Feeds, PointsPanel!Feed(f)
      PROVE  Held /\ inputs' = inputs /\ Entries
  BY <1>5, FeedKeeps
<1>6. ASSUME NEW bib \in Bibs, PointsPanel!EnterLast(bib) \/ PointsPanel!ClickStarter(bib)
      PROVE  Held /\ inputs' = inputs + 1
  BY <1>6, LastEntered, RidersChosen
<1>7. \/ Held /\ inputs' = inputs + 1
      \/ Held /\ inputs' = inputs /\ (pendingSave' = pendingSave => Entries)
      \/ PointsPanel!Own
      \/ UNCHANGED PointsPanel!pointsVars
  <2> HIDE DEF Held, Entries
  <2>1. CASE \E bib \in Bibs : PointsPanel!EnterLast(bib) \/ PointsPanel!ClickStarter(bib) \/ PointsPanel!Other(bib)
    BY <1>3, <1>6, <2>1
  <2>2. CASE \E f \in Feeds : PointsPanel!Feed(f)
    BY <1>5, <2>2
  <2>3. CASE \/ \E p \in PointsPanel!Points, bib \in Bibs \cup {0} : PointsPanel!Choose(p, bib)
             \/ PointsPanel!EmptyLast \/ PointsPanel!Swap
    BY <2>3, RidersChosen DEF Held
  <2>4. CASE \/ \E n \in 1 .. 2 : PointsPanel!EditLap(n)
             \/ \E m \in {"lap", "finish"} : PointsPanel!SetMode(m)
             \/ PointsPanel!Clear \/ PointsPanel!SwitchSync \/ PointsPanel!Reopen
    BY <2>4, PanelChanged DEF Held
  <2>5. CASE PointsPanel!Save \/ PointsPanel!SaveCreated \/ PointsPanel!RemovePoints \/ PointsPanel!Dialog
    BY <2>5, PointsSaved DEF Held
  <2>6. CASE PointsPanel!Own \/ UNCHANGED PointsPanel!pointsVars
    BY <2>6
  <2> QED
    BY <2>1, <2>2, <2>3, <2>4, <2>5, <2>6 DEF PointsPanel!Next
<1>8. CASE Held /\ inputs' = inputs + 1
  <2>1. PointsInv'
    BY <1>1, <1>8 DEF PointsInv
  <2>2. inputs' # inputs
    BY <1>1, <1>8
  <2> QED
    BY <2>1, <2>2 DEF PointsPanel!EntriesStay
<1>9. CASE Held /\ inputs' = inputs /\ (pendingSave' = pendingSave => Entries)
  BY <1>1, <1>9 DEF PointsInv, PointsPanel!EntriesStay, PointsPanel!Points
<1> QED
  BY <1>2, <1>4, <1>7, <1>8, <1>9

LEMMA PointsInitially ==
  ASSUME PointsPanel!Init
  PROVE  PointsInv
<1>1. /\ liveFeed = PointsPanel!NoFeed /\ syncEnabled = FALSE /\ asked = {} /\ awaited = {} /\ inputs = 0
      /\ fields = PointsPanel!InitialFields
  BY DEF PointsPanel!Init, PointsPanel!PanelInit
<1> QED
  BY <1>1, InitialSound DEF PointsInv, FeedKnown, SaveHeld, FieldsRight

LEMMA SameCardinality ==
  ASSUME NEW some
  PROVE  PointsPanel!Cardinality(some) = Cardinality(some)
BY DEF Cardinality, PointsPanel!Cardinality

LEMMA PointsProposed ==
  ASSUME PointsInv
  PROVE  PointsPanel!ProposalsRight
<1> DEFINE ahead(p) == {q \in PointsPanel!FieldsOf(fields.mode) : q >= p}
           place(p) == IF fields.mode = "finish" THEN 4 - p ELSE 3 - p
<1>1. ASSUME NEW p \in PointsPanel!FieldsOf(fields.mode)
      PROVE  PointsPanel!Cardinality(ahead(p)) = place(p)
  <2> DEFINE last == IF fields.mode = "finish" THEN 3 ELSE 2
  <2>1. p \in 1 .. last /\ last \in {2, 3} /\ place(p) = last - p + 1
    BY DEF PointsPanel!FieldsOf, PointsPanel!Points
  <2>2. ahead(p) = p .. last
    BY DEF PointsPanel!FieldsOf, PointsPanel!Points
  <2> HIDE DEF ahead, place, last
  <2>3. Cardinality(p .. last) = last - p + 1
    BY <2>1, FS_Interval
  <2>4. PointsPanel!Cardinality(ahead(p)) = Cardinality(ahead(p))
    BY SameCardinality
  <2> QED
    BY <2>1, <2>2, <2>3, <2>4
<1>2. syncEnabled /\ ~fields.overridden => InFront(fields, liveFeed, outOfRace)
  BY DEF PointsInv, FieldsRight
<1> QED
  BY <1>1, <1>2 DEF PointsPanel!ProposalsRight, InFront

-----------------------------------------------------------------------------
(* The list of the activities.  Every activity is one of a race and has a sequence of versions before. *)
ActivitySound(a) ==
  /\ a \in [race : {a.race}, type : {a.type}, lap : {a.lap}, isDeleted : {a.isDeleted}, results : {a.results},
            history : {a.history}]
  /\ \E S : a.history \in Seq(S)

EventSound(doc) ==
  /\ doc \in [races : {doc.races}, activeRaceId : {doc.activeRaceId}, starters : {doc.starters},
              activities : {doc.activities}]
  /\ doc.starters \in [StarterRaces -> SUBSET Entered]
  /\ doc.races \subseteq StarterRaces /\ DOMAIN doc.activities \subseteq Activities
  /\ \A i \in DOMAIN doc.activities : ActivitySound(doc.activities[i]) /\ doc.activities[i].race \in doc.races

VersionOf(a) == ScoringPageEdits!Version(a)
HistoryOf(a) == {a.history[i] : i \in DOMAIN a.history}
Longer(v, h) == <<v>> \o h

(* What may become of an activity. *)
Kept(doc, new, i) == new.activities[i] = doc.activities[i]
Corrected(doc, new, i) ==
  new.activities[i].history = Longer(VersionOf(doc.activities[i]), doc.activities[i].history)
Filtered(doc, new, i) ==
  new.starters # doc.starters /\ new.activities[i].history = doc.activities[i].history

Written(doc, new) ==
  /\ EventSound(new)
  /\ \A i \in DOMAIN doc.activities \cap DOMAIN new.activities :
       Kept(doc, new, i) \/ Corrected(doc, new, i) \/ Filtered(doc, new, i)

Told(id) == versions[id] \subseteq {VersionOf(scoringEvent.activities[id])} \cup HistoryOf(scoringEvent.activities[id])

(* The page has the present document unless it says otherwise, no version is forgotten, *)
EventRight ==
  /\ EventSound(scoringEvent) /\ EventSound(scoringShown)
  /\ ~scoringUnheard => scoringShown = scoringEvent
  /\ \A id \in DOMAIN scoringEvent.activities : Told(id)

(* and the edit panel is empty while it belongs to no row and while the dialog is open. *)
PanelClosed ==
  /\ activityEdit \in [id : {activityEdit.id}, lap : {activityEdit.lap}, isDeleted : {activityEdit.isDeleted},
                        results : {activityEdit.results}, error : {activityEdit.error}]
  /\ activityEdit.id = 0 => activityEdit = ScoringPageEdits!NotEditing
  /\ removeAllOpen => activityEdit = ScoringPageEdits!NotEditing

ActivityInv ==
  /\ others \in Nat /\ inputs \in Nat
  /\ EventRight /\ PanelClosed

LEMMA ActivityConstants ==
  0 \notin Activities /\ Activities # {}
BY RecordsAssumption

LEMMA LongerHistory ==
  ASSUME NEW h, \E S : h \in Seq(S), NEW v
  PROVE  /\ \E S : Longer(v, h) \in Seq(S)
         /\ \A i \in DOMAIN h : \E j \in DOMAIN Longer(v, h) : Longer(v, h)[j] = h[i]
         /\ \E j \in DOMAIN Longer(v, h) : Longer(v, h)[j] = v
<1>1. PICK S : h \in Seq(S)
  OBVIOUS
<1>2. <<v>> \in Seq(S \cup {v}) /\ h \in Seq(S \cup {v})
  BY <1>1
<1>3. <<v>> \o h \in Seq(S \cup {v}) /\ Len(<<v>> \o h) = Len(h) + 1
  BY <1>2
<1>4. (<<v>> \o h)[1] = v /\ \A i \in 1 .. Len(h) : (<<v>> \o h)[i + 1] = h[i]
  BY <1>2
<1>5. DOMAIN h = 1 .. Len(h) /\ DOMAIN (<<v>> \o h) = 1 .. Len(h) + 1 /\ Len(h) \in Nat
  BY <1>2, <1>3
<1>6. \A i \in DOMAIN h : i + 1 \in DOMAIN (<<v>> \o h) /\ (<<v>> \o h)[i + 1] = h[i]
  BY <1>4, <1>5
<1>7. 1 \in DOMAIN (<<v>> \o h)
  BY <1>5
<1> QED
  BY <1>3, <1>4, <1>6, <1>7 DEF Longer

(* The operations on the document. *)
LEMMA ActivityAdded ==
  ASSUME NEW doc, EventSound(doc), NEW race \in doc.races, NEW id \in Activities, NEW recording
  PROVE  LET new == ScoringPageEdits!addRaceActivity(doc, race, id, recording)
         IN /\ EventSound(new) /\ new.starters = doc.starters
            /\ DOMAIN new.activities = DOMAIN doc.activities \cup {id}
            /\ \A i \in DOMAIN doc.activities : Kept(doc, new, i)
<1> DEFINE new == ScoringPageEdits!addRaceActivity(doc, race, id, recording)
           given == [race |-> race, type |-> recording.type, lap |-> recording.lap, isDeleted |-> FALSE,
                     results |-> recording.results, history |-> <<>>]
           all == [i \in DOMAIN doc.activities \cup {id} |->
                     IF i \in DOMAIN doc.activities THEN doc.activities[i] ELSE given]
<1>1. new = [doc EXCEPT !.activities = all]
  BY DEF ScoringPageEdits!addRaceActivity, EventSound
<1>2. ActivitySound(given) /\ given.race = race
  <2>1. <<>> \in Seq({})
    OBVIOUS
  <2> QED
    BY <2>1 DEF ActivitySound
<1>3. /\ DOMAIN all = DOMAIN doc.activities \cup {id}
      /\ \A i \in DOMAIN doc.activities : all[i] = doc.activities[i]
      /\ \A i \in DOMAIN all \ DOMAIN doc.activities : all[i] = given
  OBVIOUS
<1> HIDE DEF new, given, all
<1>4. /\ new \in [races : {new.races}, activeRaceId : {new.activeRaceId}, starters : {new.starters},
                  activities : {new.activities}]
      /\ new.races = doc.races /\ new.starters = doc.starters /\ new.activities = all
  BY <1>1 DEF EventSound
<1> QED
  BY <1>2, <1>3, <1>4 DEF EventSound, Kept, new

LEMMA ActivityUpdated ==
  ASSUME NEW doc, EventSound(doc), NEW id \in DOMAIN doc.activities, NEW next
  PROVE  LET new == ScoringPageEdits!updateRaceActivity(doc, id, next)
         IN /\ EventSound(new) /\ new.starters = doc.starters
            /\ DOMAIN new.activities = DOMAIN doc.activities
            /\ Corrected(doc, new, id) /\ \A i \in DOMAIN doc.activities \ {id} : Kept(doc, new, i)
<1> DEFINE new == ScoringPageEdits!updateRaceActivity(doc, id, next)
           a == doc.activities[id]
           b == ScoringPageEdits!WithHistory(a, next)
           all == [doc.activities EXCEPT ![id] = b]
<1>1. new = [doc EXCEPT !.activities = all]
  BY DEF ScoringPageEdits!updateRaceActivity, EventSound
<1>2. ActivitySound(a) /\ a.race \in doc.races
  BY DEF EventSound
<1>3. b \in [race : {b.race}, type : {b.type}, lap : {b.lap}, isDeleted : {b.isDeleted}, results : {b.results},
            history : {b.history}]
      /\ b.race = a.race /\ b.history = Longer(VersionOf(a), a.history)
  <2> HIDE DEF a
  <2> QED
    BY <1>2 DEF ScoringPageEdits!WithHistory, ActivitySound, VersionOf, Longer
<1>4. ActivitySound(b)
  <2> HIDE DEF a, b
  <2>1. \E S : a.history \in Seq(S)
    BY <1>2 DEF ActivitySound
  <2>2. \E S : Longer(VersionOf(a), a.history) \in Seq(S)
    BY <2>1, LongerHistory
  <2>3. \E S : b.history \in Seq(S)
    BY <1>3, <2>2
  <2> QED
    BY <1>3, <2>3 DEF ActivitySound
<1>5. DOMAIN all = DOMAIN doc.activities /\ all[id] = b /\ \A i \in DOMAIN doc.activities \ {id} : all[i] = doc.activities[i]
  OBVIOUS
<1> HIDE DEF new, b, all
<1>6. /\ new \in [races : {new.races}, activeRaceId : {new.activeRaceId}, starters : {new.starters},
                  activities : {new.activities}]
      /\ new.races = doc.races /\ new.starters = doc.starters /\ new.activities = all
  BY <1>1 DEF EventSound
<1> QED
  BY <1>2, <1>3, <1>4, <1>5, <1>6 DEF EventSound, Kept, Corrected, new

LEMMA ActivitiesReplaced ==
  ASSUME NEW doc, EventSound(doc), NEW race
  PROVE  LET new == ScoringPageEdits!replaceRaceActivities(doc, race, {})
         IN /\ EventSound(new) /\ new.starters = doc.starters /\ new.races = doc.races
            /\ DOMAIN new.activities = DOMAIN doc.activities \ ScoringPageEdits!OfRace(doc, race)
            /\ \A i \in DOMAIN new.activities : Kept(doc, new, i)
<1> DEFINE new == ScoringPageEdits!replaceRaceActivities(doc, race, {})
           left == (DOMAIN doc.activities \ ScoringPageEdits!OfRace(doc, race)) \cup {}
           all == [id \in left |-> doc.activities[id]]
<1>1. new = [doc EXCEPT !.activities = all]
  BY DEF ScoringPageEdits!replaceRaceActivities, EventSound
<1>2. left = DOMAIN doc.activities \ ScoringPageEdits!OfRace(doc, race)
  OBVIOUS
<1>3. DOMAIN all = left /\ \A i \in left : all[i] = doc.activities[i]
  OBVIOUS
<1> HIDE DEF new, all, left
<1>4. /\ new \in [races : {new.races}, activeRaceId : {new.activeRaceId}, starters : {new.starters},
                  activities : {new.activities}]
      /\ new.races = doc.races /\ new.starters = doc.starters /\ new.activities = all
  BY <1>1 DEF EventSound
<1> QED
  BY <1>2, <1>3, <1>4 DEF EventSound, Kept, new

LEMMA RaceDeleted ==
  ASSUME NEW doc, EventSound(doc), NEW race
  PROVE  LET new == ScoringPageEdits!deleteRace(doc, race)
         IN EventSound(new) /\ \A i \in DOMAIN new.activities : i \in DOMAIN doc.activities /\ Kept(doc, new, i)
<1> DEFINE none == ScoringPageEdits!replaceRaceActivities(doc, race, {})
           new == ScoringPageEdits!deleteRace(doc, race)
<1>1. /\ EventSound(none) /\ none.races = doc.races
      /\ DOMAIN none.activities = DOMAIN doc.activities \ ScoringPageEdits!OfRace(doc, race)
      /\ \A i \in DOMAIN none.activities : Kept(doc, none, i)
  BY ActivitiesReplaced
<1>2. new = [none EXCEPT !.races = @ \ {race},
                         !.activeRaceId = IF @ = race THEN NoRace ELSE @]
  BY DEF ScoringPageEdits!deleteRace
<1> HIDE DEF new, none
<1>3. /\ new \in [races : {new.races}, activeRaceId : {new.activeRaceId}, starters : {new.starters},
                  activities : {new.activities}]
      /\ new.races = none.races \ {race} /\ new.starters = none.starters /\ new.activities = none.activities
  BY <1>1, <1>2 DEF EventSound
<1>4. \A i \in DOMAIN none.activities : doc.activities[i].race # race
  BY <1>1 DEF ScoringPageEdits!OfRace
<1> QED
  BY <1>1, <1>3, <1>4 DEF EventSound, Kept, new

LEMMA StarterRemoved ==
  ASSUME NEW doc, EventSound(doc), NEW race \in doc.races, NEW bib \in doc.starters[race]
  PROVE  LET new == ScoringPageEdits!removeRaceStarter(doc, race, bib)
         IN /\ EventSound(new) /\ new.starters # doc.starters
            /\ DOMAIN new.activities \subseteq DOMAIN doc.activities
            /\ \A i \in DOMAIN new.activities : Kept(doc, new, i) \/ Filtered(doc, new, i)
            /\ \A i \in DOMAIN doc.activities :
                 doc.activities[i].race # race => i \in DOMAIN new.activities /\ Kept(doc, new, i)
<1> DEFINE new == ScoringPageEdits!removeRaceStarter(doc, race, bib)
           starters == doc.starters[race] \ {bib}
           filtered(a) == IF a.race = race /\ a.type # "dnf" THEN [a EXCEPT !.results = @ \cap starters] ELSE a
           left == {id \in DOMAIN doc.activities :
                      LET a == doc.activities[id] IN a.race = race /\ a.type # "dnf" => filtered(a).results # {}}
           all == [id \in left |-> filtered(doc.activities[id])]
           lists == [doc.starters EXCEPT ![race] = starters]
<1>1. new = [doc EXCEPT !.starters = lists, !.activities = all]
  BY DEF ScoringPageEdits!removeRaceStarter, EventSound
<1>2. race \in StarterRaces /\ doc.starters \in [StarterRaces -> SUBSET Entered]
  BY DEF EventSound
<1>3. lists \in [StarterRaces -> SUBSET Entered] /\ lists # doc.starters
  <2>1. lists \in [StarterRaces -> SUBSET Entered] /\ lists[race] = starters
    BY <1>2
  <2>2. starters # doc.starters[race]
    OBVIOUS
  <2> QED
    BY <2>1, <2>2
<1>4. ASSUME NEW a, ActivitySound(a)
      PROVE  ActivitySound(filtered(a)) /\ filtered(a).race = a.race /\ filtered(a).history = a.history
             /\ (a.race # race => filtered(a) = a)
  BY <1>4 DEF ActivitySound
<1>5. left \subseteq DOMAIN doc.activities /\ \A i \in DOMAIN doc.activities : doc.activities[i].race # race => i \in left
  OBVIOUS
<1>6. DOMAIN all = left /\ \A i \in left : all[i] = filtered(doc.activities[i])
  OBVIOUS
<1> HIDE DEF new, all, left, filtered, lists, starters
<1>7. /\ new \in [races : {new.races}, activeRaceId : {new.activeRaceId}, starters : {new.starters},
                  activities : {new.activities}]
      /\ new.races = doc.races /\ new.starters = lists /\ new.activities = all
  BY <1>1 DEF EventSound
<1>8. EventSound(new)
  BY <1>3, <1>4, <1>5, <1>6, <1>7 DEF EventSound
<1>9. /\ \A i \in left : Filtered(doc, new, i)
      /\ \A i \in DOMAIN doc.activities : doc.activities[i].race # race => i \in left /\ Kept(doc, new, i)
  BY <1>3, <1>4, <1>5, <1>6, <1>7 DEF EventSound, Filtered, Kept
<1> QED
  BY <1>3, <1>5, <1>6, <1>7, <1>8, <1>9 DEF new

LEMMA RacesChanged ==
  ASSUME NEW doc, EventSound(doc), NEW race \in StarterRaces
  PROVE  /\ LET new == ScoringPageEdits!toggledActiveRace(doc, race)
            IN EventSound(new) /\ new.activities = doc.activities /\ new.starters = doc.starters
         /\ LET new == [doc EXCEPT !.races = @ \cup {race}]
            IN EventSound(new) /\ new.activities = doc.activities /\ new.starters = doc.starters
<1>1. LET new == ScoringPageEdits!toggledActiveRace(doc, race)
      IN EventSound(new) /\ new.activities = doc.activities /\ new.starters = doc.starters
  BY DEF EventSound, ScoringPageEdits!toggledActiveRace
<1> DEFINE new == [doc EXCEPT !.races = @ \cup {race}]
<1>2. /\ new \in [races : {new.races}, activeRaceId : {new.activeRaceId}, starters : {new.starters},
                  activities : {new.activities}]
      /\ new.races = doc.races \cup {race} /\ new.starters = doc.starters /\ new.activities = doc.activities
  BY DEF EventSound
<1> HIDE DEF new
<1>3. EventSound(new)
  BY <1>2 DEF EventSound
<1> QED
  BY <1>1, <1>2, <1>3 DEF new

(* No version is forgotten by what a step writes. *)
LEMMA VersionsRemembered ==
  ASSUME NEW doc, EventSound(scoringEvent), \A id \in DOMAIN scoringEvent.activities : Told(id),
         scoringEvent' = doc, Written(scoringEvent, doc), ScoringPageEdits!Remember(doc),
         \A id \in DOMAIN doc.activities \ DOMAIN scoringEvent.activities : versions[id] = {}
  PROVE  \A id \in DOMAIN scoringEvent'.activities : Told(id)'
<1> SUFFICES ASSUME NEW id \in DOMAIN doc.activities
             PROVE  versions'[id] \subseteq {VersionOf(doc.activities[id])} \cup HistoryOf(doc.activities[id])
  BY DEF Told
<1> DEFINE a == scoringEvent.activities[id]
           b == doc.activities[id]
<1>1. id \in Activities
  BY DEF Written, EventSound
<1>2. versions'[id] =
        (IF id \in DOMAIN scoringEvent.activities /\ doc.starters # scoringEvent.starters
         THEN versions[id] \ {VersionOf(a)} ELSE versions[id]) \cup {VersionOf(b)}
  BY <1>1 DEF ScoringPageEdits!Remember, VersionOf
<1>3. CASE id \notin DOMAIN scoringEvent.activities
  BY <1>2, <1>3
<1>4. CASE id \in DOMAIN scoringEvent.activities
  <2>1. versions[id] \subseteq {VersionOf(a)} \cup HistoryOf(a) /\ ActivitySound(a)
    BY <1>4 DEF Told, EventSound
  <2>2. \/ b = a
        \/ b.history = Longer(VersionOf(a), a.history)
        \/ doc.starters # scoringEvent.starters /\ b.history = a.history
    BY <1>4 DEF Written, Kept, Corrected, Filtered
  <2>3. CASE b.history = Longer(VersionOf(a), a.history)
    <3>1. \E S : a.history \in Seq(S)
      BY <2>1 DEF ActivitySound
    <3> HIDE DEF a, b
    <3>2. /\ \A i \in DOMAIN a.history : \E j \in DOMAIN b.history : b.history[j] = a.history[i]
          /\ \E j \in DOMAIN b.history : b.history[j] = VersionOf(a)
      BY <2>3, <3>1, LongerHistory
    <3>3. HistoryOf(a) \subseteq HistoryOf(b) /\ VersionOf(a) \in HistoryOf(b)
      BY <3>2 DEF HistoryOf
    <3>4. versions'[id] \subseteq versions[id] \cup {VersionOf(b)}
      BY <1>2
    <3>5. versions'[id] \subseteq {VersionOf(b)} \cup HistoryOf(b)
      BY <2>1, <3>3, <3>4
    <3> QED
      BY <3>5 DEF b
  <2>4. CASE b = a
    BY <1>2, <2>1, <2>4
  <2>5. CASE doc.starters # scoringEvent.starters /\ b.history = a.history
    <3> HIDE DEF a, b
    <3>1. HistoryOf(b) = HistoryOf(a)
      BY <2>5 DEF HistoryOf
    <3>2. versions'[id] = (versions[id] \ {VersionOf(a)}) \cup {VersionOf(b)}
      BY <1>2, <1>4, <2>5
    <3>3. versions'[id] \subseteq {VersionOf(b)} \cup HistoryOf(b)
      BY <2>1, <3>1, <3>2
    <3> QED
      BY <3>3 DEF b
  <2> QED
    BY <2>2, <2>3, <2>4, <2>5
<1> QED
  BY <1>3, <1>4

(* What the page writes, to its copy of the document. *)
LEMMA PageWrites ==
  ASSUME EventRight, NEW doc, Written(scoringShown, doc), ScoringPageEdits!Update(doc), scoringShown' = scoringShown,
         \A id \in DOMAIN doc.activities \ DOMAIN scoringShown.activities : versions[id] = {}
  PROVE  /\ EventRight'
         /\ \/ scoringEvent' = scoringEvent
            \/ scoringShown = scoringEvent /\ scoringEvent' = doc
<1>1. /\ scoringEvent' = IF doc = scoringShown \/ scoringUnheard THEN scoringEvent ELSE doc
      /\ ScoringPageEdits!Remember(scoringEvent')
  BY DEF ScoringPageEdits!Update
<1>2. scoringUnheard' = (scoringUnheard \/ doc # scoringShown)
  BY DEF ScoringPageEdits!Update
<1>3. CASE ~scoringUnheard /\ doc # scoringShown
  <2>1. scoringShown = scoringEvent /\ scoringEvent' = doc
    BY <1>1, <1>3 DEF EventRight
  <2>2. \A id \in DOMAIN scoringEvent'.activities : Told(id)'
    BY <1>1, <2>1, VersionsRemembered DEF EventRight
  <2>3. scoringUnheard'
    BY <1>2, <1>3
  <2> QED
    BY <2>1, <2>2, <2>3 DEF EventRight, Written
<1>4. CASE ~(~scoringUnheard /\ doc # scoringShown)
  <2>1. scoringEvent' = scoringEvent
    BY <1>1, <1>4
  <2>2. Written(scoringEvent, scoringEvent)
    BY DEF EventRight, Written, Kept
  <2>3. \A id \in DOMAIN scoringEvent'.activities : Told(id)'
    BY <1>1, <2>1, <2>2, VersionsRemembered DEF EventRight
  <2>4. ~scoringUnheard' => ~scoringUnheard
    BY <1>2
  <2> QED
    BY <2>1, <2>3, <2>4 DEF EventRight
<1> QED
  BY <1>3, <1>4

(* The page changes activities of the race it shows only, one unless it removes all or a starter. *)
PageOnly(doc) ==
  /\ Written(scoringShown, doc)
  /\ \A i \in DOMAIN doc.activities \ DOMAIN scoringShown.activities : versions[i] = {}
  /\ \A i \in DOMAIN scoringShown.activities :
       scoringShown.activities[i].race # scoringRace => i \in DOMAIN doc.activities /\ Kept(scoringShown, doc, i)
  /\ doc.starters = scoringShown.starters =>
       /\ removeAllOpen \/ DOMAIN scoringShown.activities \subseteq DOMAIN doc.activities
       /\ \E one : \A i \in (DOMAIN doc.activities \cap DOMAIN scoringShown.activities) \ {one} : Kept(scoringShown, doc, i)

LEMMA AtMostOne ==
  ASSUME NEW some, NEW one, some \subseteq {one}
  PROVE  ~(ScoringPageEdits!Cardinality(some) > 1)
<1>1. ScoringPageEdits!Cardinality(some) = Cardinality(some)
  BY DEF Cardinality, ScoringPageEdits!Cardinality
<1>2. IsFiniteSet({one}) /\ Cardinality({one}) = 1
  BY FS_Singleton
<1>3. Cardinality(some) <= 1 /\ Cardinality(some) \in Nat
  BY <1>2, FS_Subset, FS_CardinalityType
<1> QED
  BY <1>1, <1>3

LEMMA NothingLost ==
  ASSUME scoringEvent' = scoringEvent
  PROVE  ScoringPageEdits!ActivitiesStay
<1> DEFINE lost == {id \in DOMAIN scoringEvent.activities : id \notin DOMAIN scoringEvent'.activities}
           changed == {id \in DOMAIN scoringEvent.activities \ lost :
                         scoringEvent'.activities[id] # scoringEvent.activities[id]}
<1>1. lost = {} /\ changed = {}
  OBVIOUS
<1> HIDE DEF lost, changed
<1>2. ~(ScoringPageEdits!Cardinality(changed) > 1)
  BY <1>1, AtMostOne
<1> QED
  BY <1>1, <1>2 DEF ScoringPageEdits!ActivitiesStay, lost, changed

LEMMA PageKeepsOthers ==
  ASSUME EventRight, NEW doc, PageOnly(doc), ScoringPageEdits!Update(doc), scoringShown' = scoringShown
  PROVE  EventRight' /\ ScoringPageEdits!ActivitiesStay
<1> DEFINE lost == {id \in DOMAIN scoringEvent.activities : id \notin DOMAIN scoringEvent'.activities}
           changed == {id \in DOMAIN scoringEvent.activities \ lost :
                         scoringEvent'.activities[id] # scoringEvent.activities[id]}
<1>1. /\ EventRight'
      /\ scoringEvent' = scoringEvent \/ (scoringShown = scoringEvent /\ scoringEvent' = doc)
  BY PageWrites DEF PageOnly
<1>2. CASE scoringEvent' = scoringEvent
  BY <1>1, <1>2, NothingLost
<1>3. CASE scoringShown = scoringEvent /\ scoringEvent' = doc
  <2>1. \A id \in lost \cup changed : id \in ScoringPageEdits!Rows
    BY <1>3 DEF PageOnly, Kept, ScoringPageEdits!Rows, ScoringPageEdits!OfRace
  <2>2. lost # {} => removeAllOpen \/ scoringEvent'.starters # scoringEvent.starters
    BY <1>3 DEF PageOnly
  <2>3. scoringEvent'.starters = scoringEvent.starters => \E one : changed \subseteq {one}
    BY <1>3 DEF PageOnly, Kept
  <2> HIDE DEF lost, changed
  <2>4. ScoringPageEdits!Cardinality(changed) > 1 => scoringEvent'.starters # scoringEvent.starters
    BY <2>3, AtMostOne
  <2>5. \A id \in lost \cup changed :
          ScoringPageEdits!RowOf(scoringShown.activities[id]) = ScoringPageEdits!RowOf(scoringEvent.activities[id])
    BY <1>3
  <2> QED
    BY <1>1, <2>1, <2>2, <2>4, <2>5 DEF ScoringPageEdits!ActivitiesStay, lost, changed
<1> QED
  BY <1>1, <1>2, <1>3

LEMMA OneActivityOnly ==
  ASSUME EventRight, scoringRace \in scoringShown.races
  PROVE  /\ \A id \in Activities : \A recording : versions[id] = {} /\ id \notin DOMAIN scoringShown.activities
              => PageOnly(ScoringPageEdits!addRaceActivity(scoringShown, scoringRace, id, recording))
         /\ \A id \in ScoringPageEdits!Rows : \A next : PageOnly(ScoringPageEdits!updateRaceActivity(scoringShown, id, next))
         /\ \A bib \in scoringShown.starters[scoringRace] :
              PageOnly(ScoringPageEdits!removeRaceStarter(scoringShown, scoringRace, bib))
<1>1. EventSound(scoringShown)
  BY DEF EventRight
<1>2. ASSUME NEW id \in Activities, NEW recording, versions[id] = {}
      PROVE  PageOnly(ScoringPageEdits!addRaceActivity(scoringShown, scoringRace, id, recording))
  <2> DEFINE new == ScoringPageEdits!addRaceActivity(scoringShown, scoringRace, id, recording)
  <2>1. /\ EventSound(new) /\ new.starters = scoringShown.starters
        /\ DOMAIN new.activities = DOMAIN scoringShown.activities \cup {id}
        /\ \A i \in DOMAIN scoringShown.activities : Kept(scoringShown, new, i)
    BY <1>1, ActivityAdded
  <2> HIDE DEF new
  <2>2. PageOnly(new)
    BY <1>2, <2>1 DEF PageOnly, Written
  <2> QED
    BY <2>2 DEF new
<1>3. ASSUME NEW id \in ScoringPageEdits!Rows, NEW next
      PROVE  PageOnly(ScoringPageEdits!updateRaceActivity(scoringShown, id, next))
  <2> DEFINE new == ScoringPageEdits!updateRaceActivity(scoringShown, id, next)
  <2>1. id \in DOMAIN scoringShown.activities /\ scoringShown.activities[id].race = scoringRace
    BY DEF ScoringPageEdits!Rows, ScoringPageEdits!OfRace
  <2>2. /\ EventSound(new) /\ new.starters = scoringShown.starters
        /\ DOMAIN new.activities = DOMAIN scoringShown.activities
        /\ Corrected(scoringShown, new, id)
        /\ \A i \in DOMAIN scoringShown.activities \ {id} : Kept(scoringShown, new, i)
    BY <1>1, <2>1, ActivityUpdated
  <2> HIDE DEF new
  <2>3. PageOnly(new)
    BY <2>1, <2>2 DEF PageOnly, Written
  <2> QED
    BY <2>3 DEF new
<1>4. ASSUME NEW bib \in scoringShown.starters[scoringRace]
      PROVE  PageOnly(ScoringPageEdits!removeRaceStarter(scoringShown, scoringRace, bib))
  <2> DEFINE new == ScoringPageEdits!removeRaceStarter(scoringShown, scoringRace, bib)
  <2>1. /\ EventSound(new) /\ new.starters # scoringShown.starters
        /\ DOMAIN new.activities \subseteq DOMAIN scoringShown.activities
        /\ \A i \in DOMAIN new.activities : Kept(scoringShown, new, i) \/ Filtered(scoringShown, new, i)
        /\ \A i \in DOMAIN scoringShown.activities :
             scoringShown.activities[i].race # scoringRace => i \in DOMAIN new.activities /\ Kept(scoringShown, new, i)
    BY <1>1, StarterRemoved
  <2> HIDE DEF new
  <2>2. PageOnly(new)
    BY <2>1 DEF PageOnly, Written
  <2> QED
    BY <2>2 DEF new
<1> QED
  BY <1>2, <1>3, <1>4

LEMMA RacesOnly ==
  ASSUME EventRight
  PROVE  /\ \A race \in StarterRaces : PageOnly([scoringShown EXCEPT !.races = @ \cup {race}])
         /\ \A race \in StarterRaces : PageOnly(ScoringPageEdits!toggledActiveRace(scoringShown, race))
         /\ removeAllOpen => PageOnly(ScoringPageEdits!replaceRaceActivities(scoringShown, scoringRace, {}))
<1>1. EventSound(scoringShown)
  BY DEF EventRight
<1>2. ASSUME NEW new, EventSound(new), new.activities = scoringShown.activities
      PROVE  PageOnly(new)
  BY <1>2 DEF PageOnly, Written, Kept
<1>3. ASSUME NEW race \in StarterRaces
      PROVE  /\ PageOnly([scoringShown EXCEPT !.races = @ \cup {race}])
             /\ PageOnly(ScoringPageEdits!toggledActiveRace(scoringShown, race))
  BY <1>1, <1>2, RacesChanged
<1>4. ASSUME removeAllOpen
      PROVE  PageOnly(ScoringPageEdits!replaceRaceActivities(scoringShown, scoringRace, {}))
  <2> DEFINE new == ScoringPageEdits!replaceRaceActivities(scoringShown, scoringRace, {})
  <2>1. /\ EventSound(new) /\ new.starters = scoringShown.starters
        /\ DOMAIN new.activities = DOMAIN scoringShown.activities \ ScoringPageEdits!OfRace(scoringShown, scoringRace)
        /\ \A i \in DOMAIN new.activities : Kept(scoringShown, new, i)
    BY <1>1, ActivitiesReplaced
  <2> HIDE DEF new
  <2>2. PageOnly(new)
    BY <1>4, <2>1 DEF PageOnly, Written, ScoringPageEdits!OfRace
  <2> QED
    BY <2>2 DEF new
<1> QED
  BY <1>3, <1>4

LEMMA StaysAsItIs ==
  ASSUME EventRight, UNCHANGED <<scoringEvent, scoringShown, scoringUnheard, versions>>
  PROVE  EventRight' /\ ScoringPageEdits!ActivitiesStay
<1>1. \A id : Told(id) => Told(id)'
  BY DEF Told
<1> QED
  BY <1>1, NothingLost DEF EventRight

LEMMA ActivityWrites ==
  ASSUME EventRight,
         \/ \E id \in Activities, recording \in Recordings : ScoringPageEdits!handleAddRaceActivity(id, recording)
         \/ \E id \in Activities : ScoringPageEdits!saveEdit(id) \/ ScoringPageEdits!toggleDelete(id)
         \/ \E bib \in Entered : ScoringPageEdits!handleDeleteStarter(bib)
         \/ ScoringPageEdits!toggleActiveRace
         \/ \E race \in StarterRaces : ScoringPageEdits!createRaceFromLive(race)
         \/ ScoringPageEdits!removeAllActivities
  PROVE  EventRight' /\ ScoringPageEdits!ActivitiesStay
<1>1. scoringShown' = scoringShown
  BY DEF ScoringPageEdits!handleAddRaceActivity, ScoringPageEdits!saveEdit, ScoringPageEdits!toggleDelete,
         ScoringPageEdits!handleDeleteStarter, ScoringPageEdits!toggleActiveRace, ScoringPageEdits!createRaceFromLive,
         ScoringPageEdits!removeAllActivities
<1>2. scoringShown.races \subseteq StarterRaces
  BY DEF EventRight, EventSound
<1>3. ASSUME NEW doc, PageOnly(doc), ScoringPageEdits!Update(doc)
      PROVE  EventRight' /\ ScoringPageEdits!ActivitiesStay
  BY <1>1, <1>3, PageKeepsOthers
<1>4. ASSUME NEW id \in Activities, NEW recording \in Recordings, ScoringPageEdits!handleAddRaceActivity(id, recording)
      PROVE  EventRight' /\ ScoringPageEdits!ActivitiesStay
  <2>1. /\ scoringRace \in scoringShown.races /\ versions[id] = {} /\ id \notin DOMAIN scoringShown.activities
        /\ ScoringPageEdits!Update(ScoringPageEdits!addRaceActivity(scoringShown, scoringRace, id, recording))
    BY <1>4 DEF ScoringPageEdits!handleAddRaceActivity, ScoringPageEdits!Page, ScoringPageEdits!RaceShown
  <2> QED
    BY <1>3, <2>1, OneActivityOnly
<1>5. ASSUME NEW id \in Activities, ScoringPageEdits!saveEdit(id)
      PROVE  EventRight' /\ ScoringPageEdits!ActivitiesStay
  <2>1. scoringRace \in scoringShown.races /\ id \in ScoringPageEdits!Rows
    BY <1>5 DEF ScoringPageEdits!saveEdit, ScoringPageEdits!Page, ScoringPageEdits!RaceShown
  <2>2. CASE ScoringPageEdits!Update(ScoringPageEdits!updateRaceActivity(scoringShown, id, activityEdit))
    BY <1>3, <2>1, <2>2, OneActivityOnly
  <2>3. CASE UNCHANGED <<scoringEvent, scoringUnheard, versions>>
    BY <1>1, <2>3, StaysAsItIs
  <2> QED
    BY <1>5, <2>2, <2>3 DEF ScoringPageEdits!saveEdit
<1>6. ASSUME NEW id \in Activities, ScoringPageEdits!toggleDelete(id)
      PROVE  EventRight' /\ ScoringPageEdits!ActivitiesStay
  <2>1. /\ scoringRace \in scoringShown.races /\ id \in ScoringPageEdits!Rows
        /\ ScoringPageEdits!Update(ScoringPageEdits!Deleted(scoringShown, id))
    BY <1>6 DEF ScoringPageEdits!toggleDelete, ScoringPageEdits!Page, ScoringPageEdits!RaceShown
  <2> QED
    BY <1>3, <2>1, OneActivityOnly DEF ScoringPageEdits!Deleted
<1>7. ASSUME NEW bib \in Entered, ScoringPageEdits!handleDeleteStarter(bib)
      PROVE  EventRight' /\ ScoringPageEdits!ActivitiesStay
  <2>1. /\ scoringRace \in scoringShown.races /\ bib \in scoringShown.starters[scoringRace]
        /\ ScoringPageEdits!Update(ScoringPageEdits!removeRaceStarter(scoringShown, scoringRace, bib))
    BY <1>7 DEF ScoringPageEdits!handleDeleteStarter, ScoringPageEdits!Page, ScoringPageEdits!RaceShown
  <2> QED
    BY <1>3, <2>1, OneActivityOnly
<1>8. CASE ScoringPageEdits!toggleActiveRace
  <2>1. /\ scoringRace \in scoringShown.races
        /\ ScoringPageEdits!Update(ScoringPageEdits!toggledActiveRace(scoringShown, scoringRace))
    BY <1>8 DEF ScoringPageEdits!toggleActiveRace, ScoringPageEdits!Page, ScoringPageEdits!RaceShown
  <2> QED
    BY <1>2, <1>3, <2>1, RacesOnly
<1>9. ASSUME NEW race \in StarterRaces, ScoringPageEdits!createRaceFromLive(race)
      PROVE  EventRight' /\ ScoringPageEdits!ActivitiesStay
  <2> DEFINE doc == [scoringShown EXCEPT !.races = @ \cup {race}]
  <2>1. ScoringPageEdits!Update(doc)
    BY <1>9 DEF ScoringPageEdits!createRaceFromLive
  <2>2. PageOnly(doc)
    BY RacesOnly
  <2> HIDE DEF doc
  <2> QED
    BY <1>3, <2>1, <2>2
<1>10. CASE ScoringPageEdits!removeAllActivities
  <2>1. /\ removeAllOpen
        /\ ScoringPageEdits!Update(ScoringPageEdits!replaceRaceActivities(scoringShown, scoringRace, {}))
    BY <1>10 DEF ScoringPageEdits!removeAllActivities
  <2> QED
    BY <1>3, <2>1, RacesOnly
<1> QED
  BY <1>4, <1>5, <1>6, <1>7, <1>8, <1>9, <1>10

(* What another page writes, on the present revision. *)
LEMMA OtherPageWrites ==
  ASSUME EventRight, ScoringPageEdits!OtherPage
  PROVE  EventRight'
<1>1. /\ scoringUnheard' = TRUE /\ scoringShown' = scoringShown
      /\ ScoringPageEdits!Remember(scoringEvent')
  BY DEF ScoringPageEdits!OtherPage
<1>2. EventSound(scoringEvent)
  BY DEF EventRight
<1>3. ASSUME NEW doc, Written(scoringEvent, doc), scoringEvent' = doc,
             \A id \in DOMAIN doc.activities \ DOMAIN scoringEvent.activities : versions[id] = {}
      PROVE  EventRight'
  <2>1. \A id \in DOMAIN scoringEvent'.activities : Told(id)'
    BY <1>1, <1>3, VersionsRemembered DEF EventRight
  <2> QED
    BY <1>1, <1>3, <2>1 DEF EventRight, Written
<1>4. ASSUME NEW id \in Activities, NEW recording \in Recordings, NEW race \in scoringEvent.races, versions[id] = {},
             scoringEvent' = ScoringPageEdits!addRaceActivity(scoringEvent, race, id, recording)
      PROVE  EventRight'
  <2> DEFINE doc == ScoringPageEdits!addRaceActivity(scoringEvent, race, id, recording)
  <2>1. /\ EventSound(doc)
        /\ DOMAIN doc.activities = DOMAIN scoringEvent.activities \cup {id}
        /\ \A i \in DOMAIN scoringEvent.activities : Kept(scoringEvent, doc, i)
    BY <1>2, ActivityAdded
  <2>2. scoringEvent' = doc
    BY <1>4
  <2> HIDE DEF doc
  <2> QED
    BY <1>3, <1>4, <2>1, <2>2 DEF Written
<1>5. ASSUME NEW id \in DOMAIN scoringEvent.activities, NEW next,
             scoringEvent' = ScoringPageEdits!updateRaceActivity(scoringEvent, id, next)
      PROVE  EventRight'
  <2> DEFINE doc == ScoringPageEdits!updateRaceActivity(scoringEvent, id, next)
  <2>1. /\ EventSound(doc) /\ DOMAIN doc.activities = DOMAIN scoringEvent.activities
        /\ Corrected(scoringEvent, doc, id) /\ \A i \in DOMAIN scoringEvent.activities \ {id} : Kept(scoringEvent, doc, i)
    BY <1>2, ActivityUpdated
  <2>2. scoringEvent' = doc
    BY <1>5
  <2> HIDE DEF doc
  <2> QED
    BY <1>3, <2>1, <2>2 DEF Written
<1>6. ASSUME NEW race \in scoringEvent.races,
             \/ scoringEvent' = ScoringPageEdits!replaceRaceActivities(scoringEvent, race, {})
             \/ scoringEvent' = ScoringPageEdits!deleteRace(scoringEvent, race)
      PROVE  EventRight'
  <2>1. /\ EventSound(scoringEvent')
        /\ \A i \in DOMAIN scoringEvent'.activities : i \in DOMAIN scoringEvent.activities /\ Kept(scoringEvent, scoringEvent', i)
    BY <1>2, <1>6, ActivitiesReplaced, RaceDeleted
  <2> QED
    BY <1>3, <2>1 DEF Written
<1>7. ASSUME NEW race \in scoringEvent.races, NEW bib \in scoringEvent.starters[race],
             scoringEvent' = ScoringPageEdits!removeRaceStarter(scoringEvent, race, bib)
      PROVE  EventRight'
  <2> DEFINE doc == ScoringPageEdits!removeRaceStarter(scoringEvent, race, bib)
  <2>1. /\ EventSound(doc) /\ DOMAIN doc.activities \subseteq DOMAIN scoringEvent.activities
        /\ \A i \in DOMAIN doc.activities : Kept(scoringEvent, doc, i) \/ Filtered(scoringEvent, doc, i)
    BY <1>2, StarterRemoved
  <2>2. scoringEvent' = doc
    BY <1>7
  <2> HIDE DEF doc
  <2> QED
    BY <1>3, <2>1, <2>2 DEF Written
<1> QED
  BY <1>4, <1>5, <1>6, <1>7 DEF ScoringPageEdits!OtherPage, ScoringPageEdits!Deleted

(* The edit panel and the dialog. *)
LEMMA PanelInductive ==
  ASSUME ActivityInv, [ScoringPageEdits!Next]_(ScoringPageEdits!activityVars)
  PROVE  PanelClosed' /\ ScoringPageEdits!PanelStays /\ inputs' \in Nat /\ others' \in Nat
<1>1. EventSound(scoringShown) /\ PanelClosed /\ inputs \in Nat /\ others \in Nat
  BY DEF ActivityInv, EventRight
<1>2. \A id \in ScoringPageEdits!Rows : id # 0
  BY <1>1, ActivityConstants DEF ScoringPageEdits!Rows, ScoringPageEdits!OfRace, EventSound
<1>3. ScoringPageEdits!NotEditing \in [id : {0}, lap : {1}, isDeleted : {FALSE}, results : {{}}, error : {FALSE}]
  BY DEF ScoringPageEdits!NotEditing
<1> DEFINE Closed == activityEdit' = ScoringPageEdits!NotEditing
           Counted == inputs' = inputs + 1 /\ others' = others
<1>4. Closed => PanelClosed'
  BY <1>3 DEF PanelClosed
<1>5. UNCHANGED <<activityEdit, removeAllOpen>> => PanelClosed' /\ ScoringPageEdits!PanelStays
  BY <1>1 DEF PanelClosed, ScoringPageEdits!PanelStays
<1>6. Counted => ScoringPageEdits!PanelStays /\ inputs' \in Nat /\ others' \in Nat
  BY <1>1 DEF ScoringPageEdits!PanelStays
<1>7. CASE ScoringPageEdits!Page /\ removeAllOpen' = removeAllOpen /\ (Closed \/ activityEdit' = activityEdit)
  BY <1>1, <1>4, <1>5, <1>6, <1>7 DEF ScoringPageEdits!Page, ScoringPageEdits!Input
<1>8. ASSUME ScoringPageEdits!Page, removeAllOpen' = removeAllOpen, NEW id \in ScoringPageEdits!Rows,
             activityEdit' \in [id : {id}, lap : {activityEdit'.lap}, isDeleted : {activityEdit'.isDeleted},
                                results : {activityEdit'.results}, error : {activityEdit'.error}]
      PROVE  PanelClosed' /\ ScoringPageEdits!PanelStays /\ inputs' \in Nat /\ others' \in Nat
  <2>1. ~removeAllOpen' /\ Counted
    BY <1>8 DEF ScoringPageEdits!Page, ScoringPageEdits!Input
  <2> HIDE DEF Counted
  <2>2. activityEdit'.id = id /\ id # 0
    BY <1>2, <1>8
  <2> QED
    BY <1>6, <1>8, <2>1, <2>2 DEF PanelClosed
<1>9. CASE ScoringPageEdits!RemoveAllButton
  <2>1. Counted /\ activityEdit' = activityEdit /\ activityEdit.id = 0
    BY <1>9 DEF ScoringPageEdits!RemoveAllButton, ScoringPageEdits!Page, ScoringPageEdits!Input, ScoringPageEdits!NotEditing
  <2>2. Closed
    BY <1>1, <2>1 DEF PanelClosed
  <2> HIDE DEF Counted, Closed
  <2> QED
    BY <1>4, <1>6, <2>1, <2>2
<1>10. CASE ScoringPageEdits!CloseRemoveAll \/ ScoringPageEdits!removeAllActivities
  <2>1. /\ UNCHANGED <<inputs, others>> /\ removeAllOpen /\ removeAllOpen' = FALSE
        /\ Closed \/ activityEdit' = activityEdit
    BY <1>10 DEF ScoringPageEdits!CloseRemoveAll, ScoringPageEdits!removeAllActivities
  <2>2. activityEdit = ScoringPageEdits!NotEditing
    BY <1>1, <2>1 DEF PanelClosed
  <2>3. Closed /\ activityEdit' = activityEdit
    BY <2>1, <2>2
  <2> QED
    BY <1>1, <1>4, <2>1, <2>3 DEF ScoringPageEdits!PanelStays
<1>11. CASE ScoringPageEdits!Hear
  <2>1. /\ UNCHANGED <<inputs, others, scoringRace>> /\ scoringShown' = scoringEvent
        /\ activityEdit' = IF scoringRace \in scoringEvent.races THEN activityEdit ELSE ScoringPageEdits!NotEditing
        /\ removeAllOpen' = (removeAllOpen /\ scoringRace \in scoringEvent.races)
    BY <1>11 DEF ScoringPageEdits!Hear
  <2>2. CASE scoringRace \in scoringEvent.races
    <3>1. activityEdit' = activityEdit /\ (removeAllOpen' => removeAllOpen)
      BY <2>1, <2>2
    <3> QED
      BY <1>1, <2>1, <3>1 DEF PanelClosed, ScoringPageEdits!PanelStays
  <2>3. CASE scoringRace \notin scoringEvent.races
    BY <1>1, <1>4, <2>1, <2>3 DEF ScoringPageEdits!PanelStays
  <2> QED
    BY <2>2, <2>3
<1>12. CASE ScoringPageEdits!OtherPage
  <2>1. UNCHANGED <<activityEdit, removeAllOpen, inputs>> /\ others' = others + 1
    BY <1>12 DEF ScoringPageEdits!OtherPage, ScoringPageEdits!Other
  <2> QED
    BY <1>1, <1>5, <2>1
<1>13. CASE UNCHANGED ScoringPageEdits!activityVars
  BY <1>1, <1>5, <1>13 DEF ScoringPageEdits!activityVars
<1>14. ASSUME NEW id \in Activities, ScoringPageEdits!ActivityRow(id)
       PROVE  PanelClosed' /\ ScoringPageEdits!PanelStays /\ inputs' \in Nat /\ others' \in Nat
  <2>1. ScoringPageEdits!Page /\ removeAllOpen' = removeAllOpen /\ id \in ScoringPageEdits!Rows
    BY <1>14 DEF ScoringPageEdits!ActivityRow, ScoringPageEdits!startEdit, ScoringPageEdits!saveEdit, ScoringPageEdits!toggleDelete
  <2>2. CASE ScoringPageEdits!startEdit(id)
    BY <1>8, <2>1, <2>2 DEF ScoringPageEdits!startEdit
  <2>3. CASE ScoringPageEdits!saveEdit(id) /\ activityEdit' = [activityEdit EXCEPT !.error = TRUE]
    <3>1. activityEdit.id = id
      BY <2>3 DEF ScoringPageEdits!saveEdit
    <3>2. activityEdit' \in [id : {id}, lap : {activityEdit'.lap}, isDeleted : {activityEdit'.isDeleted},
                             results : {activityEdit'.results}, error : {activityEdit'.error}]
      BY <1>1, <2>3, <3>1 DEF PanelClosed
    <3> QED
      BY <1>8, <2>1, <3>2
  <2>4. CASE ScoringPageEdits!saveEdit(id) /\ Closed
    BY <1>7, <2>1, <2>4
  <2>5. CASE ScoringPageEdits!toggleDelete(id)
    <3>1. activityEdit' = activityEdit
      BY <2>5 DEF ScoringPageEdits!toggleDelete
    <3> QED
      BY <1>7, <2>1, <3>1
  <2> QED
    BY <1>14, <2>2, <2>3, <2>4, <2>5 DEF ScoringPageEdits!ActivityRow, ScoringPageEdits!saveEdit
<1>15. CASE ScoringPageEdits!EditPanel
  <2>1. ScoringPageEdits!Page /\ removeAllOpen' = removeAllOpen /\ activityEdit.id \in ScoringPageEdits!Rows
    BY <1>15 DEF ScoringPageEdits!EditPanel
  <2>2. \/ \E lap : activityEdit' = [activityEdit EXCEPT !.lap = lap]
        \/ activityEdit' = [activityEdit EXCEPT !.isDeleted = ~@]
        \/ \E results : activityEdit' = [activityEdit EXCEPT !.results = results]
    BY <1>15 DEF ScoringPageEdits!EditPanel
  <2>3. activityEdit' \in [id : {activityEdit.id}, lap : {activityEdit'.lap}, isDeleted : {activityEdit'.isDeleted},
                           results : {activityEdit'.results}, error : {activityEdit'.error}]
    BY <1>1, <2>2 DEF PanelClosed
  <2> QED
    BY <1>8, <2>1, <2>3
<1>16. CASE \/ \E id \in Activities, recording \in Recordings : ScoringPageEdits!handleAddRaceActivity(id, recording)
            \/ \E bib \in Entered : ScoringPageEdits!handleDeleteStarter(bib)
            \/ ScoringPageEdits!toggleActiveRace \/ ScoringPageEdits!openActiveRaceScoring
            \/ \E race \in StarterRaces : ScoringPageEdits!handleRaceSelect(race) \/ ScoringPageEdits!createRaceFromLive(race)
            \/ ScoringPageEdits!cancelEdit
  <2>1. ScoringPageEdits!Page /\ removeAllOpen' = removeAllOpen /\ (Closed \/ activityEdit' = activityEdit)
    BY <1>16 DEF ScoringPageEdits!handleAddRaceActivity, ScoringPageEdits!handleDeleteStarter,
       ScoringPageEdits!toggleActiveRace, ScoringPageEdits!openActiveRaceScoring, ScoringPageEdits!handleRaceSelect,
       ScoringPageEdits!createRaceFromLive, ScoringPageEdits!cancelEdit
  <2> QED
    BY <1>7, <2>1
<1> QED
  BY <1>9, <1>10, <1>11, <1>12, <1>13, <1>14, <1>15, <1>16 DEF ScoringPageEdits!Next

LEMMA ActivityInductive ==
  ASSUME ActivityInv, [ScoringPageEdits!Next]_(ScoringPageEdits!activityVars)
  PROVE  ActivityInv' /\ ScoringPageEdits!ActivitiesStay /\ ScoringPageEdits!PanelStays
<1> SUFFICES EventRight' /\ ScoringPageEdits!ActivitiesStay
  BY PanelInductive DEF ActivityInv
<1>1. EventRight /\ others \in Nat
  BY DEF ActivityInv
<1>2. CASE \/ \E id \in Activities, recording \in Recordings : ScoringPageEdits!handleAddRaceActivity(id, recording)
           \/ \E id \in Activities : ScoringPageEdits!saveEdit(id) \/ ScoringPageEdits!toggleDelete(id)
           \/ \E bib \in Entered : ScoringPageEdits!handleDeleteStarter(bib)
           \/ ScoringPageEdits!toggleActiveRace
           \/ \E race \in StarterRaces : ScoringPageEdits!createRaceFromLive(race)
           \/ ScoringPageEdits!removeAllActivities
  BY <1>1, <1>2, ActivityWrites
<1>3. CASE \/ \E id \in Activities : ScoringPageEdits!startEdit(id)
           \/ ScoringPageEdits!openActiveRaceScoring
           \/ \E race \in StarterRaces : ScoringPageEdits!handleRaceSelect(race)
           \/ ScoringPageEdits!cancelEdit \/ ScoringPageEdits!EditPanel
           \/ ScoringPageEdits!RemoveAllButton \/ ScoringPageEdits!CloseRemoveAll
           \/ UNCHANGED ScoringPageEdits!activityVars
  <2>1. UNCHANGED <<scoringEvent, scoringShown, scoringUnheard, versions>>
    BY <1>3 DEF ScoringPageEdits!startEdit, ScoringPageEdits!openActiveRaceScoring, ScoringPageEdits!handleRaceSelect,
       ScoringPageEdits!cancelEdit, ScoringPageEdits!EditPanel, ScoringPageEdits!RemoveAllButton,
       ScoringPageEdits!CloseRemoveAll, ScoringPageEdits!activityVars
  <2> QED
    BY <1>1, <2>1, StaysAsItIs
<1>4. CASE ScoringPageEdits!Hear
  <2>1. UNCHANGED <<scoringEvent, versions>> /\ scoringShown' = scoringEvent
    BY <1>4 DEF ScoringPageEdits!Hear
  <2>2. \A id : Told(id) => Told(id)'
    BY <2>1 DEF Told
  <2>3. EventRight'
    BY <1>1, <2>1, <2>2 DEF EventRight
  <2> QED
    BY <2>1, <2>3, NothingLost
<1>5. CASE ScoringPageEdits!OtherPage
  <2>1. others' # others
    BY <1>1, <1>5 DEF ScoringPageEdits!OtherPage, ScoringPageEdits!Other
  <2> QED
    BY <1>1, <1>5, <2>1, OtherPageWrites DEF ScoringPageEdits!ActivitiesStay
<1> QED
  BY <1>2, <1>3, <1>4, <1>5 DEF ScoringPageEdits!Next, ScoringPageEdits!ActivityRow

LEMMA ActivityInitially ==
  ASSUME ScoringPageEdits!Init
  PROVE  ActivityInv
<1> DEFINE first == CHOOSE id \in Activities : TRUE
<1>1. first \in Activities
  BY ActivityConstants
<1>2. PICK some \in SUBSET StarterRaces, recording \in Recordings :
        /\ scoringRace \in some
        /\ scoringEvent = ScoringPageEdits!addRaceActivity(
             [races |-> some, activeRaceId |-> NoRace, starters |-> [race \in StarterRaces |-> Entered],
              activities |-> [id \in {} |-> <<>>]], scoringRace, first, recording)
  BY DEF ScoringPageEdits!Init
<1> DEFINE doc == [races |-> some, activeRaceId |-> NoRace, starters |-> [race \in StarterRaces |-> Entered],
                   activities |-> [id \in {} |-> <<>>]]
<1>3. EventSound(doc) /\ scoringRace \in doc.races
  BY <1>2 DEF EventSound
<1>4. scoringEvent = ScoringPageEdits!addRaceActivity(doc, scoringRace, first, recording)
  BY <1>2
<1> HIDE DEF doc, first
<1>5. EventSound(scoringEvent)
  BY <1>1, <1>3, <1>4, ActivityAdded
<1>6. /\ scoringShown = scoringEvent /\ activityEdit = ScoringPageEdits!NotEditing /\ inputs = 0 /\ others = 0
      /\ versions = [id \in Activities |-> IF id \in DOMAIN scoringEvent.activities
                                           THEN {VersionOf(scoringEvent.activities[id])} ELSE {}]
  BY DEF ScoringPageEdits!Init, VersionOf
<1>7. \A id \in DOMAIN scoringEvent.activities : Told(id)
  BY <1>5, <1>6 DEF EventSound, Told
<1>8. PanelClosed
  BY <1>6 DEF PanelClosed, ScoringPageEdits!NotEditing
<1> QED
  BY <1>5, <1>6, <1>7, <1>8 DEF ActivityInv, EventRight

LEMMA ActivityComplete ==
  ASSUME ActivityInv
  PROVE  ScoringPageEdits!HistoryComplete
<1>1. ASSUME NEW id \in DOMAIN scoringEvent.activities
      PROVE  /\ scoringEvent.activities[id].race \in scoringEvent.races
             /\ versions[id] \subseteq {VersionOf(scoringEvent.activities[id])}
                                         \cup ScoringPageEdits!ToSet(scoringEvent.activities[id].history)
  BY DEF ActivityInv, EventRight, EventSound, Told, HistoryOf, ScoringPageEdits!ToSet
<1> QED
  BY <1>1 DEF ScoringPageEdits!HistoryComplete, VersionOf

-----------------------------------------------------------------------------
(* The panel of the finish line. *)
EntrySound(e) ==
  e \in [rank : {e.rank}, click : {e.click}, own : {e.own}, bib : {e.bib}, asked : {e.asked}, add : {e.add},
         drag : {e.drag}]

FinishInv == clicks \in Nat /\ EntrySound(entry)

(* What the operator has typed is the same. *)
SameEntry(e, new) ==
  new.bib = e.bib /\ new.drag = e.drag /\ (e.bib # 0 => new.rank = e.rank)

LEMMA EntryUpdates ==
  ASSUME NEW e, EntrySound(e), NEW rank
  PROVE  /\ EntrySound(Finish!Realigned(e, rank)) /\ SameEntry(e, Finish!Realigned(e, rank))
         /\ Finish!Realigned(e, rank).add = e.add
         /\ EntrySound(Finish!ListShows(e, rank)) /\ SameEntry(e, Finish!ListShows(e, rank))
         /\ Finish!ListShows(e, rank).add = e.add
         /\ EntrySound(Finish!Onward(e, rank)) /\ Finish!Onward(e, rank).add = e.add
<1>1. /\ EntrySound(Finish!ListShows(e, rank)) /\ SameEntry(e, Finish!ListShows(e, rank))
      /\ Finish!ListShows(e, rank).add = e.add
  BY DEF EntrySound, SameEntry, Finish!ListShows
<1>2. EntrySound(Finish!Onward(e, rank)) /\ Finish!Onward(e, rank).add = e.add
  BY DEF EntrySound, Finish!Onward
<1>3. /\ EntrySound(Finish!Realigned(e, rank)) /\ SameEntry(e, Finish!Realigned(e, rank))
      /\ Finish!Realigned(e, rank).add = e.add
  BY DEF EntrySound, SameEntry, Finish!Realigned
<1> QED
  BY <1>1, <1>2, <1>3

LEMMA FirstEntry ==
  \A rank : EntrySound(Finish!InitialEntry(rank))
BY DEF EntrySound, Finish!InitialEntry

LEMMA EmptiedSound ==
  ASSUME EntrySound(entry)
  PROVE  \A next : EntrySound(Finish!Emptied(next))
BY EntryUpdates DEF Finish!Emptied

LEMMA RaceReaches ==
  ASSUME EntrySound(entry), NEW a, Finish!RaceChanges(a)
  PROVE  EntrySound(entry') /\ (entry'.add = entry.add => SameEntry(entry, entry'))
<1> DEFINE row == IF Finish!RaceRenewsList(a) THEN Finish!ListShows(entry, a.rank) ELSE entry
           done == [row EXCEPT !.add = Finish!NoAdd]
           ranks == [a.rank EXCEPT ![entry.add.bib] = entry.add.rank]
           next == Finish!Onward(done, ranks)
<1>1. EntrySound(row) /\ SameEntry(entry, row) /\ row.add = entry.add
  BY EntryUpdates DEF SameEntry
<1>2. \/ entry' = Finish!Realigned(done, a.rank)
      \/ entry' = row
      \/ entry.add.bib # 0 /\ entry' = Finish!Realigned(next, a.rank)
  BY DEF Finish!RaceChanges
<1> HIDE DEF row, ranks
<1>3. EntrySound(done) /\ SameEntry(row, done) /\ done.add = Finish!NoAdd
  BY <1>1 DEF EntrySound, SameEntry
<1> HIDE DEF done
<1>4. EntrySound(next) /\ next.add = done.add
  BY <1>3, EntryUpdates
<1> HIDE DEF next
<1>5. CASE entry' = Finish!Realigned(done, a.rank)
  <2>1. EntrySound(entry') /\ SameEntry(done, entry')
    BY <1>3, <1>5, EntryUpdates
  <2> QED
    BY <1>1, <1>3, <2>1 DEF SameEntry
<1>6. CASE entry' = row
  BY <1>1, <1>6
<1>7. CASE entry.add.bib # 0 /\ entry' = Finish!Realigned(next, a.rank)
  <2>1. EntrySound(entry') /\ entry'.add = Finish!NoAdd
    BY <1>3, <1>4, <1>7, EntryUpdates
  <2>2. entry.add # Finish!NoAdd
    BY <1>7 DEF Finish!NoAdd
  <2> QED
    BY <2>1, <2>2
<1> QED
  BY <1>2, <1>5, <1>6, <1>7

(* What the steps of the operator make of the panel. *)
LEMMA PanelAnswers ==
  ASSUME EntrySound(entry),
         \/ \E n \in 0 .. MaxRank : Finish!TypeRank(n)
         \/ \E bib \in Bibs \cup {0} : Finish!TypeBib(bib)
         \/ Finish!ClearAll \/ Finish!EditTime \/ Finish!CreateStarter \/ Finish!CancelStarter \/ Finish!Reopen
         \/ \E bib \in Bibs : Finish!TakeOff(bib)
         \/ \E f \in Feeds : Finish!FillFromLive(f)
         \/ \E i : Finish!DragStart(i) \/ \E tie : Finish!Drop(i, tie)
  PROVE  EntrySound(entry')
<1>1. \/ \E n : entry' = [entry EXCEPT !.rank = n, !.own = TRUE]
      \/ \E bib : entry' = Finish!Realigned([entry EXCEPT !.bib = bib], arrivals.rank)
      \/ \E next : entry' = Finish!Emptied(next)
      \/ entry' = entry
      \/ entry' = Finish!Realigned([entry EXCEPT !.asked = 0], arrivals.rank)
      \/ entry' = Finish!Realigned([entry EXCEPT !.asked = 0, !.add = Finish!NoAdd], arrivals.rank)
      \/ entry' = Finish!InitialEntry(arrivals.rank)
      \/ \E i : entry' = [entry EXCEPT !.drag = i]
  BY DEF Finish!TypeRank, Finish!TypeBib, Finish!ClearAll, Finish!EditTime, Finish!CreateStarter, Finish!CancelStarter,
         Finish!Reopen, Finish!TakeOff, Finish!FillFromLive, Finish!DragStart, Finish!Drop
<1>2. /\ \A n : EntrySound([entry EXCEPT !.rank = n, !.own = TRUE])
      /\ \A i : EntrySound([entry EXCEPT !.drag = i])
      /\ \A bib : EntrySound([entry EXCEPT !.bib = bib])
      /\ EntrySound([entry EXCEPT !.asked = 0])
      /\ EntrySound([entry EXCEPT !.asked = 0, !.add = Finish!NoAdd])
  BY DEF EntrySound
<1>3. /\ \A bib : EntrySound(Finish!Realigned([entry EXCEPT !.bib = bib], arrivals.rank))
      /\ EntrySound(Finish!Realigned([entry EXCEPT !.asked = 0], arrivals.rank))
      /\ EntrySound(Finish!Realigned([entry EXCEPT !.asked = 0, !.add = Finish!NoAdd], arrivals.rank))
  BY <1>2, EntryUpdates
<1>4. \A next : EntrySound(Finish!Emptied(next))
  BY EmptiedSound
<1>5. EntrySound(Finish!InitialEntry(arrivals.rank))
  BY FirstEntry
<1> QED
  BY <1>1, <1>2, <1>3, <1>4, <1>5

LEMMA RiderAdded ==
  ASSUME EntrySound(entry),
         Finish!Add \/ Finish!EnterUnpicked \/ \E bib \in Bibs : Finish!ClickStarter(bib)
  PROVE  EntrySound(entry')
<1>1. ASSUME NEW bib, NEW rank, NEW ranks, NEW view, NEW after, EntrySound(view), EntrySound(after),
             Finish!RequestAdd(bib, rank, ranks, view, after)
      PROVE  EntrySound(entry')
  <2>1. \/ entry' = view \/ entry' = after
        \/ entry' = [view EXCEPT !.asked = bib, !.add = [bib |-> bib, rank |-> rank]]
    BY <1>1 DEF Finish!RequestAdd
  <2>2. EntrySound([view EXCEPT !.asked = bib, !.add = [bib |-> bib, rank |-> rank]])
    BY <1>1 DEF EntrySound
  <2> QED
    BY <1>1, <2>1, <2>2
<1>2. CASE Finish!Add
  <2>1. Finish!RequestAdd(entry.bib, entry.rank, arrivals.rank, entry, Finish!Emptied(Finish!WithNext(entry.bib)))
    BY <1>2 DEF Finish!Add
  <2>2. EntrySound(Finish!Emptied(Finish!WithNext(entry.bib)))
    BY EmptiedSound
  <2> QED
    BY <1>1, <2>1, <2>2
<1>3. CASE Finish!EnterUnpicked
  <2> DEFINE next == Finish!Onward(entry, Finish!WithNext(entry.bib))
             back == [next EXCEPT !.bib = entry.bib]
  <2>1. Finish!RequestAdd(entry.bib, entry.rank, arrivals.rank, entry, back)
    BY <1>3 DEF Finish!EnterUnpicked
  <2>2. EntrySound(next)
    BY EntryUpdates
  <2> HIDE DEF next
  <2>3. EntrySound(back)
    BY <2>2 DEF EntrySound
  <2> HIDE DEF back
  <2> QED
    BY <1>1, <2>1, <2>3
<1>4. ASSUME NEW bib \in Bibs, Finish!ClickStarter(bib)
      PROVE  EntrySound(entry')
  <2> DEFINE picked == [entry EXCEPT !.bib = bib]
             after == Finish!Emptied(Finish!Clicked(bib))
  <2>1. Finish!RequestAdd(bib, entry.click.rank, entry.click.ranks, picked, after)
    BY <1>4 DEF Finish!ClickStarter
  <2>2. EntrySound(after)
    BY EmptiedSound
  <2>3. EntrySound(picked)
    BY DEF EntrySound
  <2> HIDE DEF picked, after
  <2> QED
    BY <1>1, <2>1, <2>2, <2>3
<1> QED
  BY <1>2, <1>3, <1>4

LEMMA FinishInductive ==
  ASSUME FinishInv, [Finish!Next]_(Finish!finishVars)
  PROVE  FinishInv' /\ Finish!EntriesStay
<1>1. EntrySound(entry) /\ clicks \in Nat
  BY DEF FinishInv
<1>2. CASE Finish!OwnWrite \/ \E bib \in Bibs : Finish!OtherOperator(bib)
  <2>1. (\E a : Finish!RaceChanges(a)) /\ clicks' = clicks
    BY <1>2 DEF Finish!OwnWrite, Finish!OtherOperator
  <2> QED
    BY <1>1, <2>1, RaceReaches DEF FinishInv, Finish!EntriesStay, SameEntry
<1>3. CASE Finish!FeedMarks \/ UNCHANGED Finish!finishVars
  <2>1. clicks' = clicks /\ (entry' = Finish!ListShows(entry, arrivals.rank) \/ entry' = entry)
    BY <1>3 DEF Finish!FeedMarks, Finish!finishVars
  <2>2. EntrySound(entry') /\ SameEntry(entry, entry')
    BY <1>1, <2>1, EntryUpdates DEF SameEntry
  <2> QED
    BY <1>1, <2>1, <2>2 DEF FinishInv, Finish!EntriesStay, SameEntry
<1> DEFINE Answer ==
             \/ \E n \in 0 .. MaxRank : Finish!TypeRank(n)
             \/ \E bib \in Bibs \cup {0} : Finish!TypeBib(bib)
             \/ Finish!ClearAll \/ Finish!EditTime \/ Finish!CreateStarter \/ Finish!CancelStarter \/ Finish!Reopen
             \/ \E bib \in Bibs : Finish!TakeOff(bib)
             \/ \E f \in Feeds : Finish!FillFromLive(f)
             \/ \E i : Finish!DragStart(i) \/ \E tie : Finish!Drop(i, tie)
           Entering == Finish!Add \/ Finish!EnterUnpicked \/ \E bib \in Bibs : Finish!ClickStarter(bib)
<1>4. CASE Answer \/ Entering
  <2>1. clicks' = clicks + 1
    BY <1>4 DEF Finish!TypeRank, Finish!TypeBib, Finish!ClearAll, Finish!EditTime, Finish!CreateStarter,
       Finish!CancelStarter, Finish!Reopen, Finish!TakeOff, Finish!FillFromLive, Finish!DragStart, Finish!Drop,
       Finish!Add, Finish!EnterUnpicked, Finish!ClickStarter, Finish!Input, Finish!Click
  <2>2. EntrySound(entry')
    BY <1>1, <1>4, PanelAnswers, RiderAdded
  <2> HIDE DEF Answer, Entering
  <2>3. clicks' \in Nat /\ clicks' # clicks
    BY <1>1, <2>1
  <2> QED
    BY <2>2, <2>3 DEF FinishInv, Finish!EntriesStay
<1> QED
  BY <1>2, <1>3, <1>4 DEF Finish!Next

LEMMA FinishInitially ==
  ASSUME Finish!Init
  PROVE  FinishInv
BY FirstEntry DEF Finish!Init, FinishInv

-----------------------------------------------------------------------------
(* The ranks of the finish line: what has been typed and written are ranks of riders, and the rank
   proposed is the one the order of arrival calls for. *)
RankType == [Bibs -> Nat]
ArrivalsType == [starters : SUBSET Bibs, out : SUBSET Bibs, rank : RankType]
ClickType == [rank : Nat, ranks : RankType]
AddType == [bib : Bibs \cup {0}, rank : Nat]
EntryType ==
  [rank : Nat, click : ClickType, own : BOOLEAN, bib : Bibs \cup {0}, asked : Bibs \cup {0}, add : AddType,
   drag : 0 .. Finish!Cardinality(Bibs)]
SentType == {Finish!Nothing} \cup [starters : SUBSET Bibs, rank : RankType]

Calm(e, s) == e.bib = 0 /\ e.asked = 0 /\ e.add = Finish!NoAdd /\ ~e.own /\ s = Finish!Nothing

RankProposed(e, s, rank) == Calm(e, s) => e.rank = Finish!SuggestedRank(rank)

PanelRight(a, e, s) == a \in ArrivalsType /\ e \in EntryType /\ s \in SentType /\ RankProposed(e, s, a.rank)

RanksInv == PanelRight(arrivals, entry, sent) /\ clicks \in 0 .. MaxInputs /\ others \in 0 .. MaxOthers

LEMMA FinishConstants ==
  /\ 0 \notin Bibs /\ IsFiniteSet(Bibs) /\ Bibs # {} /\ Entered \subseteq Bibs
  /\ MaxInputs \in Nat /\ MaxRank \in Nat /\ MaxOthers \in Nat
  /\ \A f \in Feeds : f.order \in Seq(Bibs)
BY RecordsAssumption

LEMMA FinishCardinality ==
  ASSUME NEW some
  PROVE  Finish!Cardinality(some) = Cardinality(some)
BY DEF Cardinality, Finish!Cardinality

LEMMA SomeRiders ==
  ASSUME NEW some \in SUBSET Bibs
  PROVE  IsFiniteSet(some) /\ Finish!Cardinality(some) = Cardinality(some) /\ Cardinality(some) \in Nat
BY FinishConstants, FinishCardinality, FS_Subset, FS_CardinalityType

(* Of finitely many riders one has the greatest rank: the fewest who had none would be one too many. *)
LEMMA SomebodyLast ==
  ASSUME NEW rank \in RankType, NEW some \in SUBSET Bibs, some # {}
  PROVE  \E m \in some : \A b \in some : rank[b] <= rank[m]
<1> DEFINE HasLast(S) == \E m \in S : \A b \in S : rank[b] <= rank[m]
           without == {n \in Nat : \E S \in SUBSET Bibs : S # {} /\ Cardinality(S) = n /\ ~HasLast(S)}
<1>1. SUFFICES ASSUME ~HasLast(some)
               PROVE  FALSE
  OBVIOUS
<1>2. Cardinality(some) \in without
  BY <1>1, SomeRiders
<1>3. PICK n \in without : \A k \in without : n <= k
  <2> without \in SUBSET Nat /\ without # {}
    BY <1>2
  <2> HIDE DEF without
  <2> QED
    BY LeastNatural
<1>4. PICK S \in SUBSET Bibs : S # {} /\ Cardinality(S) = n /\ ~HasLast(S)
  BY <1>3
<1>5. PICK x \in S : TRUE
  BY <1>4
<1>6. IsFiniteSet(S) /\ S \ {x} \in SUBSET Bibs /\ Cardinality(S \ {x}) = n - 1 /\ n \in Nat /\ Cardinality(S \ {x}) \in Nat
  BY <1>3, <1>4, <1>5, SomeRiders, FS_RemoveElement
<1>7. \A b \in S : rank[b] \in Nat
  BY DEF RankType
<1>8. CASE S \ {x} = {}
  BY <1>4, <1>5, <1>7, <1>8
<1>9. CASE S \ {x} # {}
  <2>1. n - 1 \notin without
    BY <1>3, <1>6
  <2>2. HasLast(S \ {x})
    BY <1>6, <1>9, <2>1
  <2>3. PICK m \in S \ {x} : \A b \in S \ {x} : rank[b] <= rank[m]
    BY <2>2
  <2>4. rank[m] \in Nat /\ rank[x] \in Nat
    BY <1>5, <1>7
  <2>5. CASE rank[x] <= rank[m]
    BY <1>4, <2>3, <2>5
  <2>6. CASE ~(rank[x] <= rank[m])
    <3>1. \A b \in S : rank[b] <= rank[x]
      BY <1>7, <2>3, <2>4, <2>6
    <3> QED
      BY <1>4, <1>5, <3>1
  <2> QED
    BY <2>5, <2>6
<1> QED
  BY <1>8, <1>9

LEMMA MaxFound ==
  ASSUME NEW some \in SUBSET Nat, NEW m \in some, \A y \in some : m >= y
  PROVE  Finish!Max(some) = m
<1>1. \A x \in some : (\A y \in some : x >= y) => x = m
  OBVIOUS
<1> QED
  BY <1>1 DEF Finish!Max

(* The rank proposed: behind everybody, and as many places behind the last ones as there are of them. *)
LEMMA NextRank ==
  ASSUME NEW rank \in RankType
  PROVE  /\ Finish!SuggestedRank(rank) \in Nat
         /\ \A b \in Bibs : rank[b] < Finish!SuggestedRank(rank)
         /\ Finish!IsRanking(rank) => Finish!SuggestedRank(rank) = 1 + Finish!Cardinality(Finish!Finishers(rank))
<1> DEFINE ranks == {rank[b] : b \in Bibs}
<1>1. PICK m \in Bibs : \A b \in Bibs : rank[b] <= rank[m]
  BY SomebodyLast, FinishConstants
<1>2. \A b \in Bibs : rank[b] \in Nat
  BY DEF RankType
<1> DEFINE last == rank[m]
           lasts == {b \in Bibs : rank[b] = last}
           ahead == {c \in Finish!Finishers(rank) : rank[c] < last}
           finishers == Finish!Finishers(rank)
<1>3. Finish!Max(ranks) = last
  <2>1. last \in ranks /\ (\A y \in ranks : last >= y) /\ ranks \in SUBSET Nat
    BY <1>1, <1>2
  <2> HIDE DEF ranks, last
  <2> QED
    BY <2>1, MaxFound
<1>4. Finish!SuggestedRank(rank) = IF last = 0 THEN 1 ELSE last + Finish!Cardinality(lasts)
  BY <1>3 DEF Finish!SuggestedRank
<1>5. Finish!Cardinality(lasts) = Cardinality(lasts) /\ Cardinality(lasts) \in Nat /\ Cardinality(lasts) # 0 /\ IsFiniteSet(lasts)
  <2>1. lasts \in SUBSET Bibs /\ m \in lasts
    OBVIOUS
  <2>2. IsFiniteSet(lasts) /\ Finish!Cardinality(lasts) = Cardinality(lasts) /\ Cardinality(lasts) \in Nat
    BY <2>1, SomeRiders
  <2> HIDE DEF lasts
  <2> QED
    BY <2>1, <2>2, FS_EmptySet
<1>6. Finish!SuggestedRank(rank) \in Nat /\ \A b \in Bibs : rank[b] < Finish!SuggestedRank(rank)
  BY <1>1, <1>2, <1>4, <1>5
<1>7. ASSUME Finish!IsRanking(rank)
      PROVE  Finish!SuggestedRank(rank) = 1 + Finish!Cardinality(finishers)
  <2>1. finishers \in SUBSET Bibs /\ ahead \in SUBSET Bibs
    BY DEF Finish!Finishers
  <2>2. CASE last = 0
    <3>1. finishers = {}
      BY <1>1, <1>2, <2>2 DEF Finish!Finishers
    <3> QED
      BY <1>4, <2>2, <3>1, FinishCardinality, FS_EmptySet
  <2>3. CASE last # 0
    <3>1. m \in finishers
      BY <2>3 DEF Finish!Finishers
    <3>2. last = 1 + Finish!Cardinality(ahead)
      BY <1>7, <3>1 DEF Finish!IsRanking
    <3>3. finishers = ahead \cup lasts /\ ahead \cap lasts = {}
      BY <1>1, <1>2, <2>3 DEF Finish!Finishers
    <3>4. /\ IsFiniteSet(ahead) /\ Finish!Cardinality(ahead) = Cardinality(ahead) /\ Cardinality(ahead) \in Nat
          /\ Finish!Cardinality(finishers) = Cardinality(finishers)
      BY <2>1, SomeRiders
    <3>5. Cardinality(ahead \cup lasts) = Cardinality(ahead) + Cardinality(lasts)
      <4> HIDE DEF ahead, lasts
      <4>1. Cardinality(ahead \cap lasts) = 0
        BY <3>3, FS_EmptySet
      <4> QED
        BY <1>5, <3>4, <4>1, FS_Union
    <3>6. Cardinality(finishers) = Cardinality(ahead) + Cardinality(lasts)
      BY <3>3, <3>5
    <3> HIDE DEF last, lasts, ahead, finishers
    <3> QED
      BY <1>4, <1>5, <2>3, <3>2, <3>4, <3>6
  <2> QED
    BY <2>2, <2>3
<1> QED
  BY <1>6, <1>7

LEMMA RanksTyped ==
  /\ \A groups : Finish!CompetitionRanks(groups) \in RankType
  /\ \A rank, dragged, target, tie : Finish!Dropped(rank, dragged, target, tie) \in RankType
  /\ \A f \in Feeds : Finish!LiveRanks(f) \in RankType
<1>1. ASSUME NEW groups
      PROVE  Finish!CompetitionRanks(groups) \in RankType
  <2> DEFINE ahead(b) == {c \in Bibs : groups[c] # 0 /\ groups[c] < groups[b]}
             rank(b) == IF groups[b] = 0 THEN 0 ELSE 1 + Finish!Cardinality(ahead(b))
  <2>1. \A b : Finish!Cardinality(ahead(b)) \in Nat
    <3>1. ASSUME NEW b
          PROVE  Finish!Cardinality(ahead(b)) \in Nat
      <4>1. ahead(b) \in SUBSET Bibs
        OBVIOUS
      <4> HIDE DEF ahead
      <4> QED
        BY <4>1, SomeRiders
    <3> QED
      BY <3>1
  <2>2. Finish!CompetitionRanks(groups) = [b \in Bibs |-> rank(b)]
    BY DEF Finish!CompetitionRanks
  <2> HIDE DEF ahead
  <2>3. \A b \in Bibs : rank(b) \in Nat
    BY <2>1
  <2> HIDE DEF rank
  <2> QED
    BY <2>2, <2>3 DEF RankType
<1>2. \A rank, dragged, target, tie : Finish!Dropped(rank, dragged, target, tie) \in RankType
  BY <1>1 DEF Finish!Dropped
<1>3. ASSUME NEW f \in Feeds
      PROVE  Finish!LiveRanks(f) \in RankType
  <2> DEFINE place(b) == CHOOSE i \in DOMAIN f.order : f.order[i] = b
  <2>1. f.order \in Seq(Bibs)
    BY FinishConstants
  <2>2. DOMAIN f.order \in SUBSET Nat
    BY <2>1
  <2>3. ASSUME NEW b \in Finish!ToSet(f.order)
        PROVE  place(b) \in Nat
    <3>1. \E i \in DOMAIN f.order : f.order[i] = b
      BY DEF Finish!ToSet
    <3>2. place(b) \in DOMAIN f.order
      BY <3>1
    <3> QED
      BY <2>2, <3>2
  <2> HIDE DEF place
  <2>4. Finish!LiveRanks(f) = [b \in Bibs |-> IF b \in Finish!ToSet(f.order) /\ f.done[b] > 0 THEN place(b) ELSE 0]
    BY DEF Finish!LiveRanks, place
  <2> QED
    BY <2>3, <2>4 DEF RankType
<1> QED
  BY <1>1, <1>2, <1>3

LEMMA Counted == Finish!Cardinality(Bibs) \in Nat
BY SomeRiders

(* What the panel makes of an entry fits the order of arrival, once it is told. *)
LEMMA EntryFits ==
  ASSUME NEW rank \in RankType
  PROVE  /\ Finish!InitialEntry(rank) \in EntryType
         /\ \A s : RankProposed(Finish!InitialEntry(rank), s, rank)
         /\ \A e \in EntryType :
              /\ Finish!Realigned(e, rank) \in EntryType /\ \A s : RankProposed(Finish!Realigned(e, rank), s, rank)
              /\ Finish!ListShows(e, rank) \in EntryType
              /\ Finish!Onward(e, rank) \in EntryType
<1>1. Finish!SuggestedRank(rank) \in Nat
  BY NextRank
<1>2. Finish!InitialEntry(rank) \in EntryType
  <2>1. [rank |-> 0, ranks |-> rank] \in ClickType
    BY DEF ClickType
  <2>2. Finish!NoAdd \in AddType
    BY DEF AddType, Finish!NoAdd
  <2> QED
    BY <1>1, <2>1, <2>2, Counted DEF EntryType, Finish!InitialEntry
<1>3. \A s : RankProposed(Finish!InitialEntry(rank), s, rank)
  BY DEF RankProposed, Finish!InitialEntry
<1>4. ASSUME NEW e \in EntryType
      PROVE  /\ Finish!Realigned(e, rank) \in EntryType /\ \A s : RankProposed(Finish!Realigned(e, rank), s, rank)
             /\ Finish!ListShows(e, rank) \in EntryType
             /\ Finish!Onward(e, rank) \in EntryType
  <2>1. Finish!Realigned(e, rank) \in EntryType
    BY <1>1 DEF EntryType, Finish!Realigned
  <2>2. \A s : RankProposed(Finish!Realigned(e, rank), s, rank)
    BY DEF RankProposed, Calm, Finish!Realigned, EntryType
  <2>3. Finish!ListShows(e, rank) \in EntryType
    <3>1. [rank |-> e.rank, ranks |-> rank] \in ClickType
      BY DEF ClickType, EntryType
    <3> QED
      BY <3>1 DEF EntryType, Finish!ListShows
  <2>4. Finish!Onward(e, rank) \in EntryType
    BY <1>1 DEF EntryType, Finish!Onward
  <2> QED
    BY <2>1, <2>2, <2>3, <2>4
<1> QED
  BY <1>2, <1>3, <1>4

LEMMA EmptiedFits ==
  ASSUME PanelRight(arrivals, entry, sent), NEW next \in RankType
  PROVE  Finish!Emptied(next) \in EntryType
<1>1. arrivals.rank \in RankType /\ entry \in EntryType
  BY DEF PanelRight, ArrivalsType
<1> QED
  BY <1>1, EntryFits DEF Finish!Emptied

(* A write is on its way, so that nothing is proposed for certain. *)
LEMMA SentFits ==
  ASSUME sent \in SentType, NEW starters \in SUBSET Bibs, NEW rank \in RankType, Finish!Send(starters, rank)
  PROVE  sent' \in SentType /\ sent' # Finish!Nothing
<1>1. [starters |-> starters, rank |-> rank] \in [starters : SUBSET Bibs, rank : RankType]
  OBVIOUS
<1>2. [starters |-> starters, rank |-> rank] # Finish!Nothing
  <2>1. "rank" \in DOMAIN [starters |-> starters, rank |-> rank]
    OBVIOUS
  <2>2. DOMAIN Finish!Nothing = 1 .. 0
    BY DEF Finish!Nothing
  <2>3. 1 .. 0 = {}
    OBVIOUS
  <2> QED
    BY <2>1, <2>2, <2>3
<1> QED
  BY <1>1, <1>2 DEF Finish!Send, SentType

(* The competition ranks of groups have the groups' order, none for who is in none. *)
LEMMA RanksOrdered ==
  ASSUME NEW groups \in [Bibs -> Nat]
  PROVE  LET after == Finish!CompetitionRanks(groups)
         IN /\ \A b \in Bibs : after[b] = 0 <=> groups[b] = 0
            /\ \A b \in Finish!Finishers(after), c \in Finish!Finishers(after) : after[c] < after[b] <=> groups[c] < groups[b]
            /\ Finish!IsRanking(after)
<1> DEFINE after == Finish!CompetitionRanks(groups)
           ahead(b) == {c \in Bibs : groups[c] # 0 /\ groups[c] < groups[b]}
           finishers == Finish!Finishers(after)
<1>1. \A b : IsFiniteSet(ahead(b)) /\ Finish!Cardinality(ahead(b)) = Cardinality(ahead(b)) /\ Cardinality(ahead(b)) \in Nat
  <2> TAKE b
  <2>1. ahead(b) \in SUBSET Bibs
    OBVIOUS
  <2> HIDE DEF ahead
  <2> QED
    BY <2>1, SomeRiders
<1>2. \A b \in Bibs : after[b] = IF groups[b] = 0 THEN 0 ELSE 1 + Cardinality(ahead(b))
  <2>1. \A b \in Bibs : after[b] = IF groups[b] = 0 THEN 0 ELSE 1 + Finish!Cardinality(ahead(b))
    BY DEF Finish!CompetitionRanks
  <2> HIDE DEF after, ahead
  <2> QED
    BY <1>1, <2>1
<1>3. \A b \in Bibs : after[b] = 0 <=> groups[b] = 0
  <2> HIDE DEF after, ahead
  <2> QED
    BY <1>1, <1>2
<1>4. finishers = {b \in Bibs : groups[b] # 0}
  <2> HIDE DEF after
  <2> QED
    BY <1>3 DEF Finish!Finishers
<1>5. ASSUME NEW b \in finishers, NEW c \in finishers
      PROVE  after[c] < after[b] <=> groups[c] < groups[b]
  <2>1. /\ b \in Bibs /\ c \in Bibs /\ groups[b] \in Nat \ {0} /\ groups[c] \in Nat \ {0}
    BY <1>4
  <2>2. after[b] = 1 + Cardinality(ahead(b)) /\ after[c] = 1 + Cardinality(ahead(c))
    <3> HIDE DEF after, ahead
    <3> QED
      BY <1>2, <2>1
  <2>3. CASE groups[c] < groups[b]
    <3>1. ahead(c) \subseteq ahead(b) /\ c \in ahead(b) /\ c \notin ahead(c)
      BY <2>1, <2>3
    <3>2. ahead(c) # ahead(b)
      BY <3>1
    <3> HIDE DEF after, ahead
    <3>3. Cardinality(ahead(c)) < Cardinality(ahead(b))
      BY <1>1, <3>1, <3>2, FS_Subset
    <3> QED
      BY <1>1, <2>2, <2>3, <3>3
  <2>4. CASE ~(groups[c] < groups[b])
    <3>1. ahead(b) \subseteq ahead(c)
      BY <2>1, <2>4
    <3> HIDE DEF after, ahead
    <3>2. Cardinality(ahead(b)) <= Cardinality(ahead(c))
      BY <1>1, <3>1, FS_Subset
    <3> QED
      BY <1>1, <2>2, <2>4, <3>2
  <2> QED
    BY <2>3, <2>4
<1>6. ASSUME NEW b \in finishers
      PROVE  after[b] = 1 + Finish!Cardinality({c \in finishers : after[c] < after[b]})
  <2>1. {c \in finishers : after[c] < after[b]} = ahead(b)
    <3>1. \A c \in finishers : after[c] < after[b] <=> groups[c] < groups[b]
      BY <1>5, <1>6
    <3> HIDE DEF after, finishers
    <3> QED
      BY <1>4, <3>1
  <2>2. after[b] = 1 + Cardinality(ahead(b))
    <3> HIDE DEF after, ahead, finishers
    <3> QED
      BY <1>2, <1>4, <1>6
  <2> HIDE DEF after, ahead, finishers
  <2> QED
    BY <1>1, <2>1, <2>2
<1>7. Finish!IsRanking(after)
  <2> HIDE DEF after
  <2> QED
    BY <1>6 DEF Finish!IsRanking
<1> HIDE DEF after, finishers
<1> QED
  BY <1>3, <1>5, <1>7 DEF after, finishers

(* A row dropped on another one, or before it, gives the ranks both are to have. *)
LEMMA DropFits ==
  ASSUME NEW before \in RankType, NEW d \in Finish!Finishers(before), NEW t \in Finish!Finishers(before),
         NEW tie \in BOOLEAN, d # t
  PROVE  LET after == Finish!Dropped(before, d, t, tie)
             rest == Finish!Finishers(before) \ {d}
         IN /\ Finish!Finishers(after) = Finish!Finishers(before) /\ Finish!IsRanking(after)
            /\ \A b, c \in rest : after[b] < after[c] <=> before[b] < before[c]
            /\ IF tie THEN after[d] = after[t]
               ELSE after[d] < after[t] /\ \A b \in rest : after[b] < after[d] \/ after[b] >= after[t]
<1> DEFINE after == Finish!Dropped(before, d, t, tie)
           place == IF tie THEN 2 * before[t] ELSE 2 * before[t] - 1
           groups == [b \in Bibs |-> IF b = d THEN place ELSE 2 * before[b]]
           finishers == Finish!Finishers(before)
<1>1. before \in [Bibs -> Nat] /\ finishers = {b \in Bibs : before[b] # 0}
  BY DEF RankType, Finish!Finishers
<1>2. d \in Bibs /\ t \in Bibs /\ before[d] \in Nat \ {0} /\ before[t] \in Nat \ {0}
  BY <1>1
<1>3. place \in Nat \ {0}
  BY <1>2
<1>4. groups \in [Bibs -> Nat]
  <2> HIDE DEF place
  <2> QED
    BY <1>1, <1>3
<1>5. after = Finish!CompetitionRanks(groups)
  <2>1. [Finish!Groups(before) EXCEPT ![d] = IF tie THEN Finish!Groups(before)[t] ELSE Finish!Groups(before)[t] - 1] = groups
    BY <1>1, <1>2 DEF Finish!Groups
  <2> HIDE DEF groups
  <2> QED
    BY <2>1 DEF Finish!Dropped
<1>6. \A b \in Bibs : groups[b] # 0 <=> before[b] # 0
  <2> HIDE DEF place
  <2> QED
    BY <1>1, <1>2, <1>3
<1>7. groups[d] = place /\ groups[t] = 2 * before[t] /\ \A b \in finishers \ {d} : groups[b] = 2 * before[b] /\ before[b] \in Nat
  BY <1>1, <1>2
<1> HIDE DEF after, groups
<1>8. after \in RankType
  BY RanksTyped DEF after
<1>9. /\ \A b \in Bibs : after[b] = 0 <=> groups[b] = 0
      /\ \A b, c \in Finish!Finishers(after) : after[c] < after[b] <=> groups[c] < groups[b]
      /\ Finish!IsRanking(after)
  BY <1>4, <1>5, RanksOrdered
<1>10. Finish!Finishers(after) = finishers
  BY <1>1, <1>6, <1>9 DEF Finish!Finishers
<1> HIDE DEF finishers
<1>11. \A b \in finishers : after[b] \in Nat
  BY <1>1, <1>8 DEF RankType
<1>12. \A b, c \in finishers \ {d} : after[b] < after[c] <=> before[b] < before[c]
  BY <1>7, <1>9, <1>10
<1>13. d \in finishers /\ t \in finishers
  BY DEF finishers
<1>14. CASE tie
  <2>1. ~(after[d] < after[t]) /\ ~(after[t] < after[d])
    BY <1>2, <1>7, <1>9, <1>10, <1>13, <1>14
  <2>2. after[d] = after[t]
    BY <1>11, <1>13, <2>1
  <2> QED
    BY <1>9, <1>10, <1>12, <1>14, <2>2 DEF after, finishers
<1>15. CASE ~tie
  <2>1. after[d] < after[t]
    BY <1>2, <1>7, <1>9, <1>10, <1>13, <1>15
  <2>2. \A b \in finishers \ {d} : after[b] < after[d] \/ after[b] >= after[t]
    <3> TAKE b \in finishers \ {d}
    <3>1. before[b] \in Nat /\ groups[b] = 2 * before[b] /\ b \in finishers
      BY <1>7
    <3>2. CASE before[b] < before[t]
      <4>1. groups[b] < groups[d]
        BY <1>2, <1>7, <1>15, <3>1, <3>2
      <4> QED
        BY <1>9, <1>10, <1>13, <3>1, <4>1
    <3>3. CASE ~(before[b] < before[t])
      <4>1. ~(groups[b] < groups[t])
        BY <1>2, <1>7, <3>1, <3>3
      <4>2. ~(after[b] < after[t])
        BY <1>9, <1>10, <1>13, <3>1, <4>1
      <4> QED
        BY <1>11, <1>13, <3>1, <4>2
    <3> QED
      BY <3>2, <3>3
  <2> QED
    BY <1>9, <1>10, <1>12, <1>15, <2>1, <2>2 DEF after, finishers
<1> QED
  BY <1>14, <1>15

LEMMA WithRank ==
  ASSUME NEW rank \in RankType, NEW bib, NEW r \in Nat
  PROVE  [rank EXCEPT ![bib] = r] \in RankType
BY DEF RankType

(* The race of the page changes. *)
LEMMA RaceFits ==
  ASSUME PanelRight(arrivals, entry, sent), NEW a \in ArrivalsType, Finish!RaceChanges(a)
  PROVE  PanelRight(arrivals', entry', sent')
<1> DEFINE bib == entry.add.bib
           added == [a.rank EXCEPT ![bib] = entry.add.rank]
           listed == IF Finish!RaceRenewsList(a) THEN Finish!ListShows(entry, a.rank) ELSE entry
           done == [listed EXCEPT !.add = Finish!NoAdd]
           next == Finish!Onward(done, added)
<1>1. entry \in EntryType /\ entry.add.rank \in Nat /\ entry.add \in AddType /\ a.rank \in RankType /\ a.starters \in SUBSET Bibs
      /\ sent \in SentType
  BY DEF PanelRight, EntryType, AddType, ArrivalsType
<1>2. added \in RankType
  BY <1>1, WithRank
<1>3. listed \in EntryType /\ listed.add = entry.add
  <2>1. Finish!ListShows(entry, a.rank) \in EntryType
    BY <1>1, EntryFits
  <2>2. Finish!ListShows(entry, a.rank).add = entry.add
    BY <1>1 DEF EntryType, Finish!ListShows
  <2> QED
    BY <1>1, <2>1, <2>2
<1>4. arrivals' = a
  BY DEF Finish!RaceChanges
<1>5. \/ bib = 0 \/ a.rank[bib] # 0
      \/ bib # 0 /\ bib \notin a.starters
      \/ bib # 0 /\ a.rank[bib] = 0 /\ bib \in a.starters
  OBVIOUS
<1>6. /\ bib = 0 \/ a.rank[bib] # 0 => sent' = Finish!Nothing /\ entry' = Finish!Realigned(done, a.rank)
      /\ ~(bib = 0 \/ a.rank[bib] # 0) /\ bib \notin a.starters => sent' = Finish!Nothing /\ entry' = listed
      /\ ~(bib = 0 \/ a.rank[bib] # 0) /\ bib \in a.starters
           => sent' = [starters |-> a.starters, rank |-> added] /\ entry' = Finish!Realigned(next, a.rank)
  BY DEF Finish!RaceChanges
<1> HIDE DEF added, listed
<1>7. done \in EntryType
  <2>1. Finish!NoAdd \in AddType
    BY DEF AddType, Finish!NoAdd
  <2> QED
    BY <1>3, <2>1 DEF EntryType
<1> HIDE DEF done
<1>8. next \in EntryType
  BY <1>2, <1>7, EntryFits
<1> HIDE DEF next
<1>9. Finish!Nothing \in SentType /\ [starters |-> a.starters, rank |-> added] \in SentType
  BY <1>1, <1>2 DEF SentType
<1>10. CASE bib = 0 \/ a.rank[bib] # 0
  BY <1>1, <1>4, <1>6, <1>7, <1>9, <1>10, EntryFits DEF PanelRight
<1>11. CASE ~(bib = 0 \/ a.rank[bib] # 0) /\ bib \notin a.starters
  <2>1. entry'.add # Finish!NoAdd
    BY <1>3, <1>6, <1>11 DEF Finish!NoAdd
  <2>2. RankProposed(entry', sent', a.rank)
    BY <2>1 DEF RankProposed, Calm
  <2> QED
    BY <1>3, <1>4, <1>6, <1>9, <1>11, <2>2 DEF PanelRight
<1>12. CASE ~(bib = 0 \/ a.rank[bib] # 0) /\ bib \in a.starters
  BY <1>1, <1>4, <1>6, <1>8, <1>9, <1>12, EntryFits DEF PanelRight
<1> QED
  BY <1>10, <1>11, <1>12

LEMMA OthersFit ==
  ASSUME PanelRight(arrivals, entry, sent), Finish!OwnWrite \/ \E bib \in Bibs : Finish!OtherOperator(bib)
  PROVE  PanelRight(arrivals', entry', sent')
<1>1. arrivals \in ArrivalsType /\ sent \in SentType
  BY DEF PanelRight
<1>2. CASE Finish!OwnWrite
  <2> DEFINE a == [arrivals EXCEPT !.starters = sent.starters, !.rank = sent.rank]
  <2>1. sent \in [starters : SUBSET Bibs, rank : RankType]
    BY <1>1, <1>2 DEF SentType, Finish!OwnWrite
  <2>2. a \in ArrivalsType
    BY <1>1, <2>1 DEF ArrivalsType
  <2>3. Finish!RaceChanges(a)
    BY <1>2 DEF Finish!OwnWrite
  <2> HIDE DEF a
  <2> QED
    BY <2>2, <2>3, RaceFits
<1>3. ASSUME NEW bib \in Bibs, Finish!OtherOperator(bib)
      PROVE  PanelRight(arrivals', entry', sent')
  <2>1. \/ Finish!RaceChanges([arrivals EXCEPT !.starters = @ \cup {bib}])
        \/ Finish!RaceChanges([arrivals EXCEPT !.starters = @ \ {bib}, !.rank[bib] = 0])
        \/ Finish!RaceChanges([arrivals EXCEPT !.out = @ \cup {bib}])
        \/ \E r \in 0 .. MaxRank : Finish!RaceChanges([arrivals EXCEPT !.rank[bib] = r])
    BY <1>3 DEF Finish!OtherOperator
  <2>2. [arrivals EXCEPT !.starters = @ \cup {bib}] \in ArrivalsType
    BY <1>1 DEF ArrivalsType
  <2>3. [arrivals EXCEPT !.starters = @ \ {bib}, !.rank[bib] = 0] \in ArrivalsType
    BY <1>1 DEF ArrivalsType, RankType
  <2>4. [arrivals EXCEPT !.out = @ \cup {bib}] \in ArrivalsType
    BY <1>1 DEF ArrivalsType
  <2>5. \A r \in 0 .. MaxRank : [arrivals EXCEPT !.rank[bib] = r] \in ArrivalsType
    BY <1>1, FinishConstants DEF ArrivalsType, RankType
  <2> QED
    BY <2>1, <2>2, <2>3, <2>4, <2>5, RaceFits
<1> QED
  BY <1>2, <1>3

(* A rider is added, asked about or not taken. *)
LEMMA RequestFits ==
  ASSUME arrivals \in ArrivalsType, sent \in SentType, arrivals' = arrivals,
         NEW bib \in Bibs, NEW rank \in Nat, NEW ranks \in RankType, NEW view \in EntryType, NEW after \in EntryType,
         view.bib # 0, Finish!RequestAdd(bib, rank, ranks, view, after)
  PROVE  PanelRight(arrivals', entry', sent')
<1>1. bib # 0
  BY FinishConstants
<1>2. \/ sent' = sent /\ entry' = view
      \/ sent' = sent /\ entry' = [view EXCEPT !.asked = bib, !.add = [bib |-> bib, rank |-> rank]]
      \/ Finish!Send(arrivals.starters, [ranks EXCEPT ![bib] = rank]) /\ entry' = after
  BY DEF Finish!RequestAdd, Finish!Write
<1>3. CASE sent' = sent /\ entry' = view
  BY <1>3 DEF PanelRight, RankProposed, Calm
<1>4. CASE sent' = sent /\ entry' = [view EXCEPT !.asked = bib, !.add = [bib |-> bib, rank |-> rank]]
  <2>1. [bib |-> bib, rank |-> rank] \in AddType
    BY DEF AddType
  <2>2. entry' \in EntryType /\ entry'.asked = bib
    BY <1>4, <2>1 DEF EntryType
  <2> QED
    BY <1>1, <1>4, <2>2 DEF PanelRight, RankProposed, Calm
<1>5. CASE Finish!Send(arrivals.starters, [ranks EXCEPT ![bib] = rank]) /\ entry' = after
  <2>1. [ranks EXCEPT ![bib] = rank] \in RankType /\ arrivals.starters \in SUBSET Bibs
    BY WithRank DEF ArrivalsType
  <2>2. sent' \in SentType /\ sent' # Finish!Nothing
    BY <1>5, <2>1, SentFits
  <2> QED
    BY <1>5, <2>2 DEF PanelRight, RankProposed, Calm
<1> QED
  BY <1>2, <1>3, <1>4, <1>5

LEMMA AddingFits ==
  ASSUME PanelRight(arrivals, entry, sent),
         Finish!Add \/ Finish!EnterUnpicked \/ \E bib \in Bibs : Finish!ClickStarter(bib)
  PROVE  PanelRight(arrivals', entry', sent')
<1>1. arrivals \in ArrivalsType /\ entry \in EntryType /\ sent \in SentType /\ arrivals' = arrivals
  BY DEF PanelRight, Finish!Add, Finish!EnterUnpicked, Finish!ClickStarter, Finish!Input, Finish!Click
<1>2. arrivals.rank \in RankType /\ entry.rank \in Nat /\ entry.click.rank \in Nat /\ entry.click.ranks \in RankType
      /\ entry.bib \in Bibs \cup {0}
  BY <1>1 DEF ArrivalsType, EntryType, ClickType
<1>3. Finish!WithNext(entry.bib) \in RankType
  BY <1>2, WithRank DEF Finish!WithNext
<1>4. CASE Finish!Add
  <2>1. /\ entry.bib # 0
        /\ Finish!RequestAdd(entry.bib, entry.rank, arrivals.rank, entry, Finish!Emptied(Finish!WithNext(entry.bib)))
    BY <1>4 DEF Finish!Add
  <2>2. Finish!Emptied(Finish!WithNext(entry.bib)) \in EntryType
    BY <1>3, EmptiedFits
  <2> QED
    BY <1>1, <1>2, <2>1, <2>2, RequestFits
<1>5. CASE Finish!EnterUnpicked
  <2> DEFINE next == Finish!Onward(entry, Finish!WithNext(entry.bib))
             back == [next EXCEPT !.bib = entry.bib]
  <2>1. entry.bib # 0 /\ Finish!RequestAdd(entry.bib, entry.rank, arrivals.rank, entry, back)
    BY <1>5 DEF Finish!EnterUnpicked
  <2>2. next \in EntryType
    BY <1>1, <1>3, EntryFits
  <2> HIDE DEF next
  <2>3. back \in EntryType
    BY <1>2, <2>2 DEF EntryType
  <2> HIDE DEF back
  <2> QED
    BY <1>1, <1>2, <2>1, <2>3, RequestFits
<1>6. ASSUME NEW bib \in Bibs, Finish!ClickStarter(bib)
      PROVE  PanelRight(arrivals', entry', sent')
  <2> DEFINE picked == [entry EXCEPT !.bib = bib]
             after == Finish!Emptied(Finish!Clicked(bib))
  <2>1. Finish!RequestAdd(bib, entry.click.rank, entry.click.ranks, picked, after)
    BY <1>6 DEF Finish!ClickStarter
  <2>2. Finish!Clicked(bib) \in RankType
    BY <1>2, WithRank DEF Finish!Clicked
  <2>3. after \in EntryType
    BY <2>2, EmptiedFits
  <2>4. picked \in EntryType /\ picked.bib # 0
    BY <1>1, FinishConstants DEF EntryType
  <2> HIDE DEF picked, after
  <2> QED
    BY <1>1, <1>2, <2>1, <2>3, <2>4, RequestFits
<1> QED
  BY <1>4, <1>5, <1>6

(* The rows are written with other ranks. *)
LEMMA WritingFits ==
  ASSUME PanelRight(arrivals, entry, sent),
         \/ Finish!ClearAll \/ Finish!EditTime
         \/ \E bib \in Bibs : Finish!TakeOff(bib)
         \/ \E f \in Feeds : Finish!FillFromLive(f)
         \/ \E i, tie : Finish!Drop(i, tie)
  PROVE  PanelRight(arrivals', entry', sent')
<1>1. arrivals \in ArrivalsType /\ entry \in EntryType /\ sent \in SentType /\ arrivals' = arrivals
  BY DEF PanelRight, Finish!ClearAll, Finish!EditTime, Finish!TakeOff, Finish!FillFromLive, Finish!Drop, Finish!Input, Finish!Click
<1>2. arrivals.rank \in RankType /\ arrivals.starters \in SUBSET Bibs
  BY <1>1 DEF ArrivalsType
<1>3. ASSUME NEW rank \in RankType, Finish!Write(rank), entry' \in EntryType
      PROVE  PanelRight(arrivals', entry', sent')
  <2>1. sent' \in SentType /\ sent' # Finish!Nothing
    BY <1>1, <1>2, <1>3, SentFits DEF Finish!Write
  <2> QED
    BY <1>1, <1>3, <2>1 DEF PanelRight, RankProposed, Calm
<1>4. [b \in Bibs |-> 0] \in RankType
  BY DEF RankType
<1>5. CASE Finish!ClearAll
  <2>1. Finish!Write([b \in Bibs |-> 0]) /\ entry' = Finish!Emptied([b \in Bibs |-> 0])
    BY <1>5 DEF Finish!ClearAll
  <2>2. entry' \in EntryType
    BY <1>4, <2>1, EmptiedFits
  <2> QED
    BY <1>3, <1>4, <2>1, <2>2
<1>6. CASE Finish!EditTime
  BY <1>1, <1>2, <1>3, <1>6 DEF Finish!EditTime
<1>7. ASSUME NEW bib \in Bibs, Finish!TakeOff(bib)
      PROVE  PanelRight(arrivals', entry', sent')
  <2>1. [arrivals.rank EXCEPT ![bib] = 0] \in RankType
    BY <1>2, WithRank
  <2>2. Finish!Write([arrivals.rank EXCEPT ![bib] = 0]) /\ entry' = entry
    BY <1>7 DEF Finish!TakeOff
  <2> QED
    BY <1>1, <1>3, <2>1, <2>2
<1>8. ASSUME NEW f \in Feeds, Finish!FillFromLive(f)
      PROVE  PanelRight(arrivals', entry', sent')
  <2>1. Finish!LiveRanks(f) \in RankType
    BY RanksTyped
  <2>2. Finish!Write(Finish!LiveRanks(f)) /\ entry' = Finish!Emptied(Finish!LiveRanks(f))
    BY <1>8 DEF Finish!FillFromLive
  <2>3. entry' \in EntryType
    BY <2>1, <2>2, EmptiedFits
  <2> QED
    BY <1>3, <2>1, <2>2, <2>3
<1>9. ASSUME NEW i, NEW tie, Finish!Drop(i, tie)
      PROVE  PanelRight(arrivals', entry', sent')
  <2> DEFINE put == [entry EXCEPT !.drag = 0]
             rank == Finish!Dropped(arrivals.rank, Finish!Rows(arrivals.rank)[entry.drag], Finish!Rows(arrivals.rank)[i], tie)
  <2>1. entry' = put /\ (sent' = sent \/ Finish!Write(rank))
    BY <1>9 DEF Finish!Drop
  <2>2. put \in EntryType /\ (\A s : Calm(put, s) <=> Calm(entry, s)) /\ put.rank = entry.rank
    BY <1>1, Counted DEF EntryType, Calm
  <2>3. rank \in RankType
    BY RanksTyped
  <2> HIDE DEF put, rank
  <2>4. CASE sent' = sent
    BY <1>1, <2>1, <2>2, <2>4 DEF PanelRight, RankProposed
  <2>5. CASE Finish!Write(rank)
    BY <1>3, <2>1, <2>2, <2>3, <2>5
  <2> QED
    BY <2>1, <2>4, <2>5
<1> QED
  BY <1>5, <1>6, <1>7, <1>8, <1>9

(* The fields and the dialog. *)
LEMMA TypingFits ==
  ASSUME PanelRight(arrivals, entry, sent),
         \/ \E n \in 0 .. MaxRank : Finish!TypeRank(n)
         \/ \E bib \in Bibs \cup {0} : Finish!TypeBib(bib)
         \/ Finish!CreateStarter \/ Finish!CancelStarter \/ Finish!Reopen
         \/ \E i \in 1 .. Finish!Cardinality(Bibs) : Finish!DragStart(i)
  PROVE  PanelRight(arrivals', entry', sent')
<1>1. /\ arrivals \in ArrivalsType /\ entry \in EntryType /\ sent \in SentType /\ arrivals' = arrivals
      /\ RankProposed(entry, sent, arrivals.rank)
  BY DEF PanelRight, Finish!TypeRank, Finish!TypeBib, Finish!CreateStarter, Finish!CancelStarter, Finish!Reopen,
     Finish!DragStart, Finish!Input, Finish!Click
<1>2. arrivals.rank \in RankType /\ arrivals.starters \in SUBSET Bibs /\ entry.asked \in Bibs \cup {0}
  BY <1>1 DEF ArrivalsType, EntryType
<1>3. ASSUME NEW n \in 0 .. MaxRank, Finish!TypeRank(n)
      PROVE  PanelRight(arrivals', entry', sent')
  <2>1. entry' = [entry EXCEPT !.rank = n, !.own = TRUE] /\ sent' = sent /\ n \in Nat
    <3>1. n \in Nat
      BY FinishConstants
    <3> QED
      BY <1>3, <3>1 DEF Finish!TypeRank
  <2>2. entry' \in EntryType /\ entry'.own = TRUE
    BY <1>1, <2>1 DEF EntryType
  <2> QED
    BY <1>1, <2>1, <2>2 DEF PanelRight, RankProposed, Calm
<1>4. ASSUME NEW bib \in Bibs \cup {0}, Finish!TypeBib(bib)
      PROVE  PanelRight(arrivals', entry', sent')
  <2>1. entry' = Finish!Realigned([entry EXCEPT !.bib = bib], arrivals.rank) /\ sent' = sent
    BY <1>4 DEF Finish!TypeBib
  <2>2. [entry EXCEPT !.bib = bib] \in EntryType
    BY <1>1 DEF EntryType
  <2> QED
    BY <1>1, <1>2, <2>1, <2>2, EntryFits DEF PanelRight
<1>5. CASE Finish!CreateStarter
  <2> DEFINE shut == [entry EXCEPT !.asked = 0]
  <2>1. shut \in EntryType
    BY <1>1 DEF EntryType
  <2>2. /\ entry' = Finish!Realigned(shut, arrivals.rank) /\ entry.asked # 0
        /\ sent' = sent \/ Finish!Send(arrivals.starters \cup {entry.asked}, arrivals.rank)
    BY <1>5 DEF Finish!CreateStarter
  <2> HIDE DEF shut
  <2>3. arrivals.starters \cup {entry.asked} \in SUBSET Bibs
    BY <1>2, <2>2
  <2>4. sent' \in SentType
    BY <1>1, <1>2, <2>2, <2>3, SentFits
  <2> QED
    BY <1>1, <1>2, <2>1, <2>2, <2>4, EntryFits DEF PanelRight
<1>6. CASE Finish!CancelStarter
  <2> DEFINE shut == [entry EXCEPT !.asked = 0, !.add = Finish!NoAdd]
  <2>1. shut \in EntryType
    <3>1. Finish!NoAdd \in AddType
      BY DEF AddType, Finish!NoAdd
    <3> QED
      BY <1>1, <3>1 DEF EntryType
  <2>2. entry' = Finish!Realigned(shut, arrivals.rank) /\ sent' = sent
    BY <1>6 DEF Finish!CancelStarter
  <2> HIDE DEF shut
  <2> QED
    BY <1>1, <1>2, <2>1, <2>2, EntryFits DEF PanelRight
<1>7. CASE Finish!Reopen
  BY <1>1, <1>2, <1>7, EntryFits DEF PanelRight, Finish!Reopen
<1>8. ASSUME NEW i \in 1 .. Finish!Cardinality(Bibs), Finish!DragStart(i)
      PROVE  PanelRight(arrivals', entry', sent')
  <2>1. entry' = [entry EXCEPT !.drag = i] /\ sent' = sent
    BY <1>8 DEF Finish!DragStart
  <2>2. entry' \in EntryType /\ (Calm(entry', sent') <=> Calm(entry, sent)) /\ entry'.rank = entry.rank
    BY <1>1, <2>1, Counted DEF EntryType, Calm
  <2> QED
    BY <1>1, <2>1, <2>2 DEF PanelRight, RankProposed
<1> QED
  BY <1>3, <1>4, <1>5, <1>6, <1>7, <1>8

LEMMA RanksInductive ==
  ASSUME RanksInv, [Finish!Next]_(Finish!finishVars)
  PROVE  RanksInv'
<1>1. PanelRight(arrivals, entry, sent) /\ clicks \in 0 .. MaxInputs /\ others \in 0 .. MaxOthers
  BY DEF RanksInv
<1> DEFINE Adding == Finish!Add \/ Finish!EnterUnpicked \/ \E bib \in Bibs : Finish!ClickStarter(bib)
           Writing == \/ Finish!ClearAll \/ Finish!EditTime
                      \/ \E bib \in Bibs : Finish!TakeOff(bib)
                      \/ \E f \in Feeds : Finish!FillFromLive(f)
                      \/ \E i, tie : Finish!Drop(i, tie)
           Typing == \/ \E n \in 0 .. MaxRank : Finish!TypeRank(n)
                    \/ \E bib \in Bibs \cup {0} : Finish!TypeBib(bib)
                    \/ Finish!CreateStarter \/ Finish!CancelStarter \/ Finish!Reopen
                    \/ \E i \in 1 .. Finish!Cardinality(Bibs) : Finish!DragStart(i)
           ByOthers == Finish!OwnWrite \/ \E bib \in Bibs : Finish!OtherOperator(bib)
<1>2. CASE Adding \/ Writing \/ Typing
  <2>1. Finish!Click
    BY <1>2 DEF Finish!TypeRank, Finish!TypeBib, Finish!ClearAll, Finish!EditTime, Finish!CreateStarter,
       Finish!CancelStarter, Finish!Reopen, Finish!TakeOff, Finish!FillFromLive, Finish!DragStart, Finish!Drop,
       Finish!Add, Finish!EnterUnpicked, Finish!ClickStarter, Finish!Input
  <2>2. clicks' \in 0 .. MaxInputs /\ others' = others
    BY <1>1, <2>1, FinishConstants DEF Finish!Click
  <2>3. PanelRight(arrivals', entry', sent')
    BY <1>1, <1>2, AddingFits, WritingFits, TypingFits
  <2> QED
    BY <1>1, <2>2, <2>3 DEF RanksInv
<1>3. CASE ByOthers
  <2>1. clicks' = clicks /\ others' \in 0 .. MaxOthers
    <3>1. clicks' = clicks /\ (others' = others \/ (others < MaxOthers /\ others' = others + 1))
      BY <1>3 DEF Finish!OwnWrite, Finish!OtherOperator
    <3> QED
      BY <1>1, <3>1, FinishConstants
  <2>2. PanelRight(arrivals', entry', sent')
    BY <1>1, <1>3, OthersFit
  <2> QED
    BY <1>1, <2>1, <2>2 DEF RanksInv
<1>4. CASE Finish!FeedMarks
  <2>1. entry' = Finish!ListShows(entry, arrivals.rank) /\ UNCHANGED <<arrivals, sent, clicks, others>>
    BY <1>4 DEF Finish!FeedMarks
  <2>2. entry \in EntryType /\ arrivals.rank \in RankType
    BY <1>1 DEF PanelRight, ArrivalsType
  <2>3. entry' \in EntryType
    BY <2>1, <2>2, EntryFits
  <2>4. (Calm(entry', sent) <=> Calm(entry, sent)) /\ entry'.rank = entry.rank
    BY <2>1, <2>2 DEF EntryType, Calm, Finish!ListShows
  <2> QED
    BY <1>1, <2>1, <2>3, <2>4 DEF RanksInv, PanelRight, RankProposed
<1>5. CASE UNCHANGED Finish!finishVars
  BY <1>1, <1>5 DEF RanksInv, PanelRight, RankProposed, Calm, Finish!finishVars
<1> QED
  BY <1>2, <1>3, <1>4, <1>5 DEF Finish!Next

LEMMA RanksInitially == Finish!Init => RanksInv
<1> SUFFICES ASSUME Finish!Init
             PROVE  RanksInv
  OBVIOUS
<1>1. arrivals = [starters |-> Entered, out |-> {}, rank |-> [b \in Bibs |-> 0]] /\ entry = Finish!InitialEntry(arrivals.rank)
      /\ sent = Finish!Nothing /\ clicks = 0 /\ others = 0
  BY DEF Finish!Init
<1>2. arrivals \in ArrivalsType /\ arrivals.rank \in RankType
  BY <1>1, FinishConstants DEF ArrivalsType, RankType
<1>3. sent \in SentType
  BY <1>1 DEF SentType
<1> QED
  BY <1>1, <1>2, <1>3, EntryFits, FinishConstants DEF RanksInv, PanelRight

LEMMA RanksInvRight == RanksInv => Finish!TypeOK /\ Finish!ProposalsRight
<1> SUFFICES ASSUME RanksInv
             PROVE  Finish!TypeOK /\ Finish!ProposalsRight
  OBVIOUS
<1>1. /\ arrivals \in ArrivalsType /\ entry \in EntryType /\ RankProposed(entry, sent, arrivals.rank)
      /\ clicks \in 0 .. MaxInputs /\ others \in 0 .. MaxOthers
  BY DEF RanksInv, PanelRight
<1>2. arrivals.rank \in RankType
  BY <1>1 DEF ArrivalsType
<1>3. Finish!TypeOK
  BY <1>1 DEF Finish!TypeOK, ArrivalsType, EntryType, AddType, RankType
<1>4. Finish!NextRankRight
  BY <1>1, <1>2, NextRank DEF Finish!NextRankRight, RankProposed, Calm
<1>5. Finish!DropsRight
  BY <1>2, DropFits DEF Finish!DropsRight
<1> QED
  BY <1>3, <1>4, <1>5 DEF Finish!ProposalsRight

-----------------------------------------------------------------------------
(* The panel for riders who are out.  What the form holds does not matter: whatever changes, the form
   settles on what the present feed calls for, or its rows are not those proposed. *)
LEMMA ElimConstants ==
  /\ Bibs \subseteq Nat /\ IsFiniteSet(Bibs)
  /\ \A f \in Feeds : f.order \in Seq(Bibs) /\ f.laps \in Int /\ \A i \in DOMAIN f.order : f.done[f.order[i]] \in Nat
BY RecordsAssumption

LEMMA ElimCardinality == \A S : Elimination!Cardinality(S) = Cardinality(S)
BY DEF Elimination!Cardinality, Cardinality

(* A feed and the riders in it. *)
LEMMA RacingTyped ==
  ASSUME NEW f \in Feeds \cup {Elimination!NoFeed}, NEW gone
  PROVE  /\ f.laps \in Int /\ Elimination!RacingBibs(f, gone) \in SUBSET Bibs
         /\ \A b \in Elimination!RacingBibs(f, gone) : f.done[b] \in Nat
<1>1. f.laps \in Int /\ f.order \in Seq(Bibs) /\ \A i \in DOMAIN f.order : f.done[f.order[i]] \in Nat
  <2>1. CASE f \in Feeds
    BY <2>1, ElimConstants
  <2>2. CASE f = Elimination!NoFeed
    <3>1. f.laps = -1 /\ f.order = <<>>
      BY <2>2 DEF Elimination!NoFeed
    <3> QED
      BY <3>1
  <2> QED
    BY <2>1, <2>2
<1>2. Elimination!ToSet(f.order) \subseteq Bibs /\ \A b \in Elimination!ToSet(f.order) : f.done[b] \in Nat
  BY <1>1 DEF Elimination!ToSet
<1> QED
  BY <1>1, <1>2 DEF Elimination!RacingBibs

LEMMA GreatestFound ==
  ASSUME NEW some \in SUBSET Nat, NEW m \in some, \A y \in some : m >= y
  PROVE  Elimination!Max(some) = m
<1>1. \A x \in some : (\A y \in some : x >= y) => x = m
  OBVIOUS
<1> QED
  BY <1>1 DEF Elimination!Max

(* The laps the leader is ahead. *)
LEMMA DeficitIs ==
  ASSUME NEW f \in Feeds \cup {Elimination!NoFeed}, NEW gone, Elimination!RacingBibs(f, gone) # {}
  PROVE  \E m \in Nat :
           /\ \E c \in Elimination!RacingBibs(f, gone) : f.done[c] = m
           /\ \A c \in Elimination!RacingBibs(f, gone) : f.done[c] <= m
           /\ \A c : Elimination!Deficit(f, gone, c) = m - f.done[c]
<1> DEFINE R == Elimination!RacingBibs(f, gone)
           S == {f.done[b] : b \in R}
           rank == [b \in Bibs |-> IF b \in R THEN f.done[b] ELSE 0]
<1>1. R \in SUBSET Bibs /\ R # {} /\ \A b \in R : f.done[b] \in Nat
  BY RacingTyped
<1>2. rank \in RankType
  BY <1>1 DEF RankType
<1>3. PICK c \in R : \A b \in R : rank[b] <= rank[c]
  <2> HIDE DEF rank, R
  <2> QED
    BY <1>1, <1>2, SomebodyLast
<1>4. \A b \in R : f.done[b] <= f.done[c]
  BY <1>1, <1>3
<1>5. Elimination!Max(S) = f.done[c]
  <2>1. S \in SUBSET Nat /\ f.done[c] \in S /\ \A y \in S : f.done[c] >= y
    BY <1>1, <1>3, <1>4
  <2> HIDE DEF S
  <2> QED
    BY <2>1, GreatestFound
<1>6. \A b : Elimination!Deficit(f, gone, b) = f.done[c] - f.done[b]
  BY <1>5 DEF Elimination!Deficit
<1> QED
  BY <1>1, <1>3, <1>4, <1>6

(* The group furthest behind. *)
LEMMA GroupIs ==
  ASSUME NEW f \in Feeds \cup {Elimination!NoFeed}, NEW gone, NEW saved
  PROVE  LET G == Elimination!SuggestDnfGroup(f, gone, gone \cup saved)
             R == Elimination!RacingBibs(f, gone)
         IN /\ G \subseteq R \ saved
            /\ \A b \in G, c \in R \ (G \cup saved) : f.done[b] < f.done[c]
            /\ \A b, c \in G : f.done[b] = f.done[c] /\ Elimination!Deficit(f, gone, b) = Elimination!Deficit(f, gone, c)
            /\ \A b \in G : /\ Elimination!Deficit(f, gone, b) \in Nat \ {0}
                            /\ \A k \in R : f.done[k] = f.laps /\ (\A c \in R : f.done[c] <= f.laps) =>
                                 Elimination!DnfLapForDeficit(f, Elimination!Deficit(f, gone, b)) = Elimination!AtLeastOne(f.done[b])
<1> DEFINE R == Elimination!RacingBibs(f, gone)
           G == Elimination!SuggestDnfGroup(f, gone, gone \cup saved)
<1>1. CASE R = {}
  BY <1>1 DEF Elimination!SuggestDnfGroup
<1>2. CASE R # {}
  <2>1. PICK m \in Nat :
           /\ \E c \in R : f.done[c] = m
           /\ \A c \in R : f.done[c] <= m
           /\ \A c : Elimination!Deficit(f, gone, c) = m - f.done[c]
    BY <1>2, DeficitIs
  <2>2. f.laps \in Int /\ \A b \in R : f.done[b] \in Nat
    BY RacingTyped
  <2>3. R \cap gone = {}
    BY DEF Elimination!RacingBibs
  <2>4. G = {b \in R \ saved : m > f.done[b] /\ \A c \in R \ saved : m > f.done[c] => f.done[c] >= f.done[b]}
    BY <2>1, <2>2, <2>3 DEF Elimination!SuggestDnfGroup
  <2> HIDE DEF R, G
  <2>5. ASSUME NEW b \in G, NEW k \in R, f.done[k] = f.laps, \A c \in R : f.done[c] <= f.laps
        PROVE  Elimination!DnfLapForDeficit(f, Elimination!Deficit(f, gone, b)) = Elimination!AtLeastOne(f.done[b])
    <3>1. f.laps = m /\ m > f.done[b] /\ f.done[b] \in Nat
      BY <2>1, <2>2, <2>4, <2>5
    <3>2. Elimination!AtLeastOne(m) = m
      BY <3>1 DEF Elimination!AtLeastOne, Elimination!Max
    <3> QED
      BY <2>1, <3>1, <3>2 DEF Elimination!DnfLapForDeficit
  <2>6. \A b \in G, c \in R \ (G \cup saved) : f.done[b] < f.done[c]
    BY <2>1, <2>2, <2>4
  <2>7. \A b, c \in G : f.done[b] = f.done[c] /\ Elimination!Deficit(f, gone, b) = Elimination!Deficit(f, gone, c)
    BY <2>1, <2>2, <2>4
  <2>8. \A b \in G : Elimination!Deficit(f, gone, b) \in Nat \ {0}
    BY <2>1, <2>2, <2>4
  <2>9. G \subseteq R \ saved
    BY <2>4
  <2> QED
    BY <2>5, <2>6, <2>7, <2>8, <2>9 DEF G, R
<1> QED
  BY <1>1, <1>2

(* The ascending list of some bibs has them all: ranks of different bibs differ, so every rank up to
   their number is taken. *)
LEMMA AscendingHas ==
  ASSUME NEW B \in SUBSET Bibs
  PROVE  /\ Elimination!ToSet(Elimination!Ascending(B)) = B
         /\ Elimination!Ascending(B) = <<>> <=> B = {}
<1> DEFINE below(b) == {c \in B : c < b}
           n == Cardinality(B)
           place == [b \in B |-> Cardinality(below(b)) + 1]
<1>1. B \subseteq Nat /\ IsFiniteSet(B) /\ n \in Nat /\ (n = 0 <=> B = {})
  BY ElimConstants, FS_Subset, FS_CardinalityType, FS_EmptySet
<1>2. \A b : IsFiniteSet(below(b)) /\ Cardinality(below(b)) \in Nat
  <2> TAKE b
  <2>1. below(b) \in SUBSET B
    OBVIOUS
  <2> QED
    BY <1>1, <2>1, FS_Subset, FS_CardinalityType
<1>3. \A b \in B, c \in B : b < c => Cardinality(below(b)) < Cardinality(below(c))
  <2> TAKE b \in B, c \in B
  <2> HAVE b < c
  <2>1. below(b) \subseteq below(c) /\ b \in below(c) /\ b \notin below(b)
    <3>1. b \in Nat /\ c \in Nat /\ \A d \in B : d \in Nat
      BY <1>1
    <3>2. \A d \in below(b) : d \in below(c)
      BY <3>1
    <3>3. b \in below(c) /\ b \notin below(b)
      BY <3>1
    <3> QED
      BY <3>2, <3>3
  <2>2. below(b) # below(c)
    BY <2>1
  <2> HIDE DEF below
  <2> QED
    BY <1>2, <2>1, <2>2, FS_Subset
<1>4. \A b \in B : Cardinality(below(b)) < n
  <2> TAKE b \in B
  <2>1. below(b) \subseteq B /\ below(b) # B
    BY <1>1
  <2> HIDE DEF below
  <2> QED
    BY <1>1, <1>2, <2>1, FS_Subset
<1>5. place \in Injection(B, 1 .. n)
  <2>1. place \in [B -> 1 .. n]
    BY <1>1, <1>2, <1>4
  <2>2. \A b \in B, c \in B : place[b] = place[c] => b = c
    <3> TAKE b \in B, c \in B
    <3>1. place[b] = Cardinality(below(b)) + 1 /\ place[c] = Cardinality(below(c)) + 1
      OBVIOUS
    <3>2. b \in Nat /\ c \in Nat /\ Cardinality(below(b)) \in Nat /\ Cardinality(below(c)) \in Nat
      BY <1>1, <1>2
    <3> HIDE DEF below, place
    <3> QED
      BY <1>3, <3>1, <3>2
  <2> HIDE DEF place
  <2> QED
    BY <2>1, <2>2 DEF Injection, IsInjective
<1>6. place \in Surjection(B, 1 .. n)
  <2>1. IsFiniteSet(1 .. n) /\ Cardinality(1 .. n) = n
    BY <1>1, FS_Interval
  <2> HIDE DEF place
  <2> QED
    BY <1>1, <1>5, <2>1, FS_Injection
<1>7. \A i \in 1 .. n : \E b \in B : place[b] = i
  <2> HIDE DEF place
  <2> QED
    BY <1>6 DEF Surjection
<1> DEFINE P(b, i) == Elimination!Cardinality(below(b)) = i - 1
           Q(i) == CHOOSE b \in B : P(b, i)
<1>8. \A i \in 1 .. n : \E b \in B : P(b, i)
  <2> TAKE i \in 1 .. n
  <2>1. PICK b \in B : place[b] = i
    BY <1>7
  <2>2. Cardinality(below(b)) + 1 = i /\ Cardinality(below(b)) \in Nat
    BY <1>2, <2>1
  <2>3. P(b, i)
    BY <2>2, ElimCardinality
  <2> QED
    BY <2>3
<1>9. \A b \in B : place[b] \in 1 .. n /\ P(b, place[b])
  BY <1>1, <1>2, <1>4, ElimCardinality
<1>10. \A b \in B, c \in B : \A i \in 1 .. n : P(b, i) /\ P(c, i) => b = c
  <2> TAKE b \in B, c \in B
  <2>1. b \in Nat /\ c \in Nat /\ Cardinality(below(b)) \in Nat /\ Cardinality(below(c)) \in Nat
    BY <1>1, <1>2
  <2> HIDE DEF below
  <2> QED
    BY <1>3, <2>1, ElimCardinality
<1>11. Elimination!Ascending(B) = [i \in 1 .. n |-> Q(i)]
  <2>1. Elimination!Ascending(B) = [i \in 1 .. Elimination!Cardinality(B) |-> Q(i)]
    BY DEF Elimination!Ascending
  <2> HIDE DEF Q
  <2> QED
    BY <2>1, ElimCardinality
<1> HIDE DEF P, place
<1>12. \A i \in 1 .. n : Q(i) \in B /\ P(Q(i), i)
  BY <1>8
<1>13. \A b \in B : Q(place[b]) = b
  BY <1>9, <1>10, <1>12
<1> HIDE DEF Q, n
<1>14. DOMAIN Elimination!Ascending(B) = 1 .. n /\ \A i \in 1 .. n : Elimination!Ascending(B)[i] = Q(i)
  BY <1>11
<1>15. Elimination!ToSet(Elimination!Ascending(B)) = {Elimination!Ascending(B)[i] : i \in 1 .. n}
  BY <1>14 DEF Elimination!ToSet
<1>16. Elimination!ToSet(Elimination!Ascending(B)) = B
  BY <1>9, <1>12, <1>13, <1>14, <1>15
<1>17. Elimination!Ascending(B) = <<>> <=> n = 0
  BY <1>1, <1>14
<1> QED
  BY <1>1, <1>16, <1>17

-----------------------------------------------------------------------------
IsForm(fm) ==
  {"mode", "lap", "rows", "click", "saved", "overridden", "autoBibs", "autoList"} \subseteq DOMAIN fm

(* ProposalsRight of a form. *)
Fits(fm, f, gone) ==
  ~fm.overridden /\ fm.autoList # <<>> /\ Elimination!RowBibs(fm.rows) = fm.autoList =>
    LET bibs == Elimination!ToSet(fm.autoList)
        racing == Elimination!ToSet(f.order) \ gone
        laps(b) == f.done[b]
        rest == racing \ (bibs \cup fm.saved)
    IN /\ fm.mode \in {"DNF", "DNS"} => bibs \subseteq racing \ fm.saved
       /\ fm.mode = "DNS" => bibs = {b \in racing \ fm.saved : laps(b) = 0} /\ f.laps >= 2
       /\ fm.mode = "DNF" =>
            /\ \A b \in bibs, c \in rest : laps(b) < laps(c)
            /\ \A b, c \in bibs : laps(b) = laps(c)
            /\ (\E c \in racing : laps(c) = f.laps) /\ (\A c \in racing : laps(c) <= f.laps) =>
                 \A b \in bibs : fm.lap = Elimination!AtLeastOne(laps(b))

ElimFeed == liveFeed \in Feeds \cup {Elimination!NoFeed} /\ syncEnabled \in BOOLEAN
ElimInv == ElimFeed /\ IsForm(form) /\ (syncEnabled => Fits(form, liveFeed, outOfRace))

LEMMA ElimInvImplies == ElimInv => Elimination!ProposalsRight
BY DEF ElimInv, Fits, Elimination!ProposalsRight

Keeps(fm, g) == IsForm(g) /\ g.mode = fm.mode /\ g.saved = fm.saved /\ g.overridden = fm.overridden

LEMMA StepsKeep ==
  ASSUME NEW fm, IsForm(fm), NEW f, NEW gone
  PROVE  /\ Keeps(fm, Elimination!WithLap(fm, f)) /\ Elimination!WithLap(fm, f).autoList = fm.autoList /\ Elimination!WithLap(fm, f).rows = fm.rows
         /\ Keeps(fm, Elimination!WithElimBibs(fm, f, gone))
         /\ Keeps(fm, Elimination!WithDnfLap(fm, f, gone)) /\ Elimination!WithDnfLap(fm, f, gone).autoList = fm.autoList
         /\ Keeps(fm, Elimination!WithList(fm, f, gone)) /\ Elimination!WithList(fm, f, gone).lap = fm.lap
<1>0. Keeps(fm, fm)
  BY DEF Keeps
<1>1. Keeps(fm, Elimination!WithLap(fm, f)) /\ Elimination!WithLap(fm, f).autoList = fm.autoList /\ Elimination!WithLap(fm, f).rows = fm.rows
  BY <1>0 DEF IsForm, Keeps, Elimination!WithLap
<1>2. Keeps(fm, Elimination!WithElimBibs(fm, f, gone))
  <2> DEFINE last == Elimination!LastEligible(f, gone)
             rows == Elimination!Padded(fm.rows, Elimination!Count(fm.mode))
             replaced == {i \in DOMAIN rows \cap DOMAIN last :
                            rows[i].bib = 0 \/ (fm.autoBibs[i] # 0 /\ rows[i].bib = fm.autoBibs[i])}
             newRows == [i \in DOMAIN rows |-> IF i \in replaced THEN Elimination!Row(last[i], FALSE) ELSE rows[i]]
             newBibs == [i \in 1 .. 2 |-> IF i \in replaced THEN last[i] ELSE fm.autoBibs[i]]
  <2>1. Elimination!WithElimBibs(fm, f, gone) = IF fm.mode \notin Elimination!ElimModes THEN fm
                                    ELSE [fm EXCEPT !.rows = newRows, !.autoBibs = newBibs]
    BY DEF Elimination!WithElimBibs
  <2> HIDE DEF newRows, newBibs
  <2> QED
    BY <1>0, <2>1 DEF IsForm, Keeps
<1>3. Keeps(fm, Elimination!WithDnfLap(fm, f, gone)) /\ Elimination!WithDnfLap(fm, f, gone).autoList = fm.autoList
  <2>1. \E n : Elimination!WithDnfLap(fm, f, gone) \in {fm, [fm EXCEPT !.lap = n]}
    BY DEF Elimination!WithDnfLap
  <2> QED
    BY <1>0, <2>1 DEF IsForm, Keeps
<1>4. Keeps(fm, Elimination!WithList(fm, f, gone)) /\ Elimination!WithList(fm, f, gone).lap = fm.lap
  <2>1. \E r, l : Elimination!WithList(fm, f, gone) \in {fm, [fm EXCEPT !.rows = r, !.autoList = l]}
    BY DEF Elimination!WithList
  <2> QED
    BY <1>0, <2>1 DEF IsForm, Keeps
<1> QED
  BY <1>1, <1>2, <1>3, <1>4

(* The lists settle on the present proposal, unless the rows hold another one. *)
LEMMA ListFits ==
  ASSUME NEW fm, IsForm(fm), NEW f \in Feeds \cup {Elimination!NoFeed}, NEW gone
  PROVE  Fits(Elimination!WithList(Elimination!WithDnfLap(fm, f, gone), f, gone), f, gone)
<1> DEFINE g == Elimination!WithDnfLap(fm, f, gone)
           h == Elimination!WithList(g, f, gone)
           R == Elimination!RacingBibs(f, gone)
           dnf == Elimination!SuggestDnfGroup(f, gone, gone \cup fm.saved)
           dns == Elimination!SuggestDnsBibs(f, gone, gone \cup fm.saved)
           B == IF fm.mode = "DNF" THEN dnf ELSE dns
           own == Elimination!RowBibs(g.rows) = g.autoList \/ (Elimination!Ascending(B) # <<>> /\ Elimination!RowBibs(g.rows) = <<>>)
<1>1. Keeps(fm, g) /\ Keeps(g, h) /\ h.lap = g.lap
  <2>1. Keeps(fm, g)
    BY StepsKeep
  <2>2. IsForm(g)
    BY <2>1 DEF Keeps
  <2> QED
    BY <2>1, <2>2, StepsKeep
<1>2. h = IF fm.mode \notin {"DNF", "DNS"} \/ ~own THEN g
          ELSE [g EXCEPT !.rows = [i \in DOMAIN Elimination!Ascending(B) |-> Elimination!Row(Elimination!Ascending(B)[i], FALSE)], !.autoList = Elimination!Ascending(B)]
  BY <1>1 DEF Elimination!WithList, Keeps
<1>3. R \in SUBSET Bibs /\ dnf \in SUBSET Bibs /\ dns \in SUBSET Bibs
  BY RacingTyped DEF Elimination!SuggestDnfGroup, Elimination!SuggestDnsBibs
<1>4. CASE fm.mode \notin {"DNF", "DNS"}
  BY <1>1, <1>4 DEF Fits, Keeps
<1>5. CASE fm.mode \in {"DNF", "DNS"} /\ ~own
  <2>1. h = g /\ ~(Elimination!RowBibs(h.rows) = h.autoList)
    BY <1>2, <1>5
  <2> QED
    BY <2>1 DEF Fits
<1>6. CASE fm.mode \in {"DNF", "DNS"} /\ own
  <2>1. h.autoList = Elimination!Ascending(B)
    <3> HIDE DEF B, g, own
    <3>1. IsForm(g)
      BY <1>1 DEF Keeps
    <3>2. h = [g EXCEPT !.rows = [i \in DOMAIN Elimination!Ascending(B) |-> Elimination!Row(Elimination!Ascending(B)[i], FALSE)], !.autoList = Elimination!Ascending(B)]
      BY <1>2, <1>6
    <3> HIDE DEF h
    <3> QED
      BY <3>1, <3>2 DEF IsForm
  <2>2. SUFFICES ASSUME h.autoList # <<>>
                 PROVE  Fits(h, f, gone)
    BY DEF Fits
  <2>3. Elimination!ToSet(h.autoList) = B /\ B # {}
    <3>1. B \in SUBSET Bibs
      BY <1>3
    <3> HIDE DEF B, h
    <3> QED
      BY <2>1, <2>2, <3>1, AscendingHas
  <2>4. h.mode = fm.mode /\ h.saved = fm.saved /\ h.lap = g.lap
    BY <1>1 DEF Keeps
  <2>5. CASE fm.mode = "DNS"
    <3>1. Elimination!ToSet(h.autoList) = dns /\ dns # {} /\ h.mode = "DNS"
      BY <2>3, <2>4, <2>5
    <3>2. dns = {b \in R \ fm.saved : f.done[b] = 0} /\ f.laps >= 2
      <4>1. R \cap gone = {}
        BY DEF Elimination!RacingBibs
      <4> QED
        BY <3>1, <4>1, RacingTyped DEF Elimination!SuggestDnsBibs
    <3> HIDE DEF h, dns
    <3> QED
      BY <2>4, <3>1, <3>2 DEF Fits, Elimination!RacingBibs
  <2>6. CASE fm.mode = "DNF"
    <3>1. Elimination!ToSet(h.autoList) = dnf /\ dnf # {} /\ h.mode = "DNF"
      BY <2>3, <2>4, <2>6
    <3>2. /\ dnf \subseteq R \ fm.saved
          /\ \A b \in dnf, c \in R \ (dnf \cup fm.saved) : f.done[b] < f.done[c]
          /\ \A b, c \in dnf : f.done[b] = f.done[c] /\ Elimination!Deficit(f, gone, b) = Elimination!Deficit(f, gone, c)
      BY GroupIs
    <3>3. ASSUME NEW k \in R, f.done[k] = f.laps, \A c \in R : f.done[c] <= f.laps, NEW b \in dnf
          PROVE  g.lap = Elimination!AtLeastOne(f.done[b])
      <4> DEFINE deficits == {Elimination!Deficit(f, gone, c) : c \in dnf \cap R} \ {0}
                 d == Elimination!Deficit(f, gone, b)
      <4>1. d \in Nat \ {0} /\ Elimination!DnfLapForDeficit(f, d) = Elimination!AtLeastOne(f.done[b])
        BY <3>3, GroupIs
      <4>2. deficits = {d}
        BY <3>2, <4>1
      <4>3. f.laps \in Nat
        BY <3>3, RacingTyped
      <4>4. Elimination!Cardinality(deficits) = 1 /\ Elimination!Max(deficits) = d
        <5> HIDE DEF deficits, d
        <5> QED
          BY <4>1, <4>2, FS_Singleton, ElimCardinality, GreatestFound
      <4>5. g = [fm EXCEPT !.lap = Elimination!DnfLapForDeficit(f, d)]
        <5> HIDE DEF d, dnf
        <5>1. g = IF fm.mode # "DNF" \/ f.laps < 0 \/ Elimination!Cardinality(deficits) # 1 THEN fm
                  ELSE [fm EXCEPT !.lap = Elimination!DnfLapForDeficit(f, Elimination!Max(deficits))]
          BY <3>1 DEF Elimination!WithDnfLap, dnf
        <5> HIDE DEF deficits, g
        <5> QED
          BY <2>6, <4>3, <4>4, <5>1
      <4> HIDE DEF d, g
      <4> QED
        BY <4>1, <4>5 DEF IsForm
    <3> HIDE DEF h, dnf, g
    <3> QED
      BY <2>4, <3>1, <3>2, <3>3 DEF Fits, Elimination!RacingBibs
  <2> QED
    BY <1>6, <2>5, <2>6
<1> QED
  BY <1>4, <1>5, <1>6

(* Whatever the form was, it fits once it has settled. *)
LEMMA SettledFits ==
  ASSUME NEW fm, IsForm(fm), NEW f \in Feeds \cup {Elimination!NoFeed}, NEW gone, NEW sync \in BOOLEAN
  PROVE  LET g == Elimination!Settled(fm, sync, f, gone)
         IN IsForm(g) /\ (sync => Fits(g, f, gone))
<1> DEFINE c == [fm EXCEPT !.saved = @ \ gone]
           r == Elimination!WithElimBibs(Elimination!WithLap(c, f), f, gone)
<1>1. IsForm(c)
  BY DEF IsForm
<1>2. IsForm(Elimination!Resumed(c))
  <2> HIDE DEF c
  <2> QED
    BY <1>1 DEF IsForm, Elimination!Resumed
<1>3. IsForm(r)
  BY <1>1, StepsKeep DEF Keeps
<1>4. IsForm(Elimination!WithList(Elimination!WithDnfLap(r, f, gone), f, gone)) /\ Fits(Elimination!WithList(Elimination!WithDnfLap(r, f, gone), f, gone), f, gone)
  BY <1>3, StepsKeep, ListFits DEF Keeps
<1>5. c.overridden => Fits(c, f, gone)
  BY DEF Fits
<1> QED
  BY <1>1, <1>2, <1>4, <1>5 DEF Elimination!Settled

LEMMA ListedFits ==
  ASSUME NEW before, NEW h, IsForm(h), NEW f, NEW gone
  PROVE  IsForm(Elimination!Listed(before, h)) /\ (Fits(h, f, gone) => Fits(Elimination!Listed(before, h), f, gone))
<1>1. /\ Keeps(h, Elimination!ListShows(h)) /\ Elimination!ListShows(h).lap = h.lap /\ Elimination!ListShows(h).rows = h.rows
      /\ Elimination!ListShows(h).autoList = h.autoList
  BY DEF Elimination!ListShows, IsForm, Keeps
<1> QED
  BY <1>1 DEF Fits, Keeps, Elimination!Listed

LEMMA ShowsFits ==
  ASSUME NEW fm, IsForm(form), IsForm(fm), ElimFeed', Elimination!Shows(fm)
  PROVE  ElimInv'
<1> DEFINE s == Elimination!Listed(form, fm)
           g == Elimination!Settled(s, syncEnabled', liveFeed', outOfRace')
<1>1. IsForm(s)
  BY ListedFits
<1>2. form' = Elimination!Listed(s, g)
  BY DEF Elimination!Shows
<1>3. IsForm(g) /\ (syncEnabled' => Fits(g, liveFeed', outOfRace'))
  <2>1. syncEnabled' \in BOOLEAN /\ liveFeed' \in Feeds \cup {Elimination!NoFeed}
    BY DEF ElimFeed
  <2> HIDE DEF s
  <2> QED
    BY <1>1, <2>1, SettledFits
<1> HIDE DEF s, g
<1>4. IsForm(form') /\ (syncEnabled' => Fits(form', liveFeed', outOfRace'))
  BY <1>2, <1>3, ListedFits
<1> QED
  BY <1>4 DEF ElimInv

(* What the actions make of a form is a form. *)
LEMMA SavedForm ==
  ASSUME NEW fm, IsForm(fm), NEW s
  PROVE  IsForm(Elimination!CommitSave(fm, s)) /\ IsForm(Elimination!Resumed(fm))
<1>1. IsForm(Elimination!Resumed(fm))
  BY DEF IsForm, Elimination!Resumed
<1> QED
  BY <1>1 DEF IsForm, Elimination!CommitSave

LEMMA ElimInit == Elimination!Init => ElimInv
<1> SUFFICES ASSUME Elimination!Init PROVE ElimInv
  OBVIOUS
<1>1. ElimFeed /\ syncEnabled = FALSE
  BY DEF Elimination!Init, Elimination!PanelInit, ElimFeed
<1>2. IsForm(form)
  BY DEF Elimination!Init, Elimination!InitialForm, IsForm
<1> QED
  BY <1>1, <1>2 DEF ElimInv

LEMMA ElimStep == ElimInv /\ [Elimination!Next]_(Elimination!formVars) => ElimInv'
<1> SUFFICES ASSUME ElimInv, [Elimination!Next]_(Elimination!formVars)
             PROVE  ElimInv'
  OBVIOUS
<1>0. IsForm(form) /\ liveFeed \in Feeds \cup {Elimination!NoFeed} /\ syncEnabled \in BOOLEAN
  BY DEF ElimInv, ElimFeed
<1>a. ASSUME liveFeed' = liveFeed, syncEnabled' = syncEnabled, NEW fm, IsForm(fm), Elimination!Shows(fm)
      PROVE  ElimInv'
  <2>1. ElimFeed'
    BY <1>0, <1>a DEF ElimFeed
  <2> QED
    BY <1>0, <1>a, <2>1, ShowsFits
<1>b. ASSUME UNCHANGED <<liveFeed, syncEnabled, outOfRace, form>>
      PROVE  ElimInv'
  BY <1>b DEF ElimInv, ElimFeed, Fits
<1>1. ASSUME NEW m, Elimination!SetMode(m)
      PROVE  ElimInv'
  <2>1. liveFeed' = liveFeed /\ syncEnabled' = syncEnabled
    BY <1>1 DEF Elimination!SetMode, Elimination!FormOnly
  <2>2. \E r : Elimination!Shows([form EXCEPT !.mode = m, !.rows = r])
    BY <1>1 DEF Elimination!SetMode
  <2>3. \A r : IsForm([form EXCEPT !.mode = m, !.rows = r])
    BY <1>0 DEF IsForm
  <2> QED
    BY <1>a, <2>1, <2>2, <2>3
<1>2. ASSUME NEW n, Elimination!EditLap(n)
      PROVE  ElimInv'
  <2>1. liveFeed' = liveFeed /\ syncEnabled' = syncEnabled /\ Elimination!Shows([Elimination!Overridden EXCEPT !.lap = n])
    BY <1>2 DEF Elimination!EditLap, Elimination!FormOnly
  <2>2. IsForm(Elimination!Overridden)
    BY <1>0 DEF IsForm, Elimination!Overridden
  <2>3. IsForm([Elimination!Overridden EXCEPT !.lap = n])
    BY <2>2 DEF IsForm
  <2> QED
    BY <1>a, <2>1, <2>3
<1>3. ASSUME NEW i, NEW bib, Elimination!TypeBib(i, bib)
      PROVE  ElimInv'
  <2>1. liveFeed' = liveFeed /\ syncEnabled' = syncEnabled
    BY <1>3 DEF Elimination!TypeBib, Elimination!FormOnly
  <2>2. \E r, a, l : Elimination!Shows([Elimination!Overridden EXCEPT !.rows = r, !.autoBibs = a, !.autoList = l])
    BY <1>3 DEF Elimination!TypeBib
  <2>3. IsForm(Elimination!Overridden)
    BY <1>0 DEF IsForm, Elimination!Overridden
  <2>4. \A r, a, l : IsForm([Elimination!Overridden EXCEPT !.rows = r, !.autoBibs = a, !.autoList = l])
    BY <2>3 DEF IsForm
  <2> QED
    BY <1>a, <2>1, <2>2, <2>4
<1>4. ASSUME NEW bib, Elimination!ClickStarter(bib)
      PROVE  ElimInv'
  <2>1. liveFeed' = liveFeed /\ syncEnabled' = syncEnabled
    BY <1>4 DEF Elimination!ClickStarter, Elimination!FormOnly
  <2> DEFINE marked == [form EXCEPT !.overridden = @ \/ form.click.sync]
  <2>2. \/ Elimination!Shows(marked)
        \/ \E r, a, l : Elimination!Shows([marked EXCEPT !.rows = r, !.autoBibs = a, !.autoList = l])
    BY <1>4 DEF Elimination!ClickStarter
  <2>3. IsForm(marked)
    BY <1>0 DEF IsForm
  <2> HIDE DEF marked
  <2>4. \A r, a, l : IsForm([marked EXCEPT !.rows = r, !.autoBibs = a, !.autoList = l])
    BY <2>3 DEF IsForm
  <2> QED
    BY <1>a, <2>1, <2>2, <2>3, <2>4
<1>5. CASE Elimination!Save
  <2>1. liveFeed' = liveFeed /\ syncEnabled' = syncEnabled /\ Elimination!Shows(Elimination!CommitSave(form, Elimination!ThisSave))
    BY <1>5 DEF Elimination!Save
  <2> QED
    BY <1>0, <1>a, <2>1, SavedForm
<1>6. CASE Elimination!SaveMissing
  BY <1>6, <1>b DEF Elimination!SaveMissing, Elimination!AskFor
<1>7. CASE Elimination!SaveCreated
  <2>1. liveFeed' = liveFeed /\ syncEnabled' = syncEnabled /\ Elimination!Shows(Elimination!CommitSave(form, pendingSave))
    BY <1>7 DEF Elimination!SaveCreated, Elimination!NothingToCreate
  <2> QED
    BY <1>0, <1>a, <2>1, SavedForm
<1>8. CASE (Elimination!CreateStarters \/ Elimination!CancelStarters) /\ UNCHANGED form
  BY <1>8, <1>b DEF Elimination!CreateStarters, Elimination!CancelStarters
<1>9. CASE Elimination!Clear
  <2>1. liveFeed' = liveFeed /\ syncEnabled' = syncEnabled
    BY <1>9 DEF Elimination!Clear, Elimination!FormOnly
  <2> DEFINE fm == IF syncEnabled THEN Elimination!Resumed(form) ELSE form
  <2>2. \E r : Elimination!Shows([fm EXCEPT !.saved = {}, !.rows = r])
    BY <1>9 DEF Elimination!Clear
  <2>3. IsForm(fm)
    BY <1>0, SavedForm
  <2> HIDE DEF fm
  <2>4. \A r : IsForm([fm EXCEPT !.saved = {}, !.rows = r])
    BY <2>3 DEF IsForm
  <2> QED
    BY <1>a, <2>1, <2>2, <2>4
<1>10. CASE Elimination!Reopen
  <2> DEFINE new == Elimination!InitialForm(syncEnabled)
             g == Elimination!Settled(new, syncEnabled, liveFeed, outOfRace)
  <2>1. /\ liveFeed' = liveFeed /\ syncEnabled' = syncEnabled /\ outOfRace' = outOfRace
        /\ form' = Elimination!Listed(new, g)
    BY <1>10 DEF Elimination!Reopen
  <2>2. IsForm(new)
    BY DEF Elimination!InitialForm, IsForm
  <2> HIDE DEF new
  <2>3. IsForm(g) /\ (syncEnabled => Fits(g, liveFeed, outOfRace))
    BY <1>0, <2>2, SettledFits
  <2> HIDE DEF g
  <2>4. IsForm(Elimination!Listed(new, g)) /\ (syncEnabled => Fits(Elimination!Listed(new, g), liveFeed, outOfRace))
    BY <2>3, ListedFits
  <2> QED
    BY <1>0, <2>1, <2>4 DEF ElimInv, ElimFeed, Fits
<1>11. CASE Elimination!ToggleSync /\ Elimination!Shows(form)
  <2>1. ElimFeed'
    BY <1>0, <1>11 DEF Elimination!ToggleSync, ElimFeed
  <2> QED
    BY <1>0, <1>11, <2>1, ShowsFits
<1>c. ASSUME NEW renews, NEW fm, IsForm(fm), Elimination!ShowsAfter(renews, fm)
      PROVE  \E g : IsForm(g) /\ Elimination!Shows(g)
  <2>1. \E c : Elimination!Shows([fm EXCEPT !.click = c])
    BY <1>c DEF Elimination!ShowsAfter
  <2>2. \A c : IsForm([fm EXCEPT !.click = c])
    BY <1>c DEF IsForm
  <2> QED
    BY <2>1, <2>2
<1>12. ASSUME NEW f \in Feeds, Elimination!FeedArrives(f), Elimination!ShowsAfter(Elimination!FeedRenewsList, form)
       PROVE  ElimInv'
  <2>1. ElimFeed'
    BY <1>0, <1>12 DEF Elimination!FeedArrives, ElimFeed
  <2>2. PICK g : IsForm(g) /\ Elimination!Shows(g)
    BY <1>0, <1>12, <1>c
  <2> QED
    BY <1>0, <2>1, <2>2, ShowsFits
<1>13. ASSUME Elimination!OwnWrite(Elimination!PendingWrite) \/ \E bib \in Bibs : Elimination!OtherOperator(bib, Elimination!PendingWrite), Elimination!AfterRaceChange
       PROVE  ElimInv'
  <2>1. liveFeed' = liveFeed /\ syncEnabled' = syncEnabled
    BY <1>13 DEF Elimination!OwnWrite, Elimination!OtherOperator, Elimination!RaceChanges
  <2>2. \E fm : IsForm(fm) /\ Elimination!ShowsAfter(Elimination!RaceRenewsList, fm)
    <3>1. IsForm(IF Elimination!Awaited(panelStarters') THEN Elimination!CommitSave(form, pendingSave) ELSE form)
      BY <1>0, SavedForm
    <3> QED
      BY <1>13, <3>1 DEF Elimination!AfterRaceChange
  <2> QED
    BY <1>a, <1>c, <2>1, <2>2
<1>14. CASE UNCHANGED Elimination!formVars
  BY <1>14, <1>b DEF Elimination!formVars, Elimination!panelVars
<1> QED
  BY <1>1, <1>2, <1>3, <1>4, <1>5, <1>6, <1>7, <1>8, <1>9, <1>10, <1>11, <1>12, <1>13, <1>14 DEF Elimination!Next

-----------------------------------------------------------------------------
(* The invariant of the whole: that of the part that runs. *)
RecordsInv ==
  /\ part = "raceState" => RaceStateInv
  /\ part = "events" => EventInv
  /\ part = "elimination" => ElimInv
  /\ part = "points" => PointsInv
  /\ part = "activities" => ActivityInv
  /\ part = "finish" => FinishInv /\ RanksInv

LEMMA RecordsInvariant == RecordsSpec => []RecordsInv
<1>1. RecordsInit => RecordsInv
  BY RaceStateInitially, EventInitially, ElimInit, PointsInitially, ActivityInitially, FinishInitially, RanksInitially DEF RecordsInit, RecordsInv
<1>2. RecordsInv /\ [RecordsNext]_recordVars => RecordsInv'
  BY StepOfAPart, RaceStateInductive, EventInductive, ElimStep, PointsInductive, ActivityInductive, FinishInductive, RanksInductive DEF RecordsInv
<1> QED
  BY <1>1, <1>2, PTL DEF RecordsSpec

(* The laps of a rider agree with what Orbits has, between its messages, also after corrections of any
   laps in any order: one entry per lap, the totals, the fastest lap as the best one, and lap times that
   are the difference of the totals, except for a lap whose predecessor was corrected after it was driven;
   for any number of races, laps, corrections and any times. *)
THEOREM LapsAgree == RecordsSpec => [](part = "raceState" => RaceState!LapsConsistent)
<1>1. RecordsInv => (part = "raceState" => RaceState!LapsConsistent)
  BY RaceInvConsistent DEF RecordsInv
<1> QED
  BY <1>1, RecordsInvariant, PTL

(* The two documents of an event name it alike unless a write was refused or an import crossed another
   save, the active event is one of the list and the age groups in the editor are those taken over with
   what was added and removed since, for any number of events, names, groups, inputs and other pages. *)
THEOREM EventsAgree ==
  RecordsSpec => [](part = "events" => EventPage!TypeOK /\ EventPage!NamesAgree /\ EventPage!ActiveListed /\ EventPage!GroupsAsTyped)
<1>1. RecordsInv => (part = "events" => EventPage!TypeOK /\ EventPage!NamesAgree /\ EventPage!ActiveListed /\ EventPage!GroupsAsTyped)
  BY EventInvAgrees DEF RecordsInv
<1> QED
  BY <1>1, RecordsInvariant, PTL

(* Saving an event changes the age groups of its document as typed, if it still has those the editor
   took over. *)
THEOREM EventsSavedAsTyped == RecordsSpec => [][part = "events" => EventPage!SavedAsTyped]_recordVars
<1>1. RecordsInv /\ [RecordsNext]_recordVars => (part = "events" => EventPage!SavedAsTyped)
  BY StepOfAPart, EventStepSaves DEF RecordsInv
<1> QED
  BY <1>1, RecordsInvariant, PTL DEF RecordsSpec

(* What a panel proposes fits the race as it is at present.  Eliminations: as long as
   the operator has not taken over, the riders listed as DNF are racing, not just saved, furthest behind
   and all with the laps the form shows, those listed as DNS the ones without a lap.  Points: the riders in front of the race, in the order of the points.  Finish: the
   rank of the next rider, once the page's own writes have come back, is the next place of a competition
   ranking behind every rider in it, and a row dropped on another is placed before it or level with it,
   all others staying in their order.  For any riders, feeds, ranks, ties, inputs, news and answers of
   the server in any order. *)
THEOREM ProposalsFit == RecordsSpec => []ProposalsRight
<1>1. RecordsInv => ProposalsRight
  BY ElimInvImplies, PointsProposed, RanksInvRight DEF RecordsInv, ProposalsRight
<1> QED
  BY <1>1, RecordsInvariant, PTL

(* The order of arrival and the entry of the finish line panel keep their types. *)
THEOREM FinishTyped == RecordsSpec => [](part = "finish" => Finish!TypeOK)
<1>1. RecordsInv => (part = "finish" => Finish!TypeOK)
  BY RanksInvRight DEF RecordsInv
<1> QED
  BY <1>1, RecordsInvariant, PTL

(* What the operator has entered in the points panel, and the lap, is changed by nothing that comes from
   outside, whatever sync does, except by a save that waited for its starters. *)
THEOREM PointsEntered == RecordsSpec => [][part = "points" => PointsPanel!EntriesStay]_recordVars
<1>1. RecordsInv /\ [RecordsNext]_recordVars => (part = "points" => PointsPanel!EntriesStay)
  BY StepOfAPart, PointsInductive DEF RecordsInv
<1> QED
  BY <1>1, RecordsInvariant, PTL DEF RecordsSpec

(* What the operator has typed in the finish line panel stays, also the rank once there is a bib,
   whatever others and the page's own writes do to the race, except when a rider who was waited for is
   added. *)
THEOREM FinishEntered == RecordsSpec => [][part = "finish" => Finish!EntriesStay]_recordVars
<1>1. RecordsInv /\ [RecordsNext]_recordVars => (part = "finish" => Finish!EntriesStay)
  BY StepOfAPart, FinishInductive DEF RecordsInv
<1> QED
  BY <1>1, RecordsInvariant, PTL DEF RecordsSpec

(* Every version an activity of a race has had, also what one page has written over the correction of
   another, is in its history, and every activity is one of a race of the event. *)
THEOREM HistoriesComplete == RecordsSpec => [](part = "activities" => ScoringPageEdits!HistoryComplete)
<1>1. RecordsInv => (part = "activities" => ScoringPageEdits!HistoryComplete)
  BY ActivityComplete DEF RecordsInv
<1> QED
  BY <1>1, RecordsInvariant, PTL

(* What a scoring page writes changes one activity of its race as the operator sees it, unless all are
   removed or a starter is, and loses no activity or correction of another page; what is in its edit
   panel stays as long as the race is there. *)
THEOREM ActivitiesKept ==
  RecordsSpec => [][part = "activities" => ScoringPageEdits!ActivitiesStay /\ ScoringPageEdits!PanelStays]_recordVars
<1>1. RecordsInv /\ [RecordsNext]_recordVars
        => (part = "activities" => ScoringPageEdits!ActivitiesStay /\ ScoringPageEdits!PanelStays)
  BY StepOfAPart, ActivityInductive DEF RecordsInv
<1> QED
  BY <1>1, RecordsInvariant, PTL DEF RecordsSpec
=============================================================================
