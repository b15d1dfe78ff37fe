---------------------------- MODULE StreamProofs ----------------------------
(***************************************************************************)
(* Proofs about what arrives in pieces, the parts of RaceRecords in which  *)
(* nothing may be lost or mixed up on the way: the finish line log between *)
(* the rings in which the leaderboard keeps the passings and the list a    *)
(* viewer of the displayed race shows, for any races, riders, times,       *)
(* limits and lost connections; and the bytes of a P3 decoder, for any     *)
(* frames, however TCP cuts them and wherever a connection begins.         *)
(***************************************************************************)
EXTENDS RaceRecords, SequenceTheorems, FiniteSetTheorems, WellFoundedInduction, TLAPS

(* The least number principle. *)
LEMMA LeastNatural ==
  ASSUME NEW T \in SUBSET Nat, T # {}
  PROVE  \E x \in T : \A y \in T : x <= y
<1> DEFINE less == OpToRel(<, Nat)
<1>1. IsWellFoundedOn(less, Nat)
  BY NatLessThanWellFounded
<1>2. ASSUME NEW x \in Nat, NEW y \in Nat, y < x
      PROVE <<y, x>> \in less
  BY <1>2 DEF OpToRel
<1> HIDE DEF less
<1>3. \E x \in T : \A y \in T : ~(<<y, x>> \in less)
  BY <1>1, WFMin
<1>4. PICK x \in T : \A y \in T : ~(<<y, x>> \in less)
  BY <1>3
<1>5. ASSUME NEW y \in T
      PROVE  x <= y
  <2>1. x \in Nat /\ y \in Nat /\ ~(y < x)
    BY <1>2, <1>4
  <2> QED
    BY <2>1
<1> QED
  BY <1>5

-----------------------------------------------------------------------------
(* The finish line log.  A viewer is led, message by message, from what it shows to the passings of the
   race its socket sends, in crossing order, unless a snapshot is due; and if the socket sends another
   race than the one displayed, a snapshot is due or the race stream has yet to notice. *)

(* A passing of the log; those of a race have numbers of their own. *)
Entry == [seq : Nat, rider : Riders, crossing : Int, position : Positions \cup {0}]
Distinct(S) == \A e, f \in S : e.seq = f.seq => e = f

LEMMA LogConstants ==
  /\ PerRace \in Nat \ {0} /\ MaxLogRaces \in Nat \ {0} /\ NoRace \notin LogRaces
  /\ Times \subseteq Int /\ MaxLogLines \in Nat
BY RecordsAssumption

(* In crossing order each of some passings has a place of its own, and every place is taken. *)
LEMMA SortedHas ==
  ASSUME NEW S \in SUBSET Entry, IsFiniteSet(S), Distinct(S)
  PROVE  /\ Log!Sorted(S) \in Seq(S) /\ Len(Log!Sorted(S)) = Cardinality(S) /\ Cardinality(S) \in Nat
         /\ \A e \in S : \E k \in 1 .. Cardinality(S) : Log!Sorted(S)[k] = e
         /\ \A k, l \in 1 .. Cardinality(S) : Log!Sorted(S)[k] = Log!Sorted(S)[l] => k = l
<1> DEFINE before(e) == {f \in S : Log!ByCrossing(f, e)}
           n == Cardinality(S)
           place == [e \in S |-> Cardinality(before(e)) + 1]
           P(e, k) == Cardinality(before(e)) = k - 1
           Q(k) == CHOOSE e \in S : P(e, k)
<1>1. n \in Nat /\ (n = 0 <=> S = {})
  BY FS_CardinalityType, FS_EmptySet
<1>2. \A e : IsFiniteSet(before(e)) /\ Cardinality(before(e)) \in Nat
  <2> TAKE e
  <2>1. before(e) \in SUBSET S
    OBVIOUS
  <2> HIDE DEF before
  <2> QED
    BY <2>1, FS_Subset, FS_CardinalityType
<1>3. \A e, f \in S : Log!ByCrossing(e, f) => Cardinality(before(e)) < Cardinality(before(f))
  <2> SUFFICES ASSUME NEW e \in S, NEW f \in S, Log!ByCrossing(e, f)
               PROVE  Cardinality(before(e)) < Cardinality(before(f))
    OBVIOUS
  <2>1. \A g \in S : g.seq \in Nat /\ g.crossing \in Int
    BY DEF Entry
  <2>2. before(e) \subseteq before(f) /\ e \in before(f) /\ e \notin before(e)
    BY <2>1 DEF Log!ByCrossing
  <2>3. before(e) # before(f)
    BY <2>2
  <2> HIDE DEF before
  <2> QED
    BY <1>2, <2>2, <2>3, FS_Subset
<1>4. \A e \in S : Cardinality(before(e)) < n
  <2> TAKE e \in S
  <2>1. e.seq \in Nat /\ e.crossing \in Int
    BY DEF Entry
  <2>2. before(e) \subseteq S /\ e \notin before(e)
    BY <2>1 DEF Log!ByCrossing
  <2>3. before(e) # S
    BY <2>2
  <2> HIDE DEF before
  <2> QED
    BY <1>1, <1>2, <2>2, <2>3, FS_Subset
<1>5. \A e, f \in S : Cardinality(before(e)) = Cardinality(before(f)) => e = f
  <2> SUFFICES ASSUME NEW e \in S, NEW f \in S, Cardinality(before(e)) = Cardinality(before(f))
               PROVE  e = f
    OBVIOUS
  <2>1. ~Log!ByCrossing(e, f) /\ ~Log!ByCrossing(f, e)
    <3> HIDE DEF before
    <3> QED
      BY <1>2, <1>3
  <2>2. e.seq \in Nat /\ e.crossing \in Int /\ f.seq \in Nat /\ f.crossing \in Int
    BY DEF Entry
  <2>3. e.seq = f.seq
    BY <2>1, <2>2 DEF Log!ByCrossing
  <2> QED
    BY <2>3 DEF Distinct
<1>6. place \in Injection(S, 1 .. n)
  <2>1. place \in [S -> 1 .. n]
    <3> HIDE DEF before, n
    <3> QED
      BY <1>1, <1>2, <1>4
  <2>2. \A e, f \in S : place[e] = place[f] => e = f
    <3> HIDE DEF before
    <3> QED
      BY <1>2, <1>5
  <2> HIDE DEF place
  <2> QED
    BY <2>1, <2>2 DEF Injection, IsInjective
<1>7. \A k \in 1 .. n : \E e \in S : place[e] = k
  <2>1. IsFiniteSet(1 .. n) /\ Cardinality(1 .. n) = n
    BY <1>1, FS_Interval
  <2> HIDE DEF place
  <2>2. place \in Surjection(S, 1 .. n)
    BY <1>1, <1>6, <2>1, FS_Injection
  <2> QED
    BY <2>2 DEF Surjection
<1>8. \A k \in 1 .. n : \E e \in S : P(e, k)
  <2> TAKE k \in 1 .. n
  <2>1. PICK e \in S : place[e] = k
    BY <1>7
  <2>2. Cardinality(before(e)) + 1 = k /\ Cardinality(before(e)) \in Nat
    BY <1>2, <2>1
  <2>3. Cardinality(before(e)) = k - 1
    <3> HIDE DEF before, n
    <3> QED
      BY <2>2
  <2> QED
    BY <2>3
<1>9. \A k \in 1 .. n : Q(k) \in S /\ P(Q(k), k)
  <2> HIDE DEF P
  <2> QED
    BY <1>8
<1>10. Log!Sorted(S) = [k \in 1 .. n |-> Q(k)]
  BY DEF Log!Sorted, Log!Cardinality, Cardinality
<1>11. \A k \in 1 .. n : Log!Sorted(S)[k] \in S /\ P(Log!Sorted(S)[k], k)
  <2> HIDE DEF P, Q, n
  <2> QED
    BY <1>9, <1>10
<1>12. Log!Sorted(S) \in Seq(S) /\ Len(Log!Sorted(S)) = n
  <2> HIDE DEF P, Q, n
  <2>1. Log!Sorted(S) \in [1 .. n -> S]
    BY <1>9, <1>10
  <2> QED
    BY <1>1, <2>1
<1>13. \A e \in S : \E k \in 1 .. n : Log!Sorted(S)[k] = e
  <2> TAKE e \in S
  <2>1. place[e] \in 1 .. n /\ P(e, place[e])
    <3>1. Cardinality(before(e)) \in Nat /\ Cardinality(before(e)) < n /\ place[e] = Cardinality(before(e)) + 1
      BY <1>2, <1>4
    <3> HIDE DEF before, n, place
    <3> QED
      BY <1>1, <3>1
  <2>2. Log!Sorted(S)[place[e]] \in S /\ Cardinality(before(Log!Sorted(S)[place[e]])) = Cardinality(before(e))
    <3> HIDE DEF before, n, place
    <3> QED
      BY <1>11, <2>1
  <2>3. Log!Sorted(S)[place[e]] = e
    <3> HIDE DEF before, n, place
    <3> QED
      BY <1>5, <2>2
  <2> QED
    BY <2>1, <2>3
<1>14. \A k, l \in 1 .. n : Log!Sorted(S)[k] = Log!Sorted(S)[l] => k = l
  <2> HIDE DEF before, n
  <2> QED
    BY <1>11
<1> QED
  BY <1>1, <1>12, <1>13, <1>14

LEMMA SetOfSorted ==
  ASSUME NEW S \in SUBSET Entry, IsFiniteSet(S), Distinct(S)
  PROVE  Log!ToSet(Log!Sorted(S)) = S
<1>1. Log!Sorted(S) \in Seq(S) /\ DOMAIN Log!Sorted(S) = 1 .. Cardinality(S)
  BY SortedHas
<1> QED
  BY <1>1, SortedHas DEF Log!ToSet

(* The index a search finds. *)
LEMMA LeastFound ==
  ASSUME NEW I \in SUBSET Nat, I # {}
  PROVE  Log!Min(I) \in I /\ \A y \in I : Log!Min(I) <= y
<1>1. \E x \in I : \A y \in I : x =< y
  BY LeastNatural
<1> QED
  BY <1>1 DEF Log!Min

LEMMA GreatestInList ==
  ASSUME NEW I \in SUBSET Nat, I # {}, NEW n \in Nat, \A x \in I : x <= n
  PROVE  Log!Max(I) \in I
<1> DEFINE T == {n - x : x \in I}
<1>1. T \in SUBSET Nat /\ T # {}
  <2>1. \A x \in I : n - x \in Nat
    OBVIOUS
  <2>2. T # {}
    OBVIOUS
  <2> QED
    BY <2>1, <2>2
<1> HIDE DEF T
<1>2. PICK t \in T : \A u \in T : t <= u
  BY <1>1, LeastNatural
<1> USE DEF T
<1>3. PICK x \in I : t = n - x
  OBVIOUS
<1>4. \A y \in I : x >= y
  <2> TAKE y \in I
  <2>1. t <= n - y
    BY <1>2
  <2> QED
    BY <1>3, <2>1
<1> QED
  BY <1>3, <1>4 DEF Log!Max

(* What a search finds: the ring of a race, the passing of a rider. *)
Ring == [race : LogRaces, entries : Seq(Entry)]
In(ls, r) == Log!SelectInSeq(ls, LAMBDA l : l.race = r)
EntriesIn(ls, r) == IF In(ls, r) = 0 THEN <<>> ELSE ls[In(ls, r)].entries

LEMMA InIs ==
  ASSUME NEW r, NEW ls \in Seq(Ring)
  PROVE  /\ In(ls, r) \in 0 .. Len(ls)
         /\ In(ls, r) # 0 => ls[In(ls, r)].race = r
         /\ In(ls, r) = 0 => \A i \in 1 .. Len(ls) : ls[i].race # r
         /\ In(ls, r) # 0 => \A i \in 1 .. Len(ls) : ls[i].race = r => In(ls, r) <= i
<1> DEFINE I == {i \in 1 .. Len(ls) : ls[i].race = r}
<1>1. In(ls, r) = IF I # {} THEN Log!Min(I) ELSE 0
  BY DEF In, Log!SelectInSeq
<1>2. I # {} => Log!Min(I) \in I /\ \A i \in I : Log!Min(I) <= i
  <2> HAVE I # {}
  <2>1. I \in SUBSET Nat
    OBVIOUS
  <2> HIDE DEF I
  <2> QED
    BY <2>1, LeastFound
<1> QED
  BY <1>1, <1>2

LEMMA InLogs == \A r : Log!Position(r) = In(logs, r) /\ Log!Entries(r) = EntriesIn(logs, r) /\ Log!List(r) = Log!Sorted(Log!ToSet(EntriesIn(logs, r)))
BY DEF Log!Position, In, Log!Entries, EntriesIn, Log!List

(* The latest passing of a rider that has a position. *)
LatestRanked(es, who) == Log!SelectLastInSeq(es, LAMBDA e : e.rider = who /\ e.position # 0)

LEMMA LatestIs ==
  ASSUME NEW r, Log!Entries(r) \in Seq(Entry), NEW who
  PROVE  /\ Log!Latest(r, who) \in 0 .. Len(Log!Entries(r))
         /\ LatestRanked(Log!Entries(r), who) \in 0 .. Len(Log!Entries(r))
<1> DEFINE n == Len(Log!Entries(r))
           I == {i \in 1 .. n : Log!Entries(r)[i].rider = who}
           J == {i \in 1 .. n : Log!Entries(r)[i].rider = who /\ Log!Entries(r)[i].position # 0}
<1>1. n \in Nat /\ I \in SUBSET (1 .. n) /\ J \in SUBSET (1 .. n)
  OBVIOUS
<1>2. ASSUME NEW K \in SUBSET (1 .. n), K # {} PROVE Log!Max(K) \in 1 .. n
  <2> HIDE DEF n
  <2>1. K \in SUBSET Nat /\ \A x \in K : x <= n
    BY <1>1
  <2> QED
    BY <1>1, <1>2, <2>1, GreatestInList
<1>3. Log!Latest(r, who) = IF I # {} THEN Log!Max(I) ELSE 0
  BY DEF Log!Latest, Log!SelectLastInSeq
<1>4. LatestRanked(Log!Entries(r), who) = IF J # {} THEN Log!Max(J) ELSE 0
  BY DEF LatestRanked, Log!SelectLastInSeq
<1> HIDE DEF I, J, n
<1> QED
  BY <1>1, <1>2, <1>3, <1>4 DEF n

(* The newest elements of a sequence, up to a limit. *)
LEMMA NewestIs ==
  ASSUME NEW T, NEW s \in Seq(T), NEW n \in Nat
  PROVE  \E d \in Nat : /\ Log!Newest(s, n) \in Seq(T) /\ Len(Log!Newest(s, n)) = Len(s) - d /\ Len(s) - d <= n
                        /\ \A i \in 1 .. Len(s) - d : Log!Newest(s, n)[i] = s[i + d]
                        /\ Len(s) <= n => d = 0 /\ Log!Newest(s, n) = s
                        /\ Len(s) > n => Len(s) - d = n
<1>1. CASE Len(s) <= n
  BY <1>1 DEF Log!Newest
<1>2. CASE Len(s) > n
  <2> DEFINE d == Len(s) - n
  <2>1. d \in Nat /\ Log!Newest(s, n) = SubSeq(s, d + 1, Len(s))
    BY <1>2 DEF Log!Newest
  <2>2. SubSeq(s, d + 1, Len(s)) \in Seq(T) /\ Len(SubSeq(s, d + 1, Len(s))) = Len(s) - d
    BY <1>2, <2>1
  <2>3. \A i \in 1 .. Len(s) - d : SubSeq(s, d + 1, Len(s))[i] = s[i + d]
    BY <1>2, <2>1
  <2>4. Len(s) - d = n /\ Len(s) \in Nat
    OBVIOUS
  <2> HIDE DEF d
  <2>5. /\ Log!Newest(s, n) \in Seq(T) /\ Len(Log!Newest(s, n)) = Len(s) - d /\ Len(s) - d <= n
        /\ \A i \in 1 .. Len(s) - d : Log!Newest(s, n)[i] = s[i + d]
    BY <2>1, <2>2, <2>3, <2>4
  <2> QED
    BY <1>2, <2>1, <2>4, <2>5
<1> QED
  BY <1>1, <1>2

-----------------------------------------------------------------------------
(* The entries of a race after `last` passings. *)
EntriesSound(es, last) ==
  /\ es \in Seq(Entry) /\ Len(es) <= PerRace
  /\ \A i \in 1 .. Len(es) : es[i].seq \in 1 .. last
  /\ \A i, j \in 1 .. Len(es) : es[i].seq = es[j].seq => i = j

LEMMA EntriesSet ==
  ASSUME NEW last \in Nat, NEW es, EntriesSound(es, last)
  PROVE  /\ Log!ToSet(es) \in SUBSET Entry /\ IsFiniteSet(Log!ToSet(es)) /\ Distinct(Log!ToSet(es))
         /\ Cardinality(Log!ToSet(es)) \in Nat /\ Cardinality(Log!ToSet(es)) <= last /\ Len(es) <= last
<1>1. es \in Seq(Entry) /\ Len(es) \in Nat /\ Log!ToSet(es) = {es[i] : i \in 1 .. Len(es)}
  BY DEF EntriesSound, Log!ToSet
<1>2. Log!ToSet(es) \in SUBSET Entry
  BY <1>1
<1>3. Distinct(Log!ToSet(es))
  BY <1>1 DEF EntriesSound, Distinct
<1>4. IsFiniteSet(1 .. last) /\ Cardinality(1 .. last) = last /\ Cardinality(1 .. Len(es)) = Len(es)
  <2>1. \A n \in Nat : IsFiniteSet(1 .. n) /\ Cardinality(1 .. n) = n
    BY FS_Interval
  <2> QED
    BY <1>1, <2>1
<1> DEFINE number == [e \in Log!ToSet(es) |-> e.seq]
           numbers == [i \in 1 .. Len(es) |-> es[i].seq]
<1>5. number \in Injection(Log!ToSet(es), 1 .. last)
  <2>1. \A e \in Log!ToSet(es) : e.seq \in 1 .. last
    BY <1>1 DEF EntriesSound
  <2>2. number \in [Log!ToSet(es) -> 1 .. last]
    BY <2>1
  <2>3. \A e, f \in Log!ToSet(es) : number[e] = number[f] => e = f
    BY <1>3 DEF Distinct
  <2> HIDE DEF number
  <2> QED
    BY <2>2, <2>3 DEF Injection, IsInjective
<1>6. numbers \in Injection(1 .. Len(es), 1 .. last)
  <2>1. numbers \in [1 .. Len(es) -> 1 .. last]
    BY <1>1 DEF EntriesSound
  <2>2. \A i, j \in 1 .. Len(es) : numbers[i] = numbers[j] => i = j
    BY <1>1 DEF EntriesSound
  <2> HIDE DEF numbers
  <2> QED
    BY <2>1, <2>2 DEF Injection, IsInjective
<1>7. IsFiniteSet(Log!ToSet(es)) /\ Cardinality(Log!ToSet(es)) <= last
  <2> HIDE DEF number
  <2> QED
    BY <1>4, <1>5, FS_Injection
<1>8. Len(es) <= last
  <2> HIDE DEF numbers
  <2>1. Cardinality(1 .. Len(es)) <= Cardinality(1 .. last)
    BY <1>4, <1>6, FS_Injection
  <2> QED
    BY <1>4, <2>1
<1> QED
  BY <1>2, <1>3, <1>7, <1>8, FS_CardinalityType

(* append() of a race. *)
LEMMA EntryAppended ==
  ASSUME NEW last \in Nat, NEW es, EntriesSound(es, last), NEW e \in Entry, e.seq = last + 1
  PROVE  /\ EntriesSound(Log!Newest(Append(es, e), PerRace), last + 1)
         /\ last + 1 <= PerRace => Log!ToSet(Log!Newest(Append(es, e), PerRace)) = Log!ToSet(es) \cup {e}
<1> DEFINE all == Append(es, e)
           new == Log!Newest(all, PerRace)
<1>1. es \in Seq(Entry) /\ Len(es) \in Nat /\ all \in Seq(Entry) /\ Len(all) = Len(es) + 1
  BY DEF EntriesSound
<1>2. \A i \in 1 .. Len(all) : all[i].seq \in 1 .. last + 1
  <2> TAKE i \in 1 .. Len(all)
  <2>1. i \in 1 .. Len(es) => all[i] = es[i]
    BY <1>1
  <2>2. i = Len(es) + 1 => all[i] = e
    BY <1>1
  <2>3. i \in 1 .. Len(es) \/ i = Len(es) + 1
    BY <1>1
  <2> HIDE DEF all
  <2> QED
    BY <2>1, <2>2, <2>3 DEF EntriesSound
<1>3. \A i, j \in 1 .. Len(all) : all[i].seq = all[j].seq => i = j
  <2> TAKE i, j \in 1 .. Len(all)
  <2>1. \A k \in 1 .. Len(es) : all[k] = es[k] /\ es[k].seq \in 1 .. last
    BY <1>1 DEF EntriesSound
  <2>2. all[Len(es) + 1].seq = last + 1
    BY <1>1
  <2>3. /\ i \in 1 .. Len(es) \/ i = Len(es) + 1
        /\ j \in 1 .. Len(es) \/ j = Len(es) + 1
    BY <1>1
  <2>4. \A k, l \in 1 .. Len(es) : all[k].seq = all[l].seq => k = l
    BY <2>1 DEF EntriesSound
  <2> HIDE DEF all
  <2>5. \A k \in 1 .. Len(es) : all[k].seq # last + 1
    BY <2>1
  <2> QED
    BY <2>2, <2>3, <2>4, <2>5
<1> HIDE DEF all
<1>4. PICK d \in Nat : /\ new \in Seq(Entry) /\ Len(new) = Len(all) - d /\ Len(all) - d <= PerRace
                       /\ \A i \in 1 .. Len(all) - d : new[i] = all[i + d]
                       /\ Len(all) <= PerRace => d = 0 /\ new = all
  BY <1>1, NewestIs, LogConstants
<1>5. EntriesSound(new, last + 1)
  <2> HIDE DEF new
  <2>1. Len(all) \in Nat /\ Len(new) = Len(all) - d /\ \A i \in 1 .. Len(new) : i + d \in 1 .. Len(all) /\ new[i] = all[i + d]
    BY <1>1, <1>4
  <2>2. \A i \in 1 .. Len(new) : new[i].seq \in 1 .. last + 1
    BY <1>2, <2>1
  <2>3. \A i, j \in 1 .. Len(new) : new[i].seq = new[j].seq => i = j
    <3> TAKE i, j \in 1 .. Len(new)
    <3>1. new[i].seq = new[j].seq => i + d = j + d
      BY <1>3, <2>1
    <3> QED
      BY <3>1, <1>4
  <2> QED
    BY <1>4, <2>2, <2>3 DEF EntriesSound
<1>6. last + 1 <= PerRace => Log!ToSet(new) = Log!ToSet(es) \cup {e}
  <2> HAVE last + 1 <= PerRace
  <2>1. Len(es) <= last
    BY EntriesSet
  <2>2. new = all
    <3> HIDE DEF new
    <3> QED
      BY <1>1, <1>4, <2>1, LogConstants
  <2>3. Log!ToSet(all) = {all[i] : i \in 1 .. Len(es) + 1} /\ Log!ToSet(es) = {es[i] : i \in 1 .. Len(es)}
    BY <1>1 DEF Log!ToSet
  <2>4. (\A i \in 1 .. Len(es) : all[i] = es[i]) /\ all[Len(es) + 1] = e
    BY <1>1 DEF all
  <2>5. 1 .. Len(es) + 1 = 1 .. Len(es) \cup {Len(es) + 1}
    BY <1>1
  <2> HIDE DEF new
  <2> QED
    BY <2>2, <2>3, <2>4, <2>5
<1> HIDE DEF new
<1> QED
  BY <1>5, <1>6 DEF new, all

(* An entry changed in place. *)
LEMMA EntryChanged ==
  ASSUME NEW last \in Nat, NEW es, EntriesSound(es, last),
         NEW i \in 1 .. Len(es), NEW e \in Entry, e.seq = es[i].seq,
         NEW new \in Seq(Entry), Len(new) = Len(es), new[i] = e, \A j \in 1 .. Len(es) : j # i => new[j] = es[j]
  PROVE  /\ EntriesSound(new, last)
         /\ Log!ToSet(new) = (Log!ToSet(es) \ {es[i]}) \cup {e}
<1>1. es \in Seq(Entry) /\ Len(es) \in Nat
  BY DEF EntriesSound
<1>3. \A j \in 1 .. Len(es) : new[j].seq = es[j].seq
  OBVIOUS
<1>4. EntriesSound(new, last)
  BY <1>1, <1>3 DEF EntriesSound
<1>5. Log!ToSet(new) = {new[j] : j \in 1 .. Len(es)} /\ Log!ToSet(es) = {es[j] : j \in 1 .. Len(es)}
  BY <1>1 DEF Log!ToSet
<1>6. \A j \in 1 .. Len(es) : es[j] = es[i] => j = i
  BY DEF EntriesSound
<1>7. Log!ToSet(new) = (Log!ToSet(es) \ {es[i]}) \cup {e}
  BY <1>5, <1>6
<1> QED
  BY <1>4, <1>7

-----------------------------------------------------------------------------
(* What the viewer makes of a message about a passing. *)
Single(r, e) == [type |-> "passing", race |-> r, entries |-> <<e>>]
Sees(r, S) == [race |-> r, entries |-> Log!Sorted(S)]

Found(s, seq) == Log!SelectInSeq(s, LAMBDA f : f.seq = seq)

LEMMA ViewerFinds ==
  ASSUME NEW S \in SUBSET Entry, IsFiniteSet(S), Distinct(S), NEW seq
  PROVE  LET i == Found(Log!Sorted(S), seq)
         IN /\ i \in 0 .. Cardinality(S)
            /\ i # 0 => Log!Sorted(S)[i].seq = seq
            /\ i = 0 => \A f \in S : f.seq # seq
<1> DEFINE i == Found(Log!Sorted(S), seq)
           n == Cardinality(S)
           I == {k \in 1 .. Len(Log!Sorted(S)) : Log!Sorted(S)[k].seq = seq}
<1>1. Len(Log!Sorted(S)) = n /\ n \in Nat /\ \A e \in S : \E k \in 1 .. n : Log!Sorted(S)[k] = e
  BY SortedHas
<1>2. i = IF I # {} THEN Log!Min(I) ELSE 0
  BY DEF Found, Log!SelectInSeq
<1>3. I \in SUBSET Nat /\ I = {k \in 1 .. n : Log!Sorted(S)[k].seq = seq}
  BY <1>1
<1>4. I # {} => Log!Min(I) \in I
  <2> HIDE DEF I
  <2> QED
    BY <1>3, LeastFound
<1> HIDE DEF i, n, I
<1>5. /\ i \in 0 .. n
      /\ i # 0 => Log!Sorted(S)[i].seq = seq
      /\ i = 0 => \A f \in S : f.seq # seq
  <2>1. CASE I # {}
    <3>1. i \in I /\ i \in 1 .. n
      BY <1>2, <1>3, <1>4, <2>1
    <3> QED
      BY <1>1, <1>3, <3>1
  <2>2. CASE I = {}
    BY <1>1, <1>2, <1>3, <2>2
  <2> QED
    BY <2>1, <2>2
<1> QED
  BY <1>5 DEF i, n

LEMMA ViewerShows ==
  ASSUME NEW r, NEW S, NEW e
  PROVE  Log!Shown(Sees(r, S), Single(r, e)) = [race |-> r, entries |-> Log!Placed(Log!Sorted(S), e)]
BY DEF Log!Shown, Sees, Single

LEMMA ViewerAdds ==
  ASSUME NEW S \in SUBSET Entry, IsFiniteSet(S), Distinct(S), NEW e \in Entry,
         \A f \in S : f.seq # e.seq, Cardinality(S) + 1 <= PerRace
  PROVE  Log!Placed(Log!Sorted(S), e) = Log!Sorted(S \cup {e})
<1> DEFINE i == Found(Log!Sorted(S), e.seq)
           T == S \cup {e}
<1>1. i = 0
  <2>1. /\ i \in 0 .. Cardinality(S)
        /\ i # 0 => Log!Sorted(S)[i].seq = e.seq
    BY ViewerFinds
  <2>2. \A k \in 1 .. Cardinality(S) : Log!Sorted(S)[k] \in S
    BY SortedHas
  <2> HIDE DEF i
  <2>3. Cardinality(S) \in Nat
    BY FS_CardinalityType
  <2> QED
    BY <2>1, <2>2, <2>3
<1>2. T \in SUBSET Entry /\ IsFiniteSet(T) /\ Cardinality(T) = Cardinality(S) + 1
  BY FS_AddElement
<1>3. Distinct(T)
  BY DEF Distinct
<1>4. Log!Newest(Log!Sorted(T), PerRace) = Log!Sorted(T)
  <2> HIDE DEF T
  <2>1. Len(Log!Sorted(T)) = Cardinality(S) + 1 /\ Cardinality(S) \in Nat
    BY <1>2, <1>3, SortedHas, FS_CardinalityType
  <2> QED
    BY <2>1, LogConstants DEF Log!Newest
<1>5. Log!ToSet(Log!Sorted(S)) = S
  BY SetOfSorted
<1>6. Log!Placed(Log!Sorted(S), e) = Log!Newest(Log!Sorted(Log!ToSet(Log!Sorted(S)) \cup {e}), PerRace)
  BY <1>1 DEF Log!Placed, Found
<1> QED
  BY <1>4, <1>5, <1>6

LEMMA ViewerChanges ==
  ASSUME NEW S \in SUBSET Entry, IsFiniteSet(S), Distinct(S), NEW old \in S, NEW e \in Entry, e.seq = old.seq
  PROVE  Log!Placed(Log!Sorted(S), e) = Log!Sorted((S \ {old}) \cup {e})
<1> DEFINE s == Log!Sorted(S)
           i == Found(s, e.seq)
           n == Cardinality(S)
<1>1. /\ s \in Seq(S) /\ Len(s) = n /\ n \in Nat
      /\ \A f \in S : \E k \in 1 .. n : s[k] = f
      /\ \A k, l \in 1 .. n : s[k] = s[l] => k = l
  BY SortedHas
<1>2. i \in 1 .. n /\ s[i] = old
  <2>1. /\ i \in 0 .. n
        /\ i # 0 => s[i].seq = e.seq
        /\ i = 0 => \A f \in S : f.seq # e.seq
    BY ViewerFinds
  <2> HIDE DEF i, s, n
  <2>2. i # 0
    BY <2>1
  <2>3. i \in 1 .. n /\ s[i] \in S /\ s[i].seq = old.seq
    BY <1>1, <2>1, <2>2
  <2> QED
    BY <2>3 DEF Distinct
<1> HIDE DEF s
<1>3. Log!Placed(s, e) = Log!Sorted(Log!ToSet([s EXCEPT ![i] = e]))
  <2>1. i # 0 /\ i = Log!SelectInSeq(s, LAMBDA f : f.seq = e.seq)
    BY <1>1, <1>2 DEF Found
  <2> HIDE DEF i
  <2> QED
    BY <2>1 DEF Log!Placed
<1> HIDE DEF i, n
<1>4. Log!ToSet([s EXCEPT ![i] = e]) = (S \ {old}) \cup {e}
  <2> DEFINE new == [s EXCEPT ![i] = e]
  <2>1. DOMAIN new = 1 .. n /\ new[i] = e /\ \A k \in 1 .. n : k # i => new[k] = s[k]
    BY <1>1, <1>2
  <2> HIDE DEF new
  <2>2. Log!ToSet(new) = {new[k] : k \in 1 .. n}
    BY <2>1 DEF Log!ToSet
  <2>3. \A k \in 1 .. n : k # i => s[k] \in S \ {old}
    BY <1>1, <1>2
  <2>4. \A f \in S \ {old} : \E k \in 1 .. n : k # i /\ s[k] = f
    BY <1>1, <1>2
  <2>5. Log!ToSet(new) = (S \ {old}) \cup {e}
    BY <1>2, <2>1, <2>2, <2>3, <2>4
  <2> QED
    BY <2>5 DEF new
<1> QED
  BY <1>3, <1>4 DEF s

-----------------------------------------------------------------------------
(* The logs of all races after `last` passings. *)
LogsSound(ls, last) ==
  /\ ls \in Seq(Ring) /\ Len(ls) <= MaxLogRaces
  /\ \A i \in 1 .. Len(ls) : EntriesSound(ls[i].entries, last)

LEMMA EntriesOfRace ==
  ASSUME NEW ls, NEW last \in Nat, LogsSound(ls, last), NEW r
  PROVE  EntriesSound(EntriesIn(ls, r), last) /\ EntriesIn(ls, r) \in Seq(Entry)
<1>1. ls \in Seq(Ring)
  BY DEF LogsSound
<1>2. CASE In(ls, r) = 0
  <2>1. EntriesIn(ls, r) = <<>>
    BY <1>2 DEF EntriesIn
  <2> QED
    BY <2>1, LogConstants DEF EntriesSound
<1>3. CASE In(ls, r) # 0
  <2>1. In(ls, r) \in 1 .. Len(ls)
    BY <1>1, <1>3, InIs
  <2>2. EntriesIn(ls, r) = ls[In(ls, r)].entries
    BY <1>3 DEF EntriesIn
  <2> QED
    BY <2>1, <2>2 DEF LogsSound, EntriesSound
<1> QED
  BY <1>2, <1>3

LEMMA StaySound ==
  ASSUME NEW es, NEW last \in Nat, EntriesSound(es, last)
  PROVE  EntriesSound(es, last + 1)
BY DEF EntriesSound

LEMMA RingReplaced ==
  ASSUME NEW ls \in Seq(Ring), NEW p \in 1 .. Len(ls), NEW es \in Seq(Entry)
  PROVE  LET new == [ls EXCEPT ![p].entries = es]
         IN /\ new \in Seq(Ring) /\ Len(new) = Len(ls) /\ new[p].race = ls[p].race /\ new[p].entries = es
            /\ \A i \in 1 .. Len(ls) : i # p => new[i] = ls[i]
<1> DEFINE new == [ls EXCEPT ![p].entries = es]
<1>1. /\ Len(new) = Len(ls) /\ new[p] = [ls[p] EXCEPT !.entries = es]
      /\ \A i \in 1 .. Len(ls) : i # p => new[i] = ls[i]
  OBVIOUS
<1>2. new = [i \in 1 .. Len(ls) |-> new[i]]
  OBVIOUS
<1> HIDE DEF new
<1>3. ls[p] \in Ring
  OBVIOUS
<1>4. new[p] \in Ring /\ new[p].race = ls[p].race /\ new[p].entries = es
  BY <1>1, <1>3 DEF Ring
<1>5. \A i \in 1 .. Len(ls) : new[i] \in Ring
  BY <1>1, <1>4
<1>6. new \in [1 .. Len(ls) -> Ring]
  BY <1>2, <1>5
<1>7. new \in Seq(Ring)
  BY <1>6
<1> QED
  BY <1>1, <1>4, <1>7 DEF new

(* Other entries in the ring of a race. *)
LEMMA RingChanged ==
  ASSUME NEW ls, NEW last \in Nat, NEW next \in Nat, LogsSound(ls, last), NEW r, In(ls, r) # 0,
         NEW es, EntriesSound(es, next), next = last \/ next = last + 1,
         NEW new \in Seq(Ring), Len(new) = Len(ls), new[In(ls, r)].race = r, new[In(ls, r)].entries = es,
         \A i \in 1 .. Len(ls) : i # In(ls, r) => new[i] = ls[i]
  PROVE  LogsSound(new, next) /\ EntriesIn(new, r) = es
<1> DEFINE p == In(ls, r)
<1>1. /\ ls \in Seq(Ring) /\ Len(ls) \in Nat /\ p \in 1 .. Len(ls) /\ ls[p].race = r
      /\ \A i \in 1 .. Len(ls) : ls[i].race = r => p <= i
  BY InIs DEF LogsSound
<1>3. new[p].race = r /\ new[p].entries = es /\ \A i \in 1 .. Len(ls) : i # p => new[i] = ls[i]
  OBVIOUS
<1> HIDE DEF p
<1>6. \A i \in 1 .. Len(ls) : EntriesSound(new[i].entries, next)
  <2> TAKE i \in 1 .. Len(ls)
  <2>1. CASE i = p
    BY <1>3, <2>1
  <2>2. CASE i # p
    <3>1. EntriesSound(ls[i].entries, last)
      BY DEF LogsSound
    <3>2. EntriesSound(ls[i].entries, next)
      BY <3>1, StaySound
    <3> QED
      BY <1>3, <2>2, <3>2
  <2> QED
    BY <2>1, <2>2
<1>7. LogsSound(new, next)
  BY <1>6 DEF LogsSound
<1>8. In(new, r) = p
  <2> DEFINE q == In(new, r)
  <2>1. /\ q \in 0 .. Len(ls)
        /\ q # 0 => new[q].race = r
        /\ q = 0 => \A i \in 1 .. Len(ls) : new[i].race # r
        /\ q # 0 => \A i \in 1 .. Len(ls) : new[i].race = r => q <= i
    BY <1>1, InIs
  <2> HIDE DEF q
  <2>2. q # 0 /\ q <= p
    BY <1>1, <1>3, <2>1
  <2>3. q \in 1 .. Len(ls) /\ new[q].race = r
    BY <1>1, <2>1, <2>2
  <2>4. ls[q].race = r
    BY <1>1, <1>3, <2>3
  <2>5. p <= q
    BY <1>1, <2>3, <2>4
  <2> QED
    BY <1>1, <2>1, <2>2, <2>5 DEF q
<1>9. EntriesIn(new, r) = es
  BY <1>1, <1>3, <1>8 DEF EntriesIn
<1> QED
  BY <1>7, <1>9

(* append(), with its two limits. *)
LEMMA AppendedIs ==
  ASSUME lastSeq \in Nat, LogsSound(logs, lastSeq), NEW r \in LogRaces, NEW e \in Entry, e.seq = lastSeq + 1
  PROVE  /\ LogsSound(Log!Appended(r, e), lastSeq + 1)
         /\ lastSeq + 1 <= PerRace => Log!ToSet(EntriesIn(Log!Appended(r, e), r)) = Log!ToSet(EntriesIn(logs, r)) \cup {e}
<1> DEFINE p == In(logs, r)
<1>1. logs \in Seq(Ring) /\ Len(logs) \in Nat /\ Len(logs) <= MaxLogRaces /\ lastSeq + 1 \in Nat
  BY DEF LogsSound
<1>2. CASE p = 0
  <2> DEFINE ring == [race |-> r, entries |-> <<e>>]
             all == Append(logs, ring)
             new == Log!Newest(all, MaxLogRaces)
  <2>1. Log!Appended(r, e) = new
    BY <1>2, InLogs DEF Log!Appended
  <2>2. ring \in Ring /\ ring.entries = <<e>> /\ ring.race = r
    BY DEF Ring
  <2>3. EntriesSound(<<e>>, lastSeq + 1)
    BY LogConstants DEF EntriesSound
  <2> HIDE DEF ring
  <2>4. /\ all \in Seq(Ring) /\ Len(all) = Len(logs) + 1 /\ all[Len(logs) + 1] = ring
        /\ \A i \in 1 .. Len(logs) : all[i] = logs[i]
    BY <1>1, <2>2
  <2> HIDE DEF all
  <2>5. PICK d \in Nat : /\ new \in Seq(Ring) /\ Len(new) = Len(all) - d /\ Len(all) - d <= MaxLogRaces
                         /\ \A i \in 1 .. Len(all) - d : new[i] = all[i + d]
                         /\ Len(all) <= MaxLogRaces => d = 0
                         /\ Len(all) > MaxLogRaces => Len(all) - d = MaxLogRaces
    BY <2>4, NewestIs, LogConstants
  <2> HIDE DEF new
  <2>6. Len(new) \in Nat \ {0} /\ Len(new) + d = Len(logs) + 1
    BY <1>1, <2>4, <2>5, LogConstants
  <2>7. \A i \in 1 .. Len(new) : (i = Len(new) /\ new[i] = ring) \/ (i + d \in 1 .. Len(logs) /\ new[i] = logs[i + d])
    <3> TAKE i \in 1 .. Len(new)
    <3>1. new[i] = all[i + d]
      BY <2>5
    <3>2. CASE i = Len(new)
      BY <2>4, <2>6, <3>1, <3>2
    <3>3. CASE i # Len(new)
      <4>1. i + d \in 1 .. Len(logs)
        BY <1>1, <2>6, <3>3
      <4> QED
        BY <2>4, <3>1, <4>1
    <3> QED
      BY <3>2, <3>3
  <2>8. \A i \in 1 .. Len(new) : EntriesSound(new[i].entries, lastSeq + 1)
    <3> TAKE i \in 1 .. Len(new)
    <3>1. \A j \in 1 .. Len(logs) : EntriesSound(logs[j].entries, lastSeq + 1)
      BY StaySound DEF LogsSound
    <3> QED
      BY <2>2, <2>3, <2>7, <3>1
  <2>9. LogsSound(new, lastSeq + 1)
    <3>1. Len(new) <= MaxLogRaces
      BY <2>5
    <3> QED
      BY <2>5, <2>8, <3>1 DEF LogsSound
  <2>10. \A j \in 1 .. Len(logs) : logs[j].race # r
    BY <1>1, <1>2, InIs
  <2>11. In(new, r) = Len(new)
    <3>1. /\ In(new, r) \in 0 .. Len(new)
          /\ In(new, r) # 0 => new[In(new, r)].race = r
          /\ In(new, r) = 0 => \A i \in 1 .. Len(new) : new[i].race # r
      BY <2>5, InIs
    <3>2. new[Len(new)] = ring
      BY <2>6, <2>4, <2>5
    <3>3. In(new, r) # 0
      BY <2>2, <2>6, <3>1, <3>2
    <3>4. In(new, r) \in 1 .. Len(new)
      BY <2>6, <3>1, <3>3
    <3> QED
      BY <2>7, <2>10, <3>1, <3>3, <3>4
  <2>12. EntriesIn(new, r) = <<e>>
    <3>1. new[Len(new)] = ring
      BY <2>6, <2>4, <2>5
    <3> QED
      BY <2>2, <2>6, <2>11, <3>1 DEF EntriesIn
  <2>13. EntriesIn(logs, r) = <<>>
    BY <1>2 DEF EntriesIn
  <2>14. Log!ToSet(<<e>>) = {} \cup {e} /\ Log!ToSet(<<>>) = {}
    BY DEF Log!ToSet
  <2> QED
    BY <2>1, <2>9, <2>12, <2>13, <2>14
<1>3. CASE p # 0
  <2> DEFINE es == EntriesIn(logs, r)
             more == Log!Newest(Append(es, e), PerRace)
             new == [logs EXCEPT ![p].entries = more]
  <2>1. EntriesSound(es, lastSeq)
    BY EntriesOfRace
  <2>2. es = logs[p].entries
    BY <1>3 DEF EntriesIn
  <2> HIDE DEF es
  <2>3. /\ EntriesSound(more, lastSeq + 1)
        /\ lastSeq + 1 <= PerRace => Log!ToSet(more) = Log!ToSet(es) \cup {e}
    BY <2>1, EntryAppended
  <2>4. [logs EXCEPT ![p].entries = Log!Newest(Append(@, e), PerRace)] = new
    <3>1. [logs EXCEPT ![p].entries = Log!Newest(Append(@, e), PerRace)] = [logs EXCEPT ![p].entries = Log!Newest(Append(logs[p].entries, e), PerRace)]
      BY <1>1
    <3> QED
      BY <2>2, <3>1
  <2>5. Log!Appended(r, e) = Log!Newest(new, MaxLogRaces)
    BY <1>3, <2>4, InLogs DEF Log!Appended
  <2>8. p \in 1 .. Len(logs) /\ logs[p].race = r /\ logs[p] \in Ring
    BY <1>1, <1>3, InIs
  <2>9. more \in Seq(Entry)
    BY <2>3 DEF EntriesSound
  <2> HIDE DEF more, p
  <2>10. /\ new \in Seq(Ring) /\ Len(new) = Len(logs) /\ new[p].race = r /\ new[p].entries = more
         /\ \A i \in 1 .. Len(logs) : i # p => new[i] = logs[i]
    BY <1>1, <2>8, <2>9, RingReplaced
  <2> HIDE DEF new
  <2>6. LogsSound(new, lastSeq + 1) /\ EntriesIn(new, r) = more
    BY <1>1, <1>3, <2>3, <2>10, RingChanged DEF p
  <2> HIDE DEF new
  <2>7. Log!Newest(new, MaxLogRaces) = new
    BY <1>1, <2>10, LogConstants DEF Log!Newest
  <2> QED
    BY <2>3, <2>5, <2>6, <2>7 DEF es
<1> QED
  BY <1>2, <1>3

-----------------------------------------------------------------------------
(* vs[k] is what a viewer that shows v will show after k messages of w. *)
Path(vs, v, w) == vs[0] = v /\ \A k \in 1 .. Len(w) : vs[k] = Log!Shown(vs[k - 1], w[k])

Messages == [type : {"passings", "passing"}, race : LogRaces \cup {NoRace}, entries : Seq(Entry)]

LEMMA PathAppended ==
  ASSUME NEW vs, NEW v, NEW w \in Seq(Messages), Path(vs, v, w), NEW m
  PROVE  \E us : Path(us, v, Append(w, m)) /\ us[Len(w) + 1] = Log!Shown(vs[Len(w)], m)
<1> DEFINE n == Len(w)
           us == [k \in 0 .. n + 1 |-> IF k = n + 1 THEN Log!Shown(vs[n], m) ELSE vs[k]]
<1>1. n \in Nat /\ Len(Append(w, m)) = n + 1 /\ Append(w, m)[n + 1] = m /\ \A k \in 1 .. n : Append(w, m)[k] = w[k]
  OBVIOUS
<1> HIDE DEF n
<1>2. us[n + 1] = Log!Shown(vs[n], m) /\ \A k \in 0 .. n : us[k] = vs[k]
  BY <1>1
<1> HIDE DEF us
<1>3. us[0] = v
  BY <1>1, <1>2 DEF Path
<1>4. ASSUME NEW k \in 1 .. n + 1
      PROVE  us[k] = Log!Shown(us[k - 1], Append(w, m)[k])
  <2>1. CASE k = n + 1
    BY <1>1, <1>2, <2>1
  <2>2. CASE k # n + 1
    <3>1. k \in 1 .. n /\ k - 1 \in 0 .. n
      BY <1>1, <2>2
    <3>2. vs[k] = Log!Shown(vs[k - 1], w[k])
      BY <3>1 DEF Path, n
    <3> QED
      BY <1>1, <1>2, <3>1, <3>2
  <2> QED
    BY <2>1, <2>2
<1>5. Path(us, v, Append(w, m))
  BY <1>1, <1>3, <1>4 DEF Path
<1> QED
  BY <1>2, <1>5 DEF n

LEMMA PathFront ==
  ASSUME NEW vs, NEW v, NEW w \in Seq(Messages), NEW q \in Seq(Messages), Path(vs, v, w \o q)
  PROVE  Path(vs, v, w)
<1>1. Len(w \o q) = Len(w) + Len(q) /\ Len(w) \in Nat /\ Len(q) \in Nat /\ \A k \in 1 .. Len(w) : (w \o q)[k] = w[k]
  OBVIOUS
<1> QED
  BY <1>1 DEF Path

LEMMA PathShifted ==
  ASSUME NEW vs, NEW v, NEW w \in Seq(Messages), w # <<>>, Path(vs, v, w)
  PROVE  \E us : Path(us, Log!Shown(v, Head(w)), Tail(w)) /\ us[Len(w) - 1] = vs[Len(w)]
<1> DEFINE n == Len(w)
           us == [k \in 0 .. n - 1 |-> vs[k + 1]]
<1>1. n \in Nat \ {0} /\ Len(Tail(w)) = n - 1 /\ Head(w) = w[1] /\ \A k \in 1 .. n - 1 : Tail(w)[k] = w[k + 1]
  OBVIOUS
<1>2. \A k \in 1 .. n : vs[k] = Log!Shown(vs[k - 1], w[k])
  BY DEF Path
<1> HIDE DEF n
<1>3. \A k \in 0 .. n - 1 : us[k] = vs[k + 1]
  OBVIOUS
<1> HIDE DEF us
<1>4. us[0] = Log!Shown(v, Head(w))
  BY <1>1, <1>2, <1>3 DEF Path
<1>5. ASSUME NEW k \in 1 .. n - 1
      PROVE  us[k] = Log!Shown(us[k - 1], Tail(w)[k])
  <2>1. k + 1 \in 1 .. n /\ k \in 0 .. n - 1 /\ k - 1 \in 0 .. n - 1 /\ (k + 1) - 1 = k /\ (k - 1) + 1 = k
    BY <1>1
  <2>2. us[k] = vs[k + 1] /\ us[k - 1] = vs[k]
    BY <1>3, <2>1
  <2>3. vs[k + 1] = Log!Shown(vs[k], w[k + 1])
    BY <1>2, <2>1
  <2> QED
    BY <1>1, <2>2, <2>3
<1>6. Path(us, Log!Shown(v, Head(w)), Tail(w))
  BY <1>1, <1>4, <1>5 DEF Path
<1>7. us[n - 1] = vs[n]
  BY <1>1, <1>3
<1> QED
  BY <1>6, <1>7 DEF n

(* What the viewer will show is what the recursion says. *)
LEMMA ViewsArePath ==
  ASSUME logWire \in Seq(Messages), NEW vs, Path(vs, logView, logWire)
  PROVE  Log!Views[Len(logWire)] = vs[Len(logWire)]
<1> DEFINE n == Len(logWire)
           g == [k \in 0 .. n |-> vs[k]]
           Is(f) == f = [k \in 0 .. n |-> IF k = 0 THEN logView ELSE Log!Shown(f[k - 1], logWire[k])]
<1>1. n \in Nat
  OBVIOUS
<1>2. Is(g)
  <2> DEFINE h == [k \in 0 .. n |-> IF k = 0 THEN logView ELSE Log!Shown(g[k - 1], logWire[k])]
  <2>1. ASSUME NEW k \in 0 .. n PROVE g[k] = h[k]
    <3>1. CASE k = 0
      BY <3>1 DEF Path
    <3>2. CASE k # 0
      <4>1. k \in 1 .. n /\ k - 1 \in 0 .. n
        BY <1>1, <3>2
      <4>2. g[k - 1] = vs[k - 1] /\ g[k] = vs[k] /\ h[k] = Log!Shown(g[k - 1], logWire[k])
        BY <3>2, <4>1
      <4> HIDE DEF g, h
      <4> QED
        BY <4>1, <4>2 DEF Path
    <3> QED
      BY <3>1, <3>2
  <2>2. g = h
    <3>1. g = [k \in 0 .. n |-> g[k]] /\ h = [k \in 0 .. n |-> h[k]]
      OBVIOUS
    <3> HIDE DEF g, h
    <3> QED
      BY <2>1, <3>1
  <2> QED
    BY <2>2
<1>3. Log!Views = CHOOSE f : Is(f)
  BY DEF Log!Views
<1> HIDE DEF g
<1>4. Is(Log!Views)
  <2> HIDE DEF Is
  <2> QED
    BY <1>2, <1>3
<1> HIDE DEF n
<1>5. \A k \in 0 .. n : Log!Views[k] = IF k = 0 THEN logView ELSE Log!Shown(Log!Views[k - 1], logWire[k])
  BY <1>4
<1> DEFINE D == {k \in 0 .. n : Log!Views[k] # vs[k]}
<1>6. D = {}
  <2> SUFFICES ASSUME D # {} PROVE FALSE
    OBVIOUS
  <2>1. D \in SUBSET Nat
    BY <1>1
  <2> HIDE DEF D
  <2>2. PICK k \in D : \A l \in D : k <= l
    BY <2>1, LeastNatural
  <2>3. k \in 0 .. n /\ Log!Views[k] # vs[k]
    BY DEF D
  <2>4. k # 0
    BY <1>1, <1>5, <2>3 DEF Path
  <2>5. k \in 1 .. n /\ k - 1 \in 0 .. n /\ ~(k <= k - 1)
    BY <1>1, <2>3, <2>4
  <2>6. Log!Views[k - 1] = vs[k - 1]
    BY <2>2, <2>5 DEF D
  <2>7. Log!Views[k] = Log!Shown(Log!Views[k - 1], logWire[k])
    BY <1>5, <2>3, <2>4
  <2>8. vs[k] = Log!Shown(vs[k - 1], logWire[k])
    BY <2>5 DEF Path, n
  <2> QED
    BY <2>3, <2>6, <2>7, <2>8
<1>7. n \in 0 .. n
  BY <1>1
<1> QED
  BY <1>6, <1>7 DEF n

-----------------------------------------------------------------------------
(* The messages a batch becomes. *)
Singles(r, q) == [k \in 1 .. Len(q) |-> Single(r, q[k])]

LEMMA SinglesAre ==
  ASSUME NEW r \in LogRaces \cup {NoRace}, NEW q \in Seq(Entry), NEW w \in Seq(Messages)
  PROVE  /\ Singles(r, q) \in Seq(Messages) /\ w \o Singles(r, q) \in Seq(Messages)
         /\ \A e \in Entry : w \o Singles(r, Append(q, e)) = Append(w \o Singles(r, q), Single(r, e))
         /\ Singles(r, <<>>) = <<>> /\ w \o Singles(r, <<>>) = w
<1>1. \A e \in Entry : Single(r, e) \in Messages
  <2> TAKE e \in Entry
  <2>1. <<e>> \in Seq(Entry)
    OBVIOUS
  <2> QED
    BY <2>1 DEF Single, Messages
<1>2. ASSUME NEW p \in Seq(Entry) PROVE Singles(r, p) \in Seq(Messages) /\ Len(Singles(r, p)) = Len(p)
  <2>1. Singles(r, p) \in [1 .. Len(p) -> Messages]
    BY <1>1 DEF Singles
  <2> QED
    BY <2>1
<1>3. ASSUME NEW e \in Entry PROVE Singles(r, Append(q, e)) = Append(Singles(r, q), Single(r, e))
  <2>1. Append(q, e) \in Seq(Entry) /\ Len(Append(q, e)) = Len(q) + 1 /\ Len(q) \in Nat
    OBVIOUS
  <2>2. \A k \in 1 .. Len(q) + 1 : Singles(r, Append(q, e))[k] = Append(Singles(r, q), Single(r, e))[k]
    <3> TAKE k \in 1 .. Len(q) + 1
    <3>1. Singles(r, Append(q, e))[k] = Single(r, Append(q, e)[k])
      BY <2>1 DEF Singles
    <3>2. CASE k = Len(q) + 1
      BY <1>2, <3>1, <3>2
    <3>3. CASE k # Len(q) + 1
      <4>1. k \in 1 .. Len(q) /\ Append(q, e)[k] = q[k]
        BY <2>1, <3>3
      <4>2. Append(Singles(r, q), Single(r, e))[k] = Singles(r, q)[k]
        BY <1>2, <4>1
      <4>3. Singles(r, q)[k] = Single(r, q[k])
        BY <4>1 DEF Singles
      <4> QED
        BY <3>1, <4>1, <4>2, <4>3
    <3> QED
      BY <3>2, <3>3
  <2>3. /\ Singles(r, Append(q, e)) \in Seq(Messages) /\ Len(Singles(r, Append(q, e))) = Len(q) + 1
        /\ Append(Singles(r, q), Single(r, e)) \in Seq(Messages) /\ Len(Append(Singles(r, q), Single(r, e))) = Len(q) + 1
    <3>1. \A a \in Seq(Messages), m \in Messages : Append(a, m) \in Seq(Messages) /\ Len(Append(a, m)) = Len(a) + 1
      OBVIOUS
    <3> QED
      BY <1>1, <1>2, <2>1, <3>1
  <2> QED
    BY <2>2, <2>3, SeqEqual
<1>4. ASSUME NEW a \in Seq(Messages), NEW m \in Messages PROVE w \o Append(a, m) = Append(w \o a, m)
  OBVIOUS
<1>5. Singles(r, <<>>) = <<>>
  BY DEF Singles
<1>6. w \o <<>> = w /\ \A a \in Seq(Messages) : w \o a \in Seq(Messages)
  OBVIOUS
<1>7. Singles(r, q) \in Seq(Messages) /\ w \o Singles(r, q) \in Seq(Messages)
  BY <1>2, <1>6
<1>8. ASSUME NEW e \in Entry PROVE w \o Singles(r, Append(q, e)) = Append(w \o Singles(r, q), Single(r, e))
  BY <1>1, <1>3, <1>4, <1>7
<1> QED
  BY <1>5, <1>6, <1>7, <1>8

(* The messages w lead the viewer to the passings of race r, unless a snapshot is due (snap) or
   there have been more passings than are kept. *)
Leads(v, w, r, snap, last, ls) ==
  \E vs : Path(vs, v, w) /\ (~snap /\ last <= PerRace => vs[Len(w)] = Sees(r, Log!ToSet(EntriesIn(ls, r))))

RaceOrNone == LogRaces \cup {NoRace}

(* The invariant: types and limits; what waits has its timer, and a socket that sends another race
   than the one displayed has a snapshot to send or is about to be told; a viewer is led right. *)
LogTypes ==
  /\ lastSeq \in Nat /\ LogsSound(logs, lastSeq) /\ logLines \in 0 .. MaxLogLines
  /\ shownRace \in RaceOrNone /\ announced \in RaceOrNone /\ sockRace \in RaceOrNone /\ logView.race \in RaceOrNone
  /\ needSnapshot \in BOOLEAN /\ batchTimer \in BOOLEAN /\ queue \in Seq(Entry) /\ logWire \in Seq(Messages)

BatchInv ==
  /\ needSnapshot \/ queue # <<>> => batchTimer
  /\ wentBack \/ needSnapshot \/ sockRace = shownRace \/ announced # shownRace

ViewInv == Leads(logView, logWire \o Singles(sockRace, queue), sockRace, needSnapshot, lastSeq, logs)

LogInv == LogTypes /\ BatchInv /\ ViewInv

LEMMA LogInitially == Log!Init => LogInv
<1> HAVE Log!Init
<1>1. LogsSound(<<>>, 0)
  BY LogConstants DEF LogsSound
<1>2. LogTypes
  <2>1. LogsSound(logs, lastSeq) /\ lastSeq \in Nat
    BY <1>1 DEF Log!Init
  <2>2. logLines \in 0 .. MaxLogLines
    BY LogConstants DEF Log!Init
  <2>3. queue \in Seq(Entry) /\ logWire \in Seq(Messages)
    BY DEF Log!Init
  <2> QED
    BY <2>1, <2>2, <2>3 DEF Log!Init, LogTypes, RaceOrNone
<1>3. BatchInv
  BY DEF Log!Init, BatchInv
<1> DEFINE v == [race |-> NoRace, entries |-> <<>>]
           vs == [k \in {0} |-> v]
<1>4. Singles(NoRace, <<>>) = <<>> /\ logWire \o Singles(sockRace, queue) = <<>>
  <2>1. Singles(NoRace, <<>>) = <<>>
    BY DEF Singles
  <2>2. <<>> \o <<>> = <<>>
    OBVIOUS
  <2> QED
    BY <2>1, <2>2 DEF Log!Init
<1>5. EntriesIn(<<>>, NoRace) = <<>>
  <2>1. In(<<>>, NoRace) = 0
    <3>1. <<>> \in Seq(Ring) /\ Len(<<>>) = 0
      OBVIOUS
    <3>2. In(<<>>, NoRace) \in 0 .. 0
      BY <3>1, InIs
    <3> QED
      BY <3>2
  <2> QED
    BY <2>1 DEF EntriesIn
<1>6. Log!Sorted({}) = <<>>
  <2>1. {} \in SUBSET Entry /\ IsFiniteSet({}) /\ Distinct({}) /\ Cardinality({}) = 0
    BY FS_EmptySet DEF Distinct
  <2>2. Log!Sorted({}) \in Seq({}) /\ Len(Log!Sorted({})) = 0
    BY <2>1, SortedHas
  <2> QED
    BY <2>2
<1>7. Log!ToSet(<<>>) = {}
  BY DEF Log!ToSet
<1>8. Path(vs, v, <<>>) /\ vs[Len(<<>>)] = Sees(NoRace, Log!ToSet(EntriesIn(<<>>, NoRace)))
  <2>1. vs[0] = v /\ Len(<<>>) = 0
    OBVIOUS
  <2>2. Path(vs, v, <<>>)
    BY <2>1 DEF Path
  <2> QED
    BY <1>5, <1>6, <1>7, <2>1, <2>2 DEF Sees
<1>9. ViewInv
  BY <1>4, <1>8 DEF Log!Init, ViewInv, Leads
<1> QED
  BY <1>2, <1>3, <1>9 DEF LogInv

(* A passing that is new or changed. *)
LEMMA PassingLeads ==
  ASSUME LogTypes, ViewInv, NEW r \in LogRaces, NEW e \in Entry, Log!OnPassing(r, e),
         UNCHANGED <<logWire, logView>>, lastSeq' <= PerRace => lastSeq <= PerRace,
         lastSeq' <= PerRace =>
           Log!Placed(Log!Sorted(Log!ToSet(EntriesIn(logs, r))), e) = Log!Sorted(Log!ToSet(EntriesIn(logs', r)))
  PROVE  ViewInv' /\ queue' \in Seq(Entry) /\ needSnapshot' \in BOOLEAN /\ batchTimer'
         /\ (needSnapshot => needSnapshot') /\ sockRace' = sockRace
<1> DEFINE way == logWire \o Singles(sockRace, queue)
<1>1. way \in Seq(Messages)
  BY SinglesAre DEF LogTypes, RaceOrNone
<1>2. PICK vs : /\ Path(vs, logView, way)
                /\ ~needSnapshot /\ lastSeq <= PerRace => vs[Len(way)] = Sees(sockRace, Log!ToSet(EntriesIn(logs, sockRace)))
  BY DEF ViewInv, Leads
<1>3. sockRace' = sockRace /\ batchTimer'
  BY DEF Log!OnPassing
<1>4. CASE r = sockRace
  <2>1. queue' = Append(queue, e) /\ needSnapshot' = needSnapshot
    BY <1>4 DEF Log!OnPassing
  <2>2. logWire' \o Singles(sockRace', queue') = Append(way, Single(r, e))
    BY <1>3, <1>4, <2>1, SinglesAre DEF LogTypes, RaceOrNone
  <2> HIDE DEF way
  <2>3. PICK us : Path(us, logView, Append(way, Single(r, e))) /\ us[Len(way) + 1] = Log!Shown(vs[Len(way)], Single(r, e))
    BY <1>1, <1>2, PathAppended
  <2>4. Len(Append(way, Single(r, e))) = Len(way) + 1
    BY <1>1
  <2>5. ~needSnapshot' /\ lastSeq' <= PerRace => us[Len(way) + 1] = Sees(r, Log!ToSet(EntriesIn(logs', r)))
    <3> HAVE ~needSnapshot' /\ lastSeq' <= PerRace
    <3>1. vs[Len(way)] = Sees(r, Log!ToSet(EntriesIn(logs, r)))
      BY <1>2, <1>4, <2>1
    <3>2. us[Len(way) + 1] = [race |-> r, entries |-> Log!Placed(Log!Sorted(Log!ToSet(EntriesIn(logs, r))), e)]
      BY <2>3, <3>1, ViewerShows
    <3> QED
      BY <3>2 DEF Sees
  <2>6. Leads(logView', logWire' \o Singles(sockRace', queue'), sockRace', needSnapshot', lastSeq', logs')
    <3>1. Path(us, logView', Append(way, Single(r, e)))
      BY <2>3
    <3> QED
      BY <1>3, <1>4, <2>2, <2>4, <2>5, <3>1 DEF Leads
  <2>7. ViewInv'
    BY <2>6 DEF ViewInv
  <2> QED
    BY <1>3, <2>1, <2>7 DEF LogTypes
<1>5. CASE r # sockRace
  <2>1. queue' = queue /\ needSnapshot'
    BY <1>5 DEF Log!OnPassing
  <2>2. Leads(logView', logWire' \o Singles(sockRace', queue'), sockRace', needSnapshot', lastSeq', logs')
    BY <1>2, <1>3, <2>1 DEF Leads
  <2>3. needSnapshot' \in BOOLEAN
    BY <1>5 DEF Log!OnPassing
  <2> QED
    BY <1>3, <2>1, <2>2, <2>3 DEF LogTypes, ViewInv
<1> QED
  BY <1>4, <1>5

(* The step of a new passing, of a change of one. *)
LEMMA PassingInfoStep ==
  ASSUME LogInv, NEW who \in Riders, NEW t \in Times, Log!PassingInfo(who, t)
  PROVE  LogInv'
<1> DEFINE e == [seq |-> lastSeq + 1, rider |-> who, crossing |-> t, position |-> 0]
           r == shownRace
<1>1. /\ LogTypes /\ BatchInv /\ ViewInv /\ lastSeq \in Nat /\ LogsSound(logs, lastSeq)
      /\ r \in LogRaces /\ r # NoRace
  BY DEF LogInv, LogTypes, RaceOrNone, Log!PassingInfo
<1>2. e \in Entry /\ e.seq = lastSeq + 1
  BY <1>1, LogConstants DEF Entry
<1>3. /\ lastSeq' = lastSeq + 1 /\ logs' = Log!Appended(r, e) /\ Log!OnPassing(r, e)
      /\ UNCHANGED <<shownRace, announced, wentBack, logWire, logView>> /\ Log!Line
  BY DEF Log!PassingInfo
<1> HIDE DEF e
<1>4. /\ LogsSound(logs', lastSeq')
      /\ lastSeq' <= PerRace => Log!ToSet(EntriesIn(logs', r)) = Log!ToSet(EntriesIn(logs, r)) \cup {e}
  BY <1>1, <1>2, <1>3, AppendedIs
<1>5. lastSeq' <= PerRace => lastSeq <= PerRace
  BY <1>1, <1>3, LogConstants
<1>6. lastSeq' <= PerRace => Log!Placed(Log!Sorted(Log!ToSet(EntriesIn(logs, r))), e) = Log!Sorted(Log!ToSet(EntriesIn(logs', r)))
  <2> HAVE lastSeq' <= PerRace
  <2> DEFINE es == EntriesIn(logs, r)
             S == Log!ToSet(es)
  <2>1. EntriesSound(es, lastSeq)
    BY <1>1, EntriesOfRace
  <2> HIDE DEF es
  <2>2. S \in SUBSET Entry /\ IsFiniteSet(S) /\ Distinct(S) /\ Cardinality(S) \in Nat /\ Cardinality(S) <= lastSeq
    BY <1>1, <2>1, EntriesSet
  <2>3. \A f \in S : f.seq # e.seq
    <3>1. S = {es[i] : i \in 1 .. Len(es)}
      BY <2>1 DEF Log!ToSet, EntriesSound
    <3>2. \A i \in 1 .. Len(es) : es[i].seq \in 1 .. lastSeq
      BY <2>1 DEF EntriesSound
    <3> HIDE DEF S
    <3> QED
      BY <1>1, <1>2, <3>1, <3>2
  <2>4. Cardinality(S) + 1 <= PerRace
    BY <1>1, <1>3, <2>2, LogConstants
  <2> HIDE DEF S
  <2>5. Log!Placed(Log!Sorted(S), e) = Log!Sorted(S \cup {e})
    BY <1>2, <2>2, <2>3, <2>4, ViewerAdds
  <2> QED
    BY <1>4, <2>5 DEF S, es
<1>7. /\ ViewInv' /\ queue' \in Seq(Entry) /\ needSnapshot' \in BOOLEAN /\ batchTimer'
      /\ (needSnapshot => needSnapshot') /\ sockRace' = sockRace
  <2> HIDE DEF r
  <2> QED
    BY <1>1, <1>2, <1>3, <1>5, <1>6, PassingLeads
<1>8. LogTypes'
  <2>1. LogsSound(logs, lastSeq)'
    BY <1>4 DEF LogsSound, EntriesSound
  <2>2. logLines' \in 0 .. MaxLogLines
    BY <1>1, <1>3, LogConstants DEF Log!Line, LogTypes
  <2>3. batchTimer' \in BOOLEAN
    BY <1>3 DEF Log!OnPassing
  <2> QED
    BY <1>1, <1>3, <1>7, <2>1, <2>2, <2>3 DEF LogTypes, RaceOrNone
<1>9. BatchInv'
  BY <1>1, <1>3, <1>7 DEF BatchInv
<1> QED
  BY <1>7, <1>8, <1>9 DEF LogInv

LEMMA SetStep ==
  ASSUME LogInv, NEW i \in 1 .. Len(Log!Entries(shownRace)), NEW e \in Entry,
         e.seq = Log!Entries(shownRace)[i].seq, shownRace # NoRace, Log!Line, Log!Set(shownRace, i, e),
         UNCHANGED <<lastSeq, shownRace, announced, wentBack, logWire, logView>>
  PROVE  LogInv'
<1> DEFINE r == shownRace
           es == EntriesIn(logs, r)
           S == Log!ToSet(es)
           new == [es EXCEPT ![i] = e]
<1>1. /\ LogTypes /\ BatchInv /\ ViewInv /\ lastSeq \in Nat /\ LogsSound(logs, lastSeq)
      /\ r \in LogRaces
  BY DEF LogInv, LogTypes, RaceOrNone
<1>2. EntriesSound(es, lastSeq) /\ es = Log!Entries(r) /\ i \in 1 .. Len(es) /\ e.seq = es[i].seq
  BY <1>1, EntriesOfRace, InLogs
<1>3. EntriesSound(new, lastSeq) /\ Log!ToSet(new) = (S \ {es[i]}) \cup {e}
  <2>0. es \in Seq(Entry)
    BY <1>2 DEF EntriesSound
  <2> HIDE DEF es
  <2>1. new \in Seq(Entry) /\ Len(new) = Len(es) /\ new[i] = e /\ \A j \in 1 .. Len(es) : j # i => new[j] = es[j]
    BY <1>2, <2>0
  <2> HIDE DEF new
  <2> QED
    BY <1>1, <1>2, <2>1, EntryChanged
<1>4. In(logs, r) # 0 /\ es = logs[In(logs, r)].entries
  BY <1>2 DEF EntriesIn
<1>5. In(logs, r) \in 1 .. Len(logs) /\ logs \in Seq(Ring)
  BY <1>1, <1>4, InIs DEF LogsSound
<1>6. logs' = [logs EXCEPT ![In(logs, r)].entries = new] /\ Log!OnPassing(r, e)
  <2>1. logs' = [logs EXCEPT ![In(logs, r)].entries[i] = e] /\ Log!OnPassing(r, e)
    BY InLogs DEF Log!Set
  <2> QED
    BY <1>4, <1>5, <2>1
<1> HIDE DEF es, new
<1>7. LogsSound(logs', lastSeq) /\ EntriesIn(logs', r) = new
  <2> DEFINE p == In(logs, r)
             ls == [logs EXCEPT ![p].entries = new]
  <2>1. logs[p].race = r /\ logs[p] \in Ring /\ new \in Seq(Entry)
    BY <1>3, <1>4, <1>5, InIs DEF EntriesSound
  <2>2. p \in 1 .. Len(logs) /\ logs' = ls
    BY <1>5, <1>6
  <2> HIDE DEF p, r
  <2>3. /\ ls \in Seq(Ring) /\ Len(ls) = Len(logs) /\ ls[p].race = r /\ ls[p].entries = new
        /\ \A j \in 1 .. Len(logs) : j # p => ls[j] = logs[j]
    BY <1>5, <2>1, <2>2, RingReplaced
  <2> HIDE DEF ls
  <2>4. LogsSound(ls, lastSeq) /\ EntriesIn(ls, r) = new
    BY <1>1, <1>3, <1>4, <2>3, RingChanged DEF p
  <2> QED
    BY <2>2, <2>4
<1>8. Log!Placed(Log!Sorted(S), e) = Log!Sorted(Log!ToSet(EntriesIn(logs', r)))
  <2>1. S \in SUBSET Entry /\ IsFiniteSet(S) /\ Distinct(S)
    BY <1>1, <1>2, EntriesSet
  <2>2. es[i] \in S
    BY <1>2 DEF Log!ToSet, EntriesSound
  <2> HIDE DEF S
  <2> QED
    BY <1>2, <1>3, <1>7, <2>1, <2>2, ViewerChanges
<1>9. /\ ViewInv' /\ queue' \in Seq(Entry) /\ needSnapshot' \in BOOLEAN /\ batchTimer'
      /\ (needSnapshot => needSnapshot') /\ sockRace' = sockRace
  <2> HIDE DEF r
  <2> QED
    BY <1>1, <1>6, <1>8, PassingLeads DEF es
<1>10. LogTypes'
  <2>1. LogsSound(logs, lastSeq)'
    BY <1>7 DEF LogsSound, EntriesSound
  <2>2. logLines' \in 0 .. MaxLogLines
    BY <1>1, LogConstants DEF Log!Line, LogTypes
  <2>3. batchTimer' \in BOOLEAN
    BY <1>6 DEF Log!OnPassing
  <2> QED
    BY <1>1, <1>9, <2>1, <2>2, <2>3 DEF LogTypes, RaceOrNone
<1>11. BatchInv'
  BY <1>1, <1>9 DEF BatchInv
<1> QED
  BY <1>9, <1>10, <1>11 DEF LogInv

LEMMA ChangeSteps ==
  ASSUME LogInv, NEW who \in Riders, NEW t \in Times,
         Log!CorrectionLine(who, t) \/ \E p \in Positions : Log!RaceInfoLine(who, t, p)
  PROVE  LogInv'
<1> DEFINE r == shownRace
           es == Log!Entries(r)
<1>1. lastSeq \in Nat /\ LogsSound(logs, lastSeq)
  BY DEF LogInv, LogTypes
<1>2. es \in Seq(Entry) /\ Len(es) \in Nat
  BY <1>1, EntriesOfRace, InLogs
<1>3. /\ Log!Latest(r, who) \in 0 .. Len(es)
      /\ LatestRanked(es, who) \in 0 .. Len(es)
  BY <1>2, LatestIs
<1>4. \A i \in 1 .. Len(es) : es[i] \in Entry
  BY <1>2
<1>5. CASE Log!CorrectionLine(who, t)
  <2> DEFINE i == LatestRanked(es, who)
             e == [es[i] EXCEPT !.crossing = t]
  <2>1. /\ Log!Line /\ r # NoRace /\ i # 0 /\ Log!Set(r, i, e)
        /\ UNCHANGED <<lastSeq, shownRace, announced, wentBack, logWire, logView>>
    BY <1>5 DEF Log!CorrectionLine, LatestRanked
  <2>2. i \in 1 .. Len(es)
    <3>1. i \in 0 .. Len(es)
      BY <1>3
    <3> HIDE DEF i
    <3> QED
      BY <1>2, <2>1, <3>1
  <2> HIDE DEF i
  <2>3. e \in Entry /\ e.seq = es[i].seq
    BY <1>4, <2>2, LogConstants DEF Entry
  <2> HIDE DEF e
  <2> QED
    BY <2>1, <2>2, <2>3, SetStep
<1>6. ASSUME NEW p \in Positions, Log!RaceInfoLine(who, t, p) PROVE LogInv'
  <2> DEFINE i == Log!Latest(r, who)
             e == [es[i] EXCEPT !.position = p]
  <2>1. /\ Log!Line /\ r # NoRace /\ i # 0 /\ Log!Set(r, i, e)
        /\ UNCHANGED <<lastSeq, shownRace, announced, wentBack, logWire, logView>>
    BY <1>6 DEF Log!RaceInfoLine
  <2> HIDE DEF i
  <2>2. i \in 1 .. Len(es)
    BY <1>2, <1>3, <2>1 DEF i
  <2>3. e \in Entry /\ e.seq = es[i].seq
    BY <1>4, <2>2 DEF Entry
  <2> HIDE DEF e
  <2> QED
    BY <2>1, <2>2, <2>3, SetStep
<1> QED
  BY <1>5, <1>6

(* Another race is displayed, the stream announces it, or all is cleared. *)
LEMMA ShowsRaceStep ==
  ASSUME LogInv, (\E r \in LogRaces : Log!ShowRace(r)) \/ Log!AnnounceRace \/ Log!ClearLog
  PROVE  LogInv'
<1>1. LogTypes /\ BatchInv /\ ViewInv
  BY DEF LogInv
<1>2. PICK vs : /\ Path(vs, logView, logWire \o Singles(sockRace, queue))
                /\ ~needSnapshot /\ lastSeq <= PerRace =>
                     vs[Len(logWire \o Singles(sockRace, queue))] = Sees(sockRace, Log!ToSet(EntriesIn(logs, sockRace)))
  BY <1>1 DEF ViewInv, Leads
<1>3. ASSUME NEW r \in LogRaces, Log!ShowRace(r) PROVE LogInv'
  <2>1. /\ shownRace' = r /\ wentBack' = (wentBack \/ r = announced) /\ logLines < MaxLogLines /\ logLines' = logLines + 1
        /\ UNCHANGED <<logs, lastSeq, announced, sockRace, queue, needSnapshot, batchTimer, logWire, logView>>
    BY <1>3 DEF Log!ShowRace, Log!Line, Log!sockVars
  <2>2. LogTypes'
    BY <1>1, <2>1, LogConstants DEF LogTypes, RaceOrNone, LogsSound, EntriesSound
  <2>3. BatchInv'
    BY <1>1, <2>1 DEF BatchInv
  <2>4. ViewInv'
    BY <1>1, <2>1 DEF ViewInv
  <2> QED
    BY <2>2, <2>3, <2>4 DEF LogInv
<1>4. ASSUME Log!AnnounceRace PROVE LogInv'
  <2>1. /\ announced' = shownRace
        /\ UNCHANGED <<logs, lastSeq, shownRace, wentBack, sockRace, queue, logWire, logView, logLines>>
        /\ \/ shownRace # sockRace /\ needSnapshot' /\ batchTimer' /\ needSnapshot' \in BOOLEAN /\ batchTimer' \in BOOLEAN
           \/ shownRace = sockRace /\ UNCHANGED <<needSnapshot, batchTimer>>
    BY <1>4 DEF Log!AnnounceRace
  <2>2. LogTypes'
    BY <1>1, <2>1 DEF LogTypes, RaceOrNone, LogsSound, EntriesSound
  <2>3. BatchInv'
    BY <1>1, <2>1 DEF BatchInv
  <2>4. ViewInv'
    BY <1>2, <2>1 DEF ViewInv, Leads
  <2> QED
    BY <2>2, <2>3, <2>4 DEF LogInv
<1>5. ASSUME Log!ClearLog PROVE LogInv'
  <2>1. /\ logs' = <<>> /\ shownRace' = NoRace /\ announced' = NoRace
        /\ needSnapshot' /\ batchTimer' /\ needSnapshot' \in BOOLEAN /\ batchTimer' \in BOOLEAN
        /\ UNCHANGED <<lastSeq, wentBack, sockRace, queue, logWire, logView>>
        /\ logLines < MaxLogLines /\ logLines' = logLines + 1
    BY <1>5 DEF Log!ClearLog, Log!Line
  <2>2. LogTypes'
    <3>1. LogsSound(<<>>, lastSeq)
      BY LogConstants DEF LogsSound
    <3>2. LogsSound(logs, lastSeq)'
      BY <2>1, <3>1
    <3> QED
      BY <1>1, <2>1, <3>2, LogConstants DEF LogTypes, RaceOrNone
  <2>3. BatchInv'
    BY <1>1, <2>1 DEF BatchInv
  <2>4. ViewInv'
    BY <1>2, <2>1 DEF ViewInv, Leads
  <2> QED
    BY <2>2, <2>3, <2>4 DEF LogInv
<1> QED
  BY <1>3, <1>4, <1>5

(* list() as a message. *)
LEMMA AllIs ==
  ASSUME LogTypes, NEW v
  PROVE  /\ Log!All \in Messages
         /\ Log!Shown(v, Log!All) = Sees(shownRace, Log!ToSet(EntriesIn(logs, shownRace)))
<1> DEFINE es == EntriesIn(logs, shownRace)
           S == Log!ToSet(es)
<1>1. lastSeq \in Nat /\ EntriesSound(es, lastSeq)
  BY EntriesOfRace DEF LogTypes
<1> HIDE DEF es
<1>2. S \in SUBSET Entry /\ IsFiniteSet(S) /\ Distinct(S)
  BY <1>1, EntriesSet
<1> HIDE DEF S
<1>3. Log!Sorted(S) \in Seq(Entry)
  <2>1. Log!Sorted(S) \in Seq(S)
    BY <1>2, SortedHas
  <2> QED
    BY <1>2, <2>1
<1>4. Log!All = [type |-> "passings", race |-> shownRace, entries |-> Log!Sorted(S)]
  BY InLogs DEF Log!All, S, es
<1>5. Log!All \in Messages
  BY <1>3, <1>4 DEF Messages, LogTypes, RaceOrNone
<1>6. Log!Shown(v, Log!All) = [race |-> shownRace, entries |-> Log!Sorted(S)]
  BY <1>4 DEF Log!Shown
<1> QED
  BY <1>5, <1>6 DEF Sees, S, es

LEMMA FlushStep == LogInv /\ Log!FlushBatch => LogInv'
<1> SUFFICES ASSUME LogInv, Log!FlushBatch PROVE LogInv'
  OBVIOUS
<1> DEFINE way == logWire \o Singles(sockRace, queue)
<1>1. LogTypes /\ BatchInv /\ ViewInv /\ logWire \in Seq(Messages)
  BY DEF LogInv, LogTypes
<1>2. PICK vs : /\ Path(vs, logView, way)
                /\ ~needSnapshot /\ lastSeq <= PerRace => vs[Len(way)] = Sees(sockRace, Log!ToSet(EntriesIn(logs, sockRace)))
  BY <1>1 DEF ViewInv, Leads
<1>3. /\ batchTimer' = FALSE /\ needSnapshot' = FALSE /\ queue' = <<>>
      /\ UNCHANGED <<logs, lastSeq, shownRace, announced, logView, logLines>>
      /\ \/ sockRace' = shownRace /\ logWire' = Append(logWire, Log!All) /\ wentBack' = FALSE
         \/ /\ ~needSnapshot /\ shownRace = sockRace
            /\ UNCHANGED <<sockRace, wentBack>> /\ logWire' = way
  BY DEF Log!FlushBatch, Singles, Single
<1>4. /\ Singles(sockRace, queue) \in Seq(Messages) /\ way \in Seq(Messages)
      /\ \A w \in Seq(Messages), r \in RaceOrNone : w \o Singles(r, <<>>) = w
  <2>1. sockRace \in LogRaces \cup {NoRace} /\ queue \in Seq(Entry) /\ <<>> \in Seq(Entry)
    BY <1>1 DEF LogTypes, RaceOrNone
  <2> QED
    BY <1>1, <2>1, SinglesAre DEF RaceOrNone
<1> HIDE DEF way
<1>5. CASE sockRace' = shownRace /\ logWire' = Append(logWire, Log!All) /\ wentBack' = FALSE
  <2>1. Log!All \in Messages
    BY <1>1, AllIs
  <2>2. LogTypes'
    <3>1. logWire' \in Seq(Messages) /\ queue' \in Seq(Entry) /\ LogsSound(logs, lastSeq)'
      BY <1>1, <1>3, <1>5, <2>1 DEF LogTypes
    <3> QED
      BY <1>1, <1>3, <1>5, <3>1 DEF LogTypes
  <2>3. BatchInv'
    BY <1>3, <1>5 DEF BatchInv
  <2>4. Path(vs, logView, logWire)
    BY <1>1, <1>2, <1>4, PathFront DEF way
  <2>5. PICK us : Path(us, logView, Append(logWire, Log!All)) /\ us[Len(logWire) + 1] = Log!Shown(vs[Len(logWire)], Log!All)
    BY <1>1, <2>4, PathAppended
  <2>6. us[Len(logWire) + 1] = Sees(shownRace, Log!ToSet(EntriesIn(logs, shownRace)))
    BY <1>1, <2>5, AllIs
  <2>7. Append(logWire, Log!All) \in Seq(Messages) /\ Len(Append(logWire, Log!All)) = Len(logWire) + 1
    BY <1>1, <2>1
  <2>8. logWire' \o Singles(sockRace', queue') = Append(logWire, Log!All)
    BY <1>1, <1>3, <1>4, <1>5, <2>7 DEF LogTypes
  <2>9. Leads(logView', logWire' \o Singles(sockRace', queue'), sockRace', needSnapshot', lastSeq', logs')
    <3>1. Leads(logView, Append(logWire, Log!All), shownRace, FALSE, lastSeq, logs)
      BY <2>5, <2>6, <2>7 DEF Leads
    <3> QED
      BY <1>3, <1>5, <2>8, <3>1
  <2>10. ViewInv'
    BY <2>9 DEF ViewInv
  <2> QED
    BY <2>2, <2>3, <2>10 DEF LogInv
<1>6. CASE ~needSnapshot /\ shownRace = sockRace /\ UNCHANGED <<sockRace, wentBack>> /\ logWire' = way
  <2>2. LogTypes'
    <3>1. logWire' \in Seq(Messages) /\ queue' \in Seq(Entry) /\ LogsSound(logs, lastSeq)'
      BY <1>1, <1>3, <1>4, <1>6 DEF LogTypes
    <3> QED
      BY <1>1, <1>3, <1>6, <3>1 DEF LogTypes
  <2>3. BatchInv'
    BY <1>3, <1>6 DEF BatchInv
  <2>8. logWire' \o Singles(sockRace', queue') = way
    BY <1>1, <1>3, <1>4, <1>6 DEF LogTypes
  <2>9. Leads(logView', logWire' \o Singles(sockRace', queue'), sockRace', needSnapshot', lastSeq', logs')
    <3>1. Leads(logView, way, sockRace, FALSE, lastSeq, logs)
      BY <1>2, <1>6 DEF Leads
    <3> QED
      BY <1>3, <1>6, <2>8, <3>1
  <2>10. ViewInv'
    BY <2>9 DEF ViewInv
  <2> QED
    BY <2>2, <2>3, <2>10 DEF LogInv
<1> QED
  BY <1>3, <1>5, <1>6

LEMMA ShowMessageStep == LogInv /\ Log!ShowMessage => LogInv'
<1> SUFFICES ASSUME LogInv, Log!ShowMessage PROVE LogInv'
  OBVIOUS
<1> DEFINE more == Singles(sockRace, queue)
           way == logWire \o more
<1>1. LogTypes /\ BatchInv /\ ViewInv /\ logWire \in Seq(Messages)
  BY DEF LogInv, LogTypes
<1>2. PICK vs : /\ Path(vs, logView, way)
                /\ ~needSnapshot /\ lastSeq <= PerRace => vs[Len(way)] = Sees(sockRace, Log!ToSet(EntriesIn(logs, sockRace)))
  BY <1>1 DEF ViewInv, Leads
<1>3. /\ logWire # <<>> /\ logView' = Log!Shown(logView, Head(logWire)) /\ logWire' = Tail(logWire)
      /\ UNCHANGED <<logs, lastSeq, shownRace, announced, wentBack, sockRace, queue, needSnapshot, batchTimer, logLines>>
  BY DEF Log!ShowMessage, Log!sockVars
<1>4. more \in Seq(Messages) /\ way \in Seq(Messages)
  <2>1. sockRace \in LogRaces \cup {NoRace} /\ queue \in Seq(Entry)
    BY <1>1 DEF LogTypes, RaceOrNone
  <2> QED
    BY <1>1, <2>1, SinglesAre
<1>5. /\ way # <<>> /\ Head(way) = Head(logWire) /\ Tail(way) = Tail(logWire) \o more /\ Len(Tail(way)) = Len(way) - 1
      /\ Tail(logWire) \in Seq(Messages) /\ Head(logWire) \in Messages
  <2> HIDE DEF more
  <2> QED
    BY <1>1, <1>3, <1>4
<1>6. logView'.race \in RaceOrNone
  <2>1. Head(logWire).race \in RaceOrNone /\ logView.race \in RaceOrNone
    BY <1>1, <1>5 DEF Messages, RaceOrNone, LogTypes
  <2>2. \A v, m : Log!Shown(v, m).race = v.race \/ Log!Shown(v, m).race = m.race
    <3> TAKE v, m
    <3>1. CASE m.type = "passings"
      BY <3>1 DEF Log!Shown
    <3>2. CASE m.type # "passings" /\ v.race # m.race
      BY <3>2 DEF Log!Shown
    <3>3. CASE m.type # "passings" /\ v.race = m.race
      <4>1. Log!Shown(v, m) = [v EXCEPT !.entries = Log!Placed(@, m.entries[1])]
        BY <3>3 DEF Log!Shown
      <4> QED
        BY <4>1
    <3> QED
      BY <3>1, <3>2, <3>3
  <2> QED
    BY <1>3, <2>1, <2>2
<1>7. LogTypes'
  BY <1>1, <1>3, <1>5, <1>6 DEF LogTypes, RaceOrNone, LogsSound, EntriesSound
<1>8. BatchInv'
  BY <1>1, <1>3 DEF BatchInv
<1>9. logWire' \o Singles(sockRace', queue') = Tail(way)
  BY <1>3, <1>5
<1> HIDE DEF way
<1>10. PICK us : Path(us, logView', Tail(way)) /\ us[Len(way) - 1] = vs[Len(way)]
  BY <1>2, <1>3, <1>4, <1>5, PathShifted
<1>11. Leads(logView', Tail(way), sockRace, needSnapshot, lastSeq, logs)
  BY <1>2, <1>5, <1>10 DEF Leads
<1>12. ViewInv'
  <2>1. Leads(logView', logWire' \o Singles(sockRace', queue'), sockRace', needSnapshot', lastSeq', logs')
    BY <1>3, <1>9, <1>11
  <2> QED
    BY <2>1 DEF ViewInv
<1> QED
  BY <1>7, <1>8, <1>12 DEF LogInv

LEMMA ReopenStep == LogInv /\ Log!ReopenLog => LogInv'
<1> SUFFICES ASSUME LogInv, Log!ReopenLog PROVE LogInv'
  OBVIOUS
<1>1. LogTypes
  BY DEF LogInv
<1>2. /\ sockRace' = shownRace /\ queue' = <<>> /\ needSnapshot' = FALSE /\ batchTimer' = FALSE /\ wentBack' = FALSE
      /\ logWire' = <<Log!All>> /\ UNCHANGED <<logs, lastSeq, shownRace, announced, logView>>
      /\ logLines < MaxLogLines /\ logLines' = logLines + 1
  BY DEF Log!ReopenLog, Log!Line
<1>3. Log!All \in Messages /\ Log!Shown(logView, Log!All) = Sees(shownRace, Log!ToSet(EntriesIn(logs, shownRace)))
  BY <1>1, AllIs
<1>4. <<Log!All>> \in Seq(Messages) /\ Len(<<Log!All>>) = 1 /\ <<Log!All>>[1] = Log!All
  BY <1>3
<1>5. LogTypes'
  <2>1. logWire' \in Seq(Messages) /\ queue' \in Seq(Entry) /\ LogsSound(logs, lastSeq)'
    BY <1>1, <1>2, <1>4 DEF LogTypes
  <2>2. logLines' \in 0 .. MaxLogLines
    BY <1>1, <1>2, LogConstants DEF LogTypes
  <2> QED
    BY <1>1, <1>2, <2>1, <2>2 DEF LogTypes
<1>6. BatchInv'
  BY <1>2 DEF BatchInv
<1> DEFINE vs == [k \in 0 .. 1 |-> IF k = 0 THEN logView ELSE Log!Shown(logView, Log!All)]
<1>7. vs[0] = logView /\ vs[1] = Log!Shown(logView, Log!All)
  OBVIOUS
<1> HIDE DEF vs
<1>8. Path(vs, logView, <<Log!All>>)
  <2>1. \A k \in 1 .. 1 : k = 1 /\ k - 1 = 0
    OBVIOUS
  <2> QED
    BY <1>4, <1>7, <2>1 DEF Path
<1>9. Leads(logView, <<Log!All>>, shownRace, FALSE, lastSeq, logs)
  BY <1>3, <1>4, <1>7, <1>8 DEF Leads
<1>10. logWire' \o Singles(sockRace', queue') = <<Log!All>>
  <2>1. shownRace \in LogRaces \cup {NoRace} /\ <<>> \in Seq(Entry)
    BY <1>1 DEF LogTypes, RaceOrNone
  <2> QED
    BY <1>2, <1>4, <2>1, SinglesAre
<1>11. ViewInv'
  <2>1. Leads(logView', logWire' \o Singles(sockRace', queue'), sockRace', needSnapshot', lastSeq', logs')
    BY <1>2, <1>9, <1>10
  <2> QED
    BY <2>1 DEF ViewInv
<1> QED
  BY <1>5, <1>6, <1>11 DEF LogInv

LEMMA LogInductive ==
  ASSUME LogInv, [Log!Next]_(Log!logVars)
  PROVE  LogInv'
<1>1. CASE UNCHANGED Log!logVars
  <2>1. UNCHANGED <<logs, lastSeq, shownRace, announced, wentBack, sockRace, queue, needSnapshot, batchTimer,
                    logWire, logView, logLines>>
    BY <1>1 DEF Log!logVars, Log!sockVars
  <2>2. LogTypes /\ BatchInv /\ ViewInv
    BY DEF LogInv
  <2>3. LogTypes'
    BY <2>1, <2>2 DEF LogTypes, RaceOrNone, LogsSound, EntriesSound
  <2>4. BatchInv'
    BY <2>1, <2>2 DEF BatchInv
  <2>5. ViewInv'
    <3>1. Leads(logView', logWire' \o Singles(sockRace', queue'), sockRace', needSnapshot', lastSeq', logs')
      BY <2>1, <2>2 DEF ViewInv
    <3> QED
      BY <3>1 DEF ViewInv
  <2> QED
    BY <2>3, <2>4, <2>5 DEF LogInv
<1>2. CASE Log!Next
  <2>1. CASE \E who \in Riders, t \in Times :
               Log!PassingInfo(who, t) \/ Log!CorrectionLine(who, t) \/ \E p \in Positions : Log!RaceInfoLine(who, t, p)
    BY <2>1, PassingInfoStep, ChangeSteps
  <2>2. CASE (\E r \in LogRaces : Log!ShowRace(r)) \/ Log!AnnounceRace \/ Log!ClearLog
    BY <2>2, ShowsRaceStep
  <2>3. CASE Log!FlushBatch \/ Log!ShowMessage \/ Log!ReopenLog
    BY <2>3, FlushStep, ShowMessageStep, ReopenStep
  <2> QED
    BY <1>2, <2>1, <2>2, <2>3 DEF Log!Next
<1> QED
  BY <1>1, <1>2

LEMMA LogInvImplies == LogInv => Log!TypeOK /\ Log!LogComplete
<1> SUFFICES ASSUME LogInv PROVE Log!TypeOK /\ Log!LogComplete
  OBVIOUS
<1>1. LogTypes /\ BatchInv /\ ViewInv
  BY DEF LogInv
<1>2. Log!TypeOK
  <2>1. \A i \in 1 .. Len(logs) : logs[i].race \in LogRaces /\ Len(logs[i].entries) <= PerRace
    <3> TAKE i \in 1 .. Len(logs)
    <3>1. logs \in Seq(Ring) /\ EntriesSound(logs[i].entries, lastSeq)
      BY <1>1 DEF LogTypes, LogsSound
    <3>2. logs[i] \in Ring
      BY <3>1
    <3> QED
      BY <3>1, <3>2 DEF EntriesSound, Ring
  <2>2. DOMAIN logs = 1 .. Len(logs) /\ Len(logs) <= MaxLogRaces
    BY <1>1 DEF LogTypes, LogsSound
  <2> QED
    BY <1>1, <2>1, <2>2 DEF LogTypes, Log!TypeOK, RaceOrNone
<1>3. Log!LogComplete
  <2> SUFFICES ASSUME ~batchTimer, announced = shownRace, ~wentBack, lastSeq <= PerRace
               PROVE  Log!Views[Len(logWire)] = [race |-> shownRace, entries |-> Log!List(shownRace)]
    BY DEF Log!LogComplete
  <2>1. ~needSnapshot /\ queue = <<>> /\ sockRace = shownRace
    BY <1>1 DEF BatchInv, LogTypes
  <2>2. logWire \o Singles(sockRace, queue) = logWire /\ logWire \in Seq(Messages)
    <3>1. sockRace \in LogRaces \cup {NoRace} /\ queue \in Seq(Entry) /\ logWire \in Seq(Messages)
      BY <1>1 DEF LogTypes, RaceOrNone
    <3> QED
      BY <2>1, <3>1, SinglesAre
  <2>3. PICK vs : Path(vs, logView, logWire) /\ vs[Len(logWire)] = Sees(shownRace, Log!ToSet(EntriesIn(logs, shownRace)))
    BY <1>1, <2>1, <2>2 DEF ViewInv, Leads
  <2>4. Log!Views[Len(logWire)] = vs[Len(logWire)]
    BY <2>2, <2>3, ViewsArePath
  <2> QED
    BY <2>3, <2>4, InLogs DEF Sees
<1> QED
  BY <1>2, <1>3

-----------------------------------------------------------------------------
(* The bytes of a P3 decoder.  To cut the bytes that have come, and what is left of them with those that
   come next, is to cut them all at once; so what has been told, and what the bytes still on their way
   will tell, is always what was meant. *)

Byte == 0 .. 255
Nothing == [rest |-> <<>>, events |-> <<>>]

(* What callbacks are told. *)
Told == {Bytes!Dispatch(f)[1] : f \in Seq(Byte)}

(* A frame tells one event or none. *)
LEMMA PassingTells == \A fs : Bytes!PassingOf(fs) = <<>> \/ \E x : Bytes!PassingOf(fs) = <<x>>
  BY DEF Bytes!PassingOf
LEMMA StatusTells == \A fs : Bytes!StatusOf(fs) = <<>> \/ \E x : Bytes!StatusOf(fs) = <<x>>
  BY DEF Bytes!StatusOf
LEMMA VersionTells == \A fs : Bytes!VersionOf(fs) = <<>> \/ \E x : Bytes!VersionOf(fs) = <<x>>
  BY DEF Bytes!VersionOf
LEMMA DispatchTells ==
  ASSUME NEW f \in Seq(Byte)
  PROVE  Bytes!Dispatch(f) \in Seq(Told)
<1>1. Bytes!Dispatch(f) = <<>> \/ \E x : Bytes!Dispatch(f) = <<x>>
  BY PassingTells, StatusTells, VersionTells DEF Bytes!Dispatch
<1>2. ASSUME NEW x, Bytes!Dispatch(f) = <<x>>
      PROVE  Bytes!Dispatch(f) \in Seq(Told)
  <2>1. x \in Told
    BY <1>2 DEF Told
  <2> QED
    BY <1>2, <2>1
<1>3. <<>> \in Seq(Told)
  OBVIOUS
<1> QED
  BY <1>1, <1>2, <1>3

(* One turn of the loop, and what the loop does. *)
CutBody(b, cut, from) ==
  LET s == Bytes!First(Bytes!StartsFrom(b, from))
      e == Bytes!First(Bytes!EndsAfter(b, s))
  IN IF Bytes!StartsFrom(b, from) = {} THEN Nothing
     ELSE IF Bytes!EndsAfter(b, s) = {} THEN [rest |-> SubSeq(b, s, Len(b)), events |-> <<>>]
     ELSE [rest |-> cut[e + 1].rest, events |-> Bytes!Dispatch(SubSeq(b, s, e)) \o cut[e + 1].events]

Cuts(b, cut) == cut = [from \in 1 .. Len(b) + 1 |-> CutBody(b, cut, from)]

LEMMA CutFromIs == ASSUME NEW b PROVE Bytes!CutFrom(b) = CHOOSE cut : Cuts(b, cut)
  BY DEF Bytes!CutFrom, Cuts, CutBody, Nothing

(* The first of some positions. *)
LEMMA FirstIs ==
  ASSUME NEW S \in SUBSET Nat, S # {}
  PROVE  Bytes!First(S) \in S /\ \A j \in S : Bytes!First(S) <= j
BY LeastNatural DEF Bytes!First

LEMMA FirstEquals ==
  ASSUME NEW S \in SUBSET Nat, NEW x \in S, \A j \in S : x <= j
  PROVE  Bytes!First(S) = x
<1>1. Bytes!First(S) \in S /\ \A j \in S : Bytes!First(S) <= j
  BY FirstIs
<1>2. Bytes!First(S) <= x /\ x <= Bytes!First(S) /\ Bytes!First(S) \in Nat /\ x \in Nat
  BY <1>1
<1> QED
  BY <1>2

(* Where the loop goes on, it does so further on. *)
LEMMA GoesOn ==
  ASSUME NEW b \in Seq(Byte), NEW from \in 1 .. Len(b) + 1, Bytes!StartsFrom(b, from) # {},
         NEW s, s = Bytes!First(Bytes!StartsFrom(b, from))
  PROVE  /\ s \in from .. Len(b) /\ b[s] = Bytes!START /\ \A i \in from .. s - 1 : b[i] # Bytes!START
         /\ \A e : e = Bytes!First(Bytes!EndsAfter(b, s)) /\ Bytes!EndsAfter(b, s) # {} =>
              /\ e \in s + 1 .. Len(b) /\ b[e] = Bytes!END /\ \A i \in s + 1 .. e - 1 : b[i] # Bytes!END
<1>1. Len(b) \in Nat /\ Bytes!StartsFrom(b, from) \in SUBSET Nat
  BY DEF Bytes!StartsFrom
<1>2. s \in Bytes!StartsFrom(b, from) /\ \A j \in Bytes!StartsFrom(b, from) : s <= j
  BY <1>1, FirstIs
<1>3. s \in from .. Len(b) /\ b[s] = Bytes!START
  BY <1>2 DEF Bytes!StartsFrom
<1>4. ASSUME NEW i \in from .. s - 1
      PROVE b[i] # Bytes!START
  <2>1. i \in from .. Len(b) /\ ~(s <= i)
    BY <1>1, <1>3
  <2> QED
    BY <1>2, <2>1 DEF Bytes!StartsFrom
<1>5. ASSUME NEW e, e = Bytes!First(Bytes!EndsAfter(b, s)), Bytes!EndsAfter(b, s) # {}
      PROVE  e \in s + 1 .. Len(b) /\ b[e] = Bytes!END /\ \A i \in s + 1 .. e - 1 : b[i] # Bytes!END
  <2>1. Bytes!EndsAfter(b, s) \in SUBSET Nat
    BY <1>1, <1>3 DEF Bytes!EndsAfter
  <2>2. e \in Bytes!EndsAfter(b, s) /\ \A j \in Bytes!EndsAfter(b, s) : e <= j
    BY <1>5, <2>1, FirstIs
  <2>3. e \in s + 1 .. Len(b) /\ b[e] = Bytes!END
    BY <2>2 DEF Bytes!EndsAfter
  <2>4. ASSUME NEW i \in s + 1 .. e - 1
        PROVE b[i] # Bytes!END
    <3>1. i \in s + 1 .. Len(b) /\ ~(e <= i)
      BY <1>1, <1>3, <2>3
    <3> QED
      BY <2>2, <3>1 DEF Bytes!EndsAfter
  <2> QED
    BY <2>3, <2>4
<1> QED
  BY <1>3, <1>4, <1>5

(* So its turns depend on later ones only. *)
LEMMA BodyDepends ==
  ASSUME NEW b \in Seq(Byte), NEW from \in 1 .. Len(b) + 1, NEW f, NEW g,
         \A i \in from + 1 .. Len(b) + 1 : f[i] = g[i]
  PROVE  CutBody(b, f, from) = CutBody(b, g, from)
<1> DEFINE s == Bytes!First(Bytes!StartsFrom(b, from))
           e == Bytes!First(Bytes!EndsAfter(b, s))
<1>1. CASE Bytes!StartsFrom(b, from) = {}
  BY <1>1 DEF CutBody
<1>2. CASE Bytes!StartsFrom(b, from) # {} /\ Bytes!EndsAfter(b, s) = {}
  BY <1>2 DEF CutBody
<1>3. CASE Bytes!StartsFrom(b, from) # {} /\ Bytes!EndsAfter(b, s) # {}
  <2>1. s \in from .. Len(b) /\ e \in s + 1 .. Len(b)
    BY <1>3, GoesOn
  <2>2. Len(b) \in Nat /\ e + 1 \in from + 1 .. Len(b) + 1
    BY <2>1
  <2>3. f[e + 1] = g[e + 1]
    BY <2>2
  <2> QED
    BY <1>3, <2>3 DEF CutBody
<1> QED
  BY <1>1, <1>2, <1>3

(* There is such a function: it is made from the end of the bytes to their beginning. *)
LEMMA CutExists ==
  ASSUME NEW b \in Seq(Byte)
  PROVE  \E cut : Cuts(b, cut)
<1> DEFINE N == Len(b) + 1
           Made(n, g) == DOMAIN g = 1 .. N /\ \A from \in N - n + 1 .. N : g[from] = CutBody(b, g, from)
           D == {n \in 0 .. N : ~\E g : Made(n, g)}
<1>1. N \in Nat \ {0}
  OBVIOUS
<1>2. D = {}
  <2> SUFFICES ASSUME D # {} PROVE FALSE
    OBVIOUS
  <2>1. PICK n \in D : \A m \in D : n <= m
    <3>1. D \in SUBSET Nat
      BY <1>1
    <3> HIDE DEF D
    <3> QED
      BY <3>1, LeastNatural
  <2>2. Made(0, [from \in 1 .. N |-> Nothing])
    BY <1>1
  <2>3. n \in 1 .. N /\ n - 1 \in 0 .. N /\ ~(n <= n - 1)
    BY <1>1, <2>1, <2>2
  <2>4. PICK g : Made(n - 1, g)
    BY <2>1, <2>3
  <2> DEFINE p == N - n + 1
             h == [g EXCEPT ![p] = CutBody(b, g, p)]
  <2>5. p \in 1 .. N /\ \A from \in p + 1 .. N : from \in N - (n - 1) + 1 .. N
    BY <1>1, <2>3
  <2>6. DOMAIN h = 1 .. N /\ h[p] = CutBody(b, g, p) /\ \A from \in 1 .. N : from # p => h[from] = g[from]
    BY <2>4, <2>5
  <2>7. ASSUME NEW from \in p .. N
        PROVE  h[from] = CutBody(b, h, from)
    <3>1. from \in 1 .. Len(b) + 1 /\ p \in Nat /\ from \in Nat
      BY <1>1, <2>5
    <3>2. \A i \in from + 1 .. Len(b) + 1 : g[i] = h[i]
      BY <1>1, <2>6, <3>1
    <3> HIDE DEF h
    <3>3. CutBody(b, h, from) = CutBody(b, g, from)
      BY <3>1, <3>2, BodyDepends
    <3>4. CASE from = p
      BY <2>6, <3>3, <3>4
    <3>5. CASE from # p
      <4>1. from \in p + 1 .. N
        BY <3>1, <3>5
      <4>2. g[from] = CutBody(b, g, from)
        BY <2>4, <2>5, <4>1
      <4> QED
        BY <2>6, <3>1, <3>3, <3>5, <4>2
    <3> QED
      BY <3>4, <3>5
  <2>8. Made(n, h)
    <3> HIDE DEF h
    <3> QED
      BY <2>6, <2>7
  <2> QED
    BY <2>1, <2>8
<1>3. PICK g : Made(N, g)
  BY <1>1, <1>2
<1> DEFINE h == [from \in 1 .. Len(b) + 1 |-> g[from]]
<1>4. ASSUME NEW from \in 1 .. Len(b) + 1
      PROVE  h[from] = CutBody(b, h, from)
  <2>1. g[from] = CutBody(b, g, from)
    BY <1>1, <1>3
  <2>2. \A i \in from + 1 .. Len(b) + 1 : g[i] = h[i]
    BY <1>1
  <2>3. h[from] = g[from]
    OBVIOUS
  <2> HIDE DEF h
  <2> QED
    BY <2>1, <2>2, <2>3, BodyDepends
<1>5. h = [from \in 1 .. Len(b) + 1 |-> h[from]]
  OBVIOUS
<1> HIDE DEF h
<1>6. h = [from \in 1 .. Len(b) + 1 |-> CutBody(b, h, from)]
  BY <1>4, <1>5
<1> QED
  BY <1>6 DEF Cuts

LEMMA CutTurns ==
  ASSUME NEW b \in Seq(Byte)
  PROVE  \A from \in 1 .. Len(b) + 1 : Bytes!CutFrom(b)[from] = CutBody(b, Bytes!CutFrom(b), from)
<1>1. Cuts(b, Bytes!CutFrom(b))
  BY CutExists, CutFromIs
<1> HIDE DEF Cuts
<1> DEFINE f == Bytes!CutFrom(b)
<1>2. f = [from \in 1 .. Len(b) + 1 |-> CutBody(b, f, from)]
  BY <1>1 DEF Cuts
<1> HIDE DEF f
<1>3. \A from \in 1 .. Len(b) + 1 : f[from] = CutBody(b, f, from)
  BY <1>2
<1> QED
  BY <1>3 DEF f

CutType == [rest : Seq(Byte), events : Seq(Told)]

LEMMA SuffixIs ==
  ASSUME NEW b \in Seq(Byte), NEW from \in 1 .. Len(b) + 1, NEW to \in 0 .. Len(b)
  PROVE  /\ SubSeq(b, from, to) \in Seq(Byte)
         /\ Len(SubSeq(b, from, to)) = IF from <= to THEN to - from + 1 ELSE 0
         /\ \A i \in 1 .. to - from + 1 : SubSeq(b, from, to)[i] = b[from + i - 1]
<1>1. \A i \in from .. to : b[i] \in Byte
  <2> TAKE i \in from .. to
  <2>1. i \in 1 .. Len(b)
    OBVIOUS
  <2> QED
    BY <2>1, ElementOfSeq
<1>2. from \in Int /\ to \in Int
  OBVIOUS
<1> QED
  BY <1>1, <1>2, SubSeqProperties

LEMMA CutTyped ==
  ASSUME NEW b \in Seq(Byte)
  PROVE  \A from \in 1 .. Len(b) + 1 : Bytes!CutFrom(b)[from] \in CutType
<1> DEFINE N == Len(b) + 1
           f == Bytes!CutFrom(b)
           D == {n \in 0 .. Len(b) : f[N - n] \notin CutType}
<1> HIDE DEF f
<1>1. N \in Nat /\ Len(b) \in Nat
  OBVIOUS
<1>2. D = {}
  <2> SUFFICES ASSUME D # {} PROVE FALSE
    OBVIOUS
  <2>1. PICK n \in D : \A m \in D : n <= m
    <3>1. D \in SUBSET Nat
      BY <1>1
    <3> HIDE DEF D
    <3> QED
      BY <3>1, LeastNatural
  <2> DEFINE from == N - n
             s == Bytes!First(Bytes!StartsFrom(b, from))
             e == Bytes!First(Bytes!EndsAfter(b, s))
  <2>2. from \in 1 .. Len(b) + 1 /\ n \in 0 .. Len(b)
    BY <1>1
  <2> HIDE DEF from
  <2>3. f[from] = CutBody(b, f, from)
    BY <2>2, CutTurns DEF f
  <2>4. CASE Bytes!StartsFrom(b, from) = {}
    <3>1. f[from] = Nothing
      BY <2>3, <2>4 DEF CutBody
    <3>2. Nothing \in CutType
      BY DEF Nothing, CutType
    <3> QED
      BY <2>1, <3>1, <3>2 DEF from
  <2>5. CASE Bytes!StartsFrom(b, from) # {} /\ Bytes!EndsAfter(b, s) = {}
    <3>1. f[from] = [rest |-> SubSeq(b, s, Len(b)), events |-> <<>>]
      BY <2>3, <2>5 DEF CutBody
    <3>2. s \in 1 .. Len(b) + 1
      BY <2>2, <2>5, GoesOn
    <3> HIDE DEF s
    <3>3. SubSeq(b, s, Len(b)) \in Seq(Byte)
      BY <1>1, <3>2, SuffixIs
    <3>4. <<>> \in Seq(Told)
      OBVIOUS
    <3>5. f[from] \in CutType
      BY <3>1, <3>3, <3>4 DEF CutType
    <3> QED
      BY <2>1, <3>5 DEF from
  <2>6. CASE Bytes!StartsFrom(b, from) # {} /\ Bytes!EndsAfter(b, s) # {}
    <3>1. f[from] = [rest |-> f[e + 1].rest, events |-> Bytes!Dispatch(SubSeq(b, s, e)) \o f[e + 1].events]
      BY <2>3, <2>6 DEF CutBody
    <3>2. s \in from .. Len(b) /\ e \in s + 1 .. Len(b)
      BY <2>2, <2>6, GoesOn
    <3> HIDE DEF s, e
    <3>3. N - (e + 1) \in 0 .. Len(b) /\ ~(n <= N - (e + 1)) /\ N - (N - (e + 1)) = e + 1
      BY <1>1, <2>2, <3>2 DEF from
    <3>4. f[e + 1] \in CutType
      BY <2>1, <3>3
    <3>5. SubSeq(b, s, e) \in Seq(Byte)
      BY <1>1, <2>2, <3>2, SuffixIs
    <3>6. f[e + 1].rest \in Seq(Byte) /\ f[e + 1].events \in Seq(Told)
      BY <3>4 DEF CutType
    <3>7. Bytes!Dispatch(SubSeq(b, s, e)) \o f[e + 1].events \in Seq(Told)
      <4>1. Bytes!Dispatch(SubSeq(b, s, e)) \in Seq(Told)
        BY <3>5, DispatchTells
      <4> QED
        BY <3>6, <4>1
    <3>8. f[from] \in CutType
      BY <3>1, <3>6, <3>7 DEF CutType
    <3> QED
      BY <2>1, <3>8 DEF from
  <2> QED
    BY <2>4, <2>5, <2>6
<1>3. ASSUME NEW from \in 1 .. Len(b) + 1
      PROVE  f[from] \in CutType
  <2>1. N - from \in 0 .. Len(b) /\ N - (N - from) = from
    BY <1>1
  <2> QED
    BY <1>2, <2>1
<1> QED
  BY <1>3 DEF f

LEMMA PieceShift ==
  ASSUME NEW b \in Seq(Byte), NEW o \in 0 .. Len(b), NEW c \in Seq(Byte), Len(b) = o + Len(c),
         \A i \in 1 .. Len(c) : c[i] = b[o + i],
         NEW s \in 1 .. Len(c), NEW e \in s .. Len(c)
  PROVE  SubSeq(c, s, e) = SubSeq(b, o + s, o + e)
<1>0. Len(c) \in Nat /\ o \in Nat /\ s \in Nat /\ e \in Nat
  OBVIOUS
<1>1. /\ SubSeq(c, s, e) \in Seq(Byte) /\ Len(SubSeq(c, s, e)) = e - s + 1
      /\ \A i \in 1 .. e - s + 1 : SubSeq(c, s, e)[i] = c[s + i - 1]
  <2>1. s \in 1 .. Len(c) + 1 /\ e \in 0 .. Len(c) /\ s <= e
    BY <1>0
  <2> QED
    BY <2>1, SuffixIs
<1>2. /\ SubSeq(b, o + s, o + e) \in Seq(Byte) /\ Len(SubSeq(b, o + s, o + e)) = e - s + 1
      /\ \A i \in 1 .. e - s + 1 : SubSeq(b, o + s, o + e)[i] = b[o + (s + i - 1)]
  <2>1. o + s \in 1 .. Len(b) + 1 /\ o + e \in 0 .. Len(b) /\ o + s <= o + e
        /\ (o + e) - (o + s) + 1 = e - s + 1
    BY <1>0
  <2>2. /\ SubSeq(b, o + s, o + e) \in Seq(Byte) /\ Len(SubSeq(b, o + s, o + e)) = e - s + 1
        /\ \A i \in 1 .. e - s + 1 : SubSeq(b, o + s, o + e)[i] = b[(o + s) + i - 1]
    BY <2>1, SuffixIs
  <2>3. \A i \in 1 .. e - s + 1 : (o + s) + i - 1 = o + (s + i - 1)
    BY <1>0
  <2> QED
    BY <2>2, <2>3
<1>3. \A i \in 1 .. e - s + 1 : s + i - 1 \in 1 .. Len(c)
  BY <1>0
<1>4. \A i \in 1 .. e - s + 1 : SubSeq(c, s, e)[i] = SubSeq(b, o + s, o + e)[i]
  BY <1>1, <1>2, <1>3
<1> QED
  BY <1>1, <1>2, <1>4, SeqEqual

(* To cut from a position on is to cut what is left from there. *)
LEMMA CutShift ==
  ASSUME NEW b \in Seq(Byte), NEW o \in 0 .. Len(b)
  PROVE  Bytes!CutFrom(b)[o + 1] = Bytes!Cut(SubSeq(b, o + 1, Len(b)))
<1> DEFINE c == SubSeq(b, o + 1, Len(b))
           L == Len(c)
           f == Bytes!CutFrom(b)
           g == Bytes!CutFrom(c)
           D == {n \in 0 .. L : g[L + 1 - n] # f[o + (L + 1 - n)]}
<1>1. c \in Seq(Byte) /\ L \in Nat /\ Len(b) = o + L /\ \A i \in 1 .. L : c[i] = b[o + i]
  <2>1. /\ c \in Seq(Byte) /\ Len(c) = IF o + 1 <= Len(b) THEN Len(b) - (o + 1) + 1 ELSE 0
        /\ \A i \in 1 .. Len(b) - (o + 1) + 1 : c[i] = b[(o + 1) + i - 1]
    BY SuffixIs
  <2> HIDE DEF c
  <2>2. Len(b) \in Nat /\ o \in Nat /\ L = Len(b) - o
    BY <2>1
  <2> QED
    BY <2>1, <2>2
<1>2. o \in Nat
  OBVIOUS
<1> HIDE DEF f, g, c, L
<1>3. D = {}
  <2> SUFFICES ASSUME D # {} PROVE FALSE
    OBVIOUS
  <2>1. PICK n \in D : \A m \in D : n <= m
    <3>1. D \in SUBSET Nat
      BY <1>1
    <3> HIDE DEF D
    <3> QED
      BY <3>1, LeastNatural
  <2> DEFINE j == L + 1 - n
             s == Bytes!First(Bytes!StartsFrom(c, j))
             e == Bytes!First(Bytes!EndsAfter(c, s))
  <2>2. n \in 0 .. L /\ j \in 1 .. L + 1 /\ o + j \in 1 .. Len(b) + 1
    BY <1>1, <1>2
  <2> HIDE DEF j
  <2>3. g[j] = CutBody(c, g, j) /\ f[o + j] = CutBody(b, f, o + j)
    BY <1>1, <2>2, CutTurns DEF f, g, L
  <2>4. g[j] # f[o + j]
    BY <2>1 DEF j
  <2>5. \A i : i \in j .. L <=> i \in Nat /\ o + i \in o + j .. Len(b) /\ i >= 1
    BY <1>1, <1>2, <2>2
  <2>6. Bytes!StartsFrom(c, j) = {} => Bytes!StartsFrom(b, o + j) = {}
    <3> SUFFICES ASSUME NEW i \in Bytes!StartsFrom(b, o + j) PROVE Bytes!StartsFrom(c, j) # {}
      OBVIOUS
    <3>1. i \in o + j .. Len(b) /\ b[i] = Bytes!START
      BY DEF Bytes!StartsFrom
    <3>2. i - o \in j .. L /\ o + (i - o) = i /\ i - o \in 1 .. L
      BY <1>1, <1>2, <2>2, <3>1
    <3>3. i - o \in Bytes!StartsFrom(c, j)
      BY <1>1, <3>1, <3>2 DEF Bytes!StartsFrom, L
    <3> QED
      BY <3>3
  <2>7. CASE Bytes!StartsFrom(c, j) = {}
    <3>1. g[j] = Nothing /\ f[o + j] = Nothing
      BY <2>3, <2>6, <2>7 DEF CutBody
    <3> QED
      BY <2>4, <3>1
  <2>8. CASE Bytes!StartsFrom(c, j) # {}
    <3>1. /\ s \in j .. L /\ c[s] = Bytes!START /\ \A i \in j .. s - 1 : c[i] # Bytes!START
          /\ Bytes!EndsAfter(c, s) # {} =>
               e \in s + 1 .. L /\ c[e] = Bytes!END /\ \A i \in s + 1 .. e - 1 : c[i] # Bytes!END
      BY <1>1, <2>2, <2>8, GoesOn DEF L
    <3> HIDE DEF s
    <3>2. s \in 1 .. L /\ s \in Nat /\ o + s \in o + j .. Len(b) /\ b[o + s] = Bytes!START
      <4>1. j \in Nat \ {0} /\ s \in j .. L
        BY <1>1, <2>2, <3>1
      <4>2. s \in 1 .. L /\ s \in Nat /\ o + s \in o + j .. Len(b)
        BY <1>1, <1>2, <4>1
      <4> QED
        BY <1>1, <3>1, <4>2
    <3>3. o + s \in Bytes!StartsFrom(b, o + j) /\ \A i \in Bytes!StartsFrom(b, o + j) : o + s <= i
      <4>1. o + s \in Bytes!StartsFrom(b, o + j)
        BY <3>2 DEF Bytes!StartsFrom
      <4>2. ASSUME NEW i \in Bytes!StartsFrom(b, o + j), ~(o + s <= i)
            PROVE  FALSE
        <5>1. i \in o + j .. Len(b) /\ b[i] = Bytes!START
          BY DEF Bytes!StartsFrom
        <5>2. i - o \in j .. s - 1 /\ i - o \in 1 .. L /\ o + (i - o) = i
          <6>1. i \in Nat /\ j \in Nat /\ j >= 1 /\ o + j <= i /\ i < o + s /\ s <= L
            BY <1>1, <1>2, <2>2, <3>2, <4>2, <5>1
          <6> QED
            BY <1>1, <1>2, <3>2, <6>1
        <5> QED
          BY <1>1, <3>1, <5>1, <5>2
      <4> QED
        BY <4>1, <4>2
    <3>4. Bytes!First(Bytes!StartsFrom(b, o + j)) = o + s
      <4>1. Bytes!StartsFrom(b, o + j) \in SUBSET Nat
        BY <1>1, <1>2, <2>2 DEF Bytes!StartsFrom
      <4> QED
        BY <3>3, <4>1, FirstEquals
    <3>5. Bytes!EndsAfter(c, s) = {} => Bytes!EndsAfter(b, o + s) = {}
      <4> SUFFICES ASSUME NEW i \in Bytes!EndsAfter(b, o + s) PROVE Bytes!EndsAfter(c, s) # {}
        OBVIOUS
      <4>1. i \in o + s + 1 .. Len(b) /\ b[i] = Bytes!END
        BY DEF Bytes!EndsAfter
      <4>2. i - o \in s + 1 .. L /\ o + (i - o) = i /\ i - o \in 1 .. L
        BY <1>1, <1>2, <3>2, <4>1
      <4>3. i - o \in Bytes!EndsAfter(c, s)
        BY <1>1, <4>1, <4>2 DEF Bytes!EndsAfter, L
      <4> QED
        BY <4>3
    <3>6. CASE Bytes!EndsAfter(c, s) = {}
      <4>1. g[j] = [rest |-> SubSeq(c, s, L), events |-> <<>>]
        BY <2>3, <2>8, <3>6 DEF CutBody, s, L
      <4>2. f[o + j] = [rest |-> SubSeq(b, o + s, Len(b)), events |-> <<>>]
        BY <2>3, <3>3, <3>4, <3>5, <3>6 DEF CutBody
      <4>3. SubSeq(c, s, L) = SubSeq(b, o + s, Len(b))
        <5>1. L \in s .. L
          BY <1>1, <3>2
        <5> QED
          BY <1>1, <3>2, <5>1, PieceShift DEF L
      <4> QED
        BY <2>4, <4>1, <4>2, <4>3
    <3>7. CASE Bytes!EndsAfter(c, s) # {}
      <4>1. e \in s + 1 .. L /\ c[e] = Bytes!END /\ \A i \in s + 1 .. e - 1 : c[i] # Bytes!END
        BY <3>1, <3>7
      <4> HIDE DEF e
      <4>2. e \in 1 .. L /\ e \in Nat /\ o + e \in (o + s) + 1 .. Len(b) /\ b[o + e] = Bytes!END
        <5>1. e \in Int /\ s + 1 <= e /\ e <= L /\ s \in Nat /\ s >= 1
          BY <1>1, <3>2, <4>1
        <5>2. e \in 1 .. L /\ e \in Nat
          BY <1>1, <5>1
        <5>3. o + e \in (o + s) + 1 .. Len(b)
          BY <1>1, <1>2, <5>1
        <5> QED
          BY <1>1, <4>1, <5>2, <5>3
      <4>3. o + e \in Bytes!EndsAfter(b, o + s)
        BY <4>2 DEF Bytes!EndsAfter
      <4>4. ASSUME NEW i \in Bytes!EndsAfter(b, o + s), ~(o + e <= i)
            PROVE  FALSE
        <5>1. i \in (o + s) + 1 .. Len(b) /\ b[i] = Bytes!END
          BY DEF Bytes!EndsAfter
        <5>2. i - o \in s + 1 .. e - 1 /\ i - o \in 1 .. L /\ o + (i - o) = i
          BY <1>1, <1>2, <3>2, <4>2, <4>4, <5>1
        <5> QED
          BY <1>1, <4>1, <5>1, <5>2
      <4>5. Bytes!First(Bytes!EndsAfter(b, o + s)) = o + e
        <5>1. Bytes!EndsAfter(b, o + s) \in SUBSET Nat
          BY <1>1, <1>2, <3>2 DEF Bytes!EndsAfter
        <5> QED
          BY <4>3, <4>4, <5>1, FirstEquals
      <4>6. g[j] = [rest |-> g[e + 1].rest, events |-> Bytes!Dispatch(SubSeq(c, s, e)) \o g[e + 1].events]
        BY <2>3, <2>8, <3>7 DEF CutBody, s, e
      <4>7. f[o + j] = [rest |-> f[o + e + 1].rest, events |-> Bytes!Dispatch(SubSeq(b, o + s, o + e)) \o f[o + e + 1].events]
        BY <2>3, <3>3, <3>4, <4>3, <4>5 DEF CutBody
      <4>8. SubSeq(c, s, e) = SubSeq(b, o + s, o + e)
        <5>1. e \in s .. L
          BY <3>2, <4>1
        <5> QED
          BY <1>1, <3>2, <5>1, PieceShift DEF L
      <4>9. g[e + 1] = f[o + e + 1]
        <5>1. L - e \in 0 .. L /\ ~(n <= L - e) /\ L + 1 - (L - e) = e + 1 /\ o + (L + 1 - (L - e)) = o + e + 1
          BY <1>1, <1>2, <2>2, <3>1, <3>2, <4>1, <4>2 DEF j
        <5> QED
          BY <2>1, <5>1
      <4> QED
        BY <2>4, <4>6, <4>7, <4>8, <4>9
    <3> QED
      BY <3>6, <3>7
  <2> QED
    BY <2>7, <2>8
<1>4. L \in 0 .. L /\ L + 1 - L = 1 /\ o + (L + 1 - L) = o + 1
  BY <1>1, <1>2
<1>5. g[1] = f[o + 1]
  BY <1>3, <1>4
<1> QED
  BY <1>5 DEF f, g, c, Bytes!Cut

(* What is cut off: nothing without a START; the first frame; or, if it has not ended, what there is of it. *)
NoStart(b, n) == \A i \in 1 .. n : b[i] # Bytes!START

LEMMA CutNone ==
  ASSUME NEW b \in Seq(Byte), NoStart(b, Len(b))
  PROVE  Bytes!Cut(b) = Nothing
<1>1. Bytes!StartsFrom(b, 1) = {}
  BY DEF Bytes!StartsFrom, NoStart
<1>2. 1 \in 1 .. Len(b) + 1
  OBVIOUS
<1>3. Bytes!Cut(b) = CutBody(b, Bytes!CutFrom(b), 1)
  BY <1>2, CutTurns DEF Bytes!Cut
<1> QED
  BY <1>1, <1>3 DEF CutBody

LEMMA FirstStart ==
  ASSUME NEW b \in Seq(Byte), NEW s \in 1 .. Len(b), b[s] = Bytes!START, NoStart(b, s - 1)
  PROVE  Bytes!StartsFrom(b, 1) # {} /\ Bytes!First(Bytes!StartsFrom(b, 1)) = s
<1>1. s \in Bytes!StartsFrom(b, 1) /\ Bytes!StartsFrom(b, 1) \in SUBSET Nat
  BY DEF Bytes!StartsFrom
<1>2. ASSUME NEW i \in Bytes!StartsFrom(b, 1), ~(s <= i)
      PROVE  FALSE
  <2>1. i \in 1 .. Len(b) /\ b[i] = Bytes!START
    BY DEF Bytes!StartsFrom
  <2>2. i \in 1 .. s - 1
    BY <1>2, <2>1
  <2> QED
    BY <2>1, <2>2 DEF NoStart
<1> QED
  BY <1>1, <1>2, FirstEquals

LEMMA CutOpen ==
  ASSUME NEW b \in Seq(Byte), NEW s \in 1 .. Len(b), b[s] = Bytes!START, NoStart(b, s - 1),
         \A i \in s + 1 .. Len(b) : b[i] # Bytes!END
  PROVE  Bytes!Cut(b) = [rest |-> SubSeq(b, s, Len(b)), events |-> <<>>]
<1>1. Bytes!EndsAfter(b, s) = {}
  BY DEF Bytes!EndsAfter
<1>2. 1 \in 1 .. Len(b) + 1
  OBVIOUS
<1>3. Bytes!Cut(b) = CutBody(b, Bytes!CutFrom(b), 1)
  BY <1>2, CutTurns DEF Bytes!Cut
<1> QED
  BY <1>1, <1>3, FirstStart DEF CutBody

FrameAt(b, s, e) ==
  /\ s \in 1 .. Len(b) /\ e \in s + 1 .. Len(b)
  /\ b[s] = Bytes!START /\ NoStart(b, s - 1)
  /\ b[e] = Bytes!END /\ \A i \in s + 1 .. e - 1 : b[i] # Bytes!END

LEMMA CutFrame ==
  ASSUME NEW b \in Seq(Byte), NEW s, NEW e, FrameAt(b, s, e)
  PROVE  Bytes!Cut(b) = [rest |-> Bytes!Cut(SubSeq(b, e + 1, Len(b))).rest,
                         events |-> Bytes!Dispatch(SubSeq(b, s, e)) \o Bytes!Cut(SubSeq(b, e + 1, Len(b))).events]
<1>1. /\ s \in 1 .. Len(b) /\ e \in s + 1 .. Len(b)
      /\ b[s] = Bytes!START /\ NoStart(b, s - 1)
      /\ b[e] = Bytes!END /\ \A i \in s + 1 .. e - 1 : b[i] # Bytes!END
  BY DEF FrameAt
<1>2. Bytes!EndsAfter(b, s) # {} /\ Bytes!First(Bytes!EndsAfter(b, s)) = e
  <2>1. e \in Bytes!EndsAfter(b, s) /\ Bytes!EndsAfter(b, s) \in SUBSET Nat
    BY <1>1 DEF Bytes!EndsAfter
  <2>2. ASSUME NEW i \in Bytes!EndsAfter(b, s), ~(e <= i)
        PROVE  FALSE
    <3>1. i \in s + 1 .. Len(b) /\ b[i] = Bytes!END
      BY DEF Bytes!EndsAfter
    <3>2. i \in s + 1 .. e - 1
      BY <1>1, <2>2, <3>1
    <3> QED
      BY <1>1, <3>1, <3>2
  <2> QED
    BY <2>1, <2>2, FirstEquals
<1>3. Bytes!Cut(b) = CutBody(b, Bytes!CutFrom(b), 1)
  <2>1. 1 \in 1 .. Len(b) + 1
    OBVIOUS
  <2> QED
    BY <2>1, CutTurns DEF Bytes!Cut
<1>4. Bytes!StartsFrom(b, 1) # {} /\ Bytes!First(Bytes!StartsFrom(b, 1)) = s
  BY <1>1, FirstStart
<1>5. e \in 0 .. Len(b)
  BY <1>1
<1>6. Bytes!CutFrom(b)[e + 1] = Bytes!Cut(SubSeq(b, e + 1, Len(b)))
  BY <1>5, CutShift
<1> QED
  BY <1>2, <1>3, <1>4, <1>6 DEF CutBody

(* Which of the three it is. *)
LEMMA StartOrNone ==
  ASSUME NEW b \in Seq(Byte)
  PROVE  \/ NoStart(b, Len(b))
         \/ \E s \in 1 .. Len(b) : b[s] = Bytes!START /\ NoStart(b, s - 1)
                                   /\ ((\A i \in s + 1 .. Len(b) : b[i] # Bytes!END) \/ \E e : FrameAt(b, s, e))
<1> SUFFICES ASSUME ~NoStart(b, Len(b))
             PROVE  \E s \in 1 .. Len(b) : b[s] = Bytes!START /\ NoStart(b, s - 1)
                                   /\ ((\A i \in s + 1 .. Len(b) : b[i] # Bytes!END) \/ \E e : FrameAt(b, s, e))
  OBVIOUS
<1>1. Bytes!StartsFrom(b, 1) # {} /\ 1 \in 1 .. Len(b) + 1
  BY DEF Bytes!StartsFrom, NoStart
<1>2. PICK s : s = Bytes!First(Bytes!StartsFrom(b, 1))
  OBVIOUS
<1>3. /\ s \in 1 .. Len(b) /\ b[s] = Bytes!START /\ \A i \in 1 .. s - 1 : b[i] # Bytes!START
      /\ \A e : e = Bytes!First(Bytes!EndsAfter(b, s)) /\ Bytes!EndsAfter(b, s) # {} =>
              /\ e \in s + 1 .. Len(b) /\ b[e] = Bytes!END /\ \A i \in s + 1 .. e - 1 : b[i] # Bytes!END
  BY <1>1, <1>2, GoesOn
<1>4. NoStart(b, s - 1)
  BY <1>3 DEF NoStart
<1>5. CASE Bytes!EndsAfter(b, s) = {}
  <2>1. \A i \in s + 1 .. Len(b) : b[i] # Bytes!END
    BY <1>5 DEF Bytes!EndsAfter
  <2> QED
    BY <1>3, <1>4, <2>1
<1>6. CASE Bytes!EndsAfter(b, s) # {}
  <2>1. PICK e : e = Bytes!First(Bytes!EndsAfter(b, s))
    OBVIOUS
  <2>2. FrameAt(b, s, e)
    BY <1>3, <1>4, <1>6, <2>1 DEF FrameAt
  <2> QED
    BY <1>3, <1>4, <2>2
<1> QED
  BY <1>5, <1>6

LEMMA Joined ==
  ASSUME NEW a \in Seq(Byte), NEW d \in Seq(Byte)
  PROVE  /\ a \o d \in Seq(Byte) /\ Len(a \o d) = Len(a) + Len(d)
         /\ \A i \in 1 .. Len(a) : (a \o d)[i] = a[i]
         /\ \A i \in 1 .. Len(d) : (a \o d)[Len(a) + i] = d[i]
<1>1. /\ a \o d \in Seq(Byte) /\ Len(a \o d) = Len(a) + Len(d)
      /\ \A i \in 1 .. Len(a) + Len(d) : (a \o d)[i] = IF i <= Len(a) THEN a[i] ELSE d[i - Len(a)]
  BY ConcatProperties
<1>2. Len(a) \in Nat /\ Len(d) \in Nat
  OBVIOUS
<1>3. ASSUME NEW i \in 1 .. Len(a)
      PROVE  (a \o d)[i] = a[i]
  <2>1. i \in 1 .. Len(a) + Len(d) /\ i <= Len(a)
    BY <1>2
  <2> QED
    BY <1>1, <2>1
<1>4. ASSUME NEW i \in 1 .. Len(d)
      PROVE  (a \o d)[Len(a) + i] = d[i]
  <2>1. Len(a) + i \in 1 .. Len(a) + Len(d) /\ ~(Len(a) + i <= Len(a)) /\ (Len(a) + i) - Len(a) = i
    BY <1>2
  <2> QED
    BY <1>1, <2>1
<1> QED
  BY <1>1, <1>3, <1>4

(* What is left of a joined sequence is joined. *)
LEMMA LeftOfJoined ==
  ASSUME NEW a \in Seq(Byte), NEW d \in Seq(Byte), NEW from \in 1 .. Len(a) + 1
  PROVE  SubSeq(a \o d, from, Len(a \o d)) = SubSeq(a, from, Len(a)) \o d
<1> DEFINE c == a \o d
           l == SubSeq(a, from, Len(a))
           m == Len(a) - from + 1
<1>1. Len(a) \in Nat /\ Len(d) \in Nat /\ from \in Nat /\ m \in Nat
  OBVIOUS
<1>2. /\ c \in Seq(Byte) /\ Len(c) = Len(a) + Len(d)
      /\ \A i \in 1 .. Len(a) : c[i] = a[i]
      /\ \A i \in 1 .. Len(d) : c[Len(a) + i] = d[i]
  BY Joined
<1> HIDE DEF c
<1>3. l \in Seq(Byte) /\ Len(l) = m /\ \A i \in 1 .. m : l[i] = a[from + i - 1]
  <2>1. Len(a) \in 0 .. Len(a)
    BY <1>1
  <2>2. /\ l \in Seq(Byte) /\ Len(l) = (IF from <= Len(a) THEN Len(a) - from + 1 ELSE 0)
        /\ \A i \in 1 .. Len(a) - from + 1 : l[i] = a[from + i - 1]
    BY <2>1, SuffixIs
  <2> QED
    BY <1>1, <2>2
<1> HIDE DEF l
<1>4. /\ l \o d \in Seq(Byte) /\ Len(l \o d) = m + Len(d)
      /\ \A i \in 1 .. m : (l \o d)[i] = l[i]
      /\ \A i \in 1 .. Len(d) : (l \o d)[m + i] = d[i]
  <2> HIDE DEF m
  <2>1. /\ l \o d \in Seq(Byte) /\ Len(l \o d) = Len(l) + Len(d)
        /\ \A i \in 1 .. Len(l) : (l \o d)[i] = l[i]
        /\ \A i \in 1 .. Len(d) : (l \o d)[Len(l) + i] = d[i]
    BY <1>3, Joined
  <2> QED
    BY <1>3, <2>1
<1>5. /\ SubSeq(c, from, Len(c)) \in Seq(Byte) /\ Len(SubSeq(c, from, Len(c))) = m + Len(d)
      /\ \A i \in 1 .. m + Len(d) : SubSeq(c, from, Len(c))[i] = c[from + i - 1]
  <2>1. from \in 1 .. Len(c) + 1 /\ Len(c) \in 0 .. Len(c) /\ Len(c) - from + 1 = m + Len(d)
    BY <1>1, <1>2
  <2>2. /\ SubSeq(c, from, Len(c)) \in Seq(Byte)
        /\ Len(SubSeq(c, from, Len(c))) = (IF from <= Len(c) THEN Len(c) - from + 1 ELSE 0)
        /\ \A i \in 1 .. Len(c) - from + 1 : SubSeq(c, from, Len(c))[i] = c[from + i - 1]
    BY <1>2, <2>1, SuffixIs
  <2>3. (IF from <= Len(c) THEN Len(c) - from + 1 ELSE 0) = m + Len(d)
    BY <1>1, <1>2
  <2> QED
    BY <2>1, <2>2, <2>3
<1>6. ASSUME NEW i \in 1 .. m + Len(d)
      PROVE  c[from + i - 1] = (l \o d)[i]
  <2>1. CASE i <= m
    <3>1. i \in 1 .. m /\ from + i - 1 \in 1 .. Len(a)
      BY <1>1, <2>1
    <3> QED
      BY <1>2, <1>3, <1>4, <3>1
  <2>2. CASE ~(i <= m)
    <3>1. i - m \in 1 .. Len(d) /\ m + (i - m) = i /\ Len(a) + (i - m) = from + i - 1
      BY <1>1, <2>2
    <3> HIDE DEF m
    <3> QED
      BY <1>2, <1>4, <3>1
  <2> QED
    BY <2>1, <2>2
<1>7. \A i \in 1 .. m + Len(d) : SubSeq(c, from, Len(c))[i] = (l \o d)[i]
  BY <1>5, <1>6
<1>8. SubSeq(c, from, Len(c)) = l \o d
  <2> HIDE DEF m
  <2> QED
    BY <1>4, <1>5, <1>7, SeqEqual
<1> QED
  BY <1>8 DEF c, l

(* Bytes without a START make no difference to what comes after them. *)
LEMMA CutSkips ==
  ASSUME NEW a \in Seq(Byte), NEW d \in Seq(Byte), NoStart(a, Len(a))
  PROVE  Bytes!Cut(a \o d) = Bytes!Cut(d)
<1> DEFINE c == a \o d
           m == Len(a)
<1>1. m \in Nat /\ Len(d) \in Nat
  OBVIOUS
<1>2. /\ c \in Seq(Byte) /\ Len(c) = m + Len(d)
      /\ \A i \in 1 .. m : c[i] = a[i]
      /\ \A i \in 1 .. Len(d) : c[m + i] = d[i]
  BY Joined
<1>3. \A i \in 1 .. m : c[i] # Bytes!START
  BY <1>2 DEF NoStart
<1>4. \A from \in 1 .. Len(d) + 1 : SubSeq(c, m + from, Len(c)) = SubSeq(d, from, Len(d))
  <2> TAKE from \in 1 .. Len(d) + 1
  <2>1. CASE from \in 1 .. Len(d)
    <3>1. Len(d) \in from .. Len(d) /\ m \in 0 .. Len(c)
      BY <1>1, <1>2, <2>1
    <3>2. SubSeq(d, from, Len(d)) = SubSeq(c, m + from, m + Len(d))
      <4> HIDE DEF c, m
      <4> QED
        BY <1>2, <2>1, <3>1, PieceShift
    <3> QED
      BY <1>2, <3>2
  <2>2. CASE from = Len(d) + 1
    <3>1. SubSeq(d, from, Len(d)) = <<>>
      BY <1>1, <2>2, SubSeqEmpty
    <3>2. SubSeq(c, m + from, Len(c)) = <<>>
      <4>1. m + from \in Int /\ Len(c) \in Int /\ Len(c) < m + from
        BY <1>1, <1>2, <2>2
      <4> HIDE DEF c, m
      <4> QED
        BY <4>1, SubSeqEmpty
    <3> QED
      BY <3>1, <3>2
  <2> QED
    BY <1>1, <2>1, <2>2
<1> HIDE DEF c, m
<1>5. CASE NoStart(d, Len(d))
  <2>1. ASSUME NEW i \in 1 .. Len(c)
        PROVE c[i] # Bytes!START
    <3>1. CASE i <= m
      <4>1. i \in 1 .. m
        BY <1>1, <3>1
      <4> QED
        BY <1>3, <4>1
    <3>2. CASE ~(i <= m)
      <4>1. i - m \in 1 .. Len(d) /\ m + (i - m) = i
        BY <1>1, <1>2, <3>2
      <4> QED
        BY <1>2, <1>5, <4>1 DEF NoStart
    <3> QED
      BY <3>1, <3>2
  <2>2. NoStart(c, Len(c))
    BY <2>1 DEF NoStart
  <2>3. Bytes!Cut(c) = Nothing /\ Bytes!Cut(d) = Nothing
    BY <1>2, <1>5, <2>2, CutNone
  <2> QED
    BY <2>3 DEF c
<1>6. ASSUME NEW s \in 1 .. Len(d), d[s] = Bytes!START, NoStart(d, s - 1)
      PROVE  m + s \in 1 .. Len(c) /\ c[m + s] = Bytes!START /\ NoStart(c, (m + s) - 1)
  <2>1. m + s \in 1 .. Len(c) /\ c[m + s] = Bytes!START
    BY <1>1, <1>2, <1>6
  <2>2. ASSUME NEW i \in 1 .. (m + s) - 1
        PROVE c[i] # Bytes!START
    <3>1. CASE i <= m
      <4>1. i \in 1 .. m
        BY <1>1, <3>1
      <4> QED
        BY <1>3, <4>1
    <3>2. CASE ~(i <= m)
      <4>1. i - m \in 1 .. s - 1 /\ i - m \in 1 .. Len(d) /\ m + (i - m) = i
        BY <1>1, <1>2, <3>2
      <4> QED
        BY <1>2, <1>6, <4>1 DEF NoStart
    <3> QED
      BY <3>1, <3>2
  <2> QED
    BY <2>1, <2>2 DEF NoStart
<1>7. ASSUME NEW s \in 1 .. Len(d), d[s] = Bytes!START, NoStart(d, s - 1), \A i \in s + 1 .. Len(d) : d[i] # Bytes!END
      PROVE  Bytes!Cut(c) = Bytes!Cut(d)
  <2>1. Bytes!Cut(d) = [rest |-> SubSeq(d, s, Len(d)), events |-> <<>>]
    BY <1>7, CutOpen
  <2>2. m + s \in 1 .. Len(c) /\ c[m + s] = Bytes!START /\ NoStart(c, (m + s) - 1)
    BY <1>6, <1>7
  <2>3. ASSUME NEW i \in (m + s) + 1 .. Len(c)
        PROVE c[i] # Bytes!END
    <3>1. i - m \in s + 1 .. Len(d) /\ i - m \in 1 .. Len(d) /\ m + (i - m) = i
      BY <1>1, <1>2
    <3> QED
      BY <1>2, <1>7, <3>1
  <2>4. Bytes!Cut(c) = [rest |-> SubSeq(c, m + s, Len(c)), events |-> <<>>]
    BY <1>2, <2>2, <2>3, CutOpen
  <2>5. s \in 1 .. Len(d) + 1
    BY <1>1
  <2> QED
    BY <1>4, <2>1, <2>4, <2>5
<1>8. ASSUME NEW s \in 1 .. Len(d), NEW e, FrameAt(d, s, e)
      PROVE  Bytes!Cut(c) = Bytes!Cut(d)
  <2>1. /\ e \in s + 1 .. Len(d)
        /\ d[s] = Bytes!START /\ NoStart(d, s - 1)
        /\ d[e] = Bytes!END /\ \A i \in s + 1 .. e - 1 : d[i] # Bytes!END
    BY <1>8 DEF FrameAt
  <2>2. m + s \in 1 .. Len(c) /\ c[m + s] = Bytes!START /\ NoStart(c, (m + s) - 1)
    BY <1>6, <2>1
  <2>3. m + e \in (m + s) + 1 .. Len(c) /\ c[m + e] = Bytes!END
    BY <1>1, <1>2, <2>1
  <2>4. ASSUME NEW i \in (m + s) + 1 .. (m + e) - 1
        PROVE c[i] # Bytes!END
    <3>1. i - m \in s + 1 .. e - 1 /\ i - m \in 1 .. Len(d) /\ m + (i - m) = i
      BY <1>1, <1>2, <2>1
    <3> QED
      BY <1>2, <2>1, <3>1
  <2>5. FrameAt(c, m + s, m + e)
    BY <2>2, <2>3, <2>4 DEF FrameAt
  <2>6. SubSeq(d, s, e) = SubSeq(c, m + s, m + e)
    <3>1. m \in 0 .. Len(c) /\ e \in s .. Len(d)
      BY <1>1, <1>2, <2>1
    <3> QED
      BY <1>2, <3>1, PieceShift
  <2>7. SubSeq(c, (m + e) + 1, Len(c)) = SubSeq(d, e + 1, Len(d))
    <3>1. e + 1 \in 1 .. Len(d) + 1 /\ m + (e + 1) = (m + e) + 1
      BY <1>1, <2>1
    <3> QED
      BY <1>4, <3>1
  <2> DEFINE then == Bytes!Cut(SubSeq(d, e + 1, Len(d)))
  <2>8. Bytes!Cut(d) = [rest |-> then.rest, events |-> Bytes!Dispatch(SubSeq(d, s, e)) \o then.events]
    BY <1>8, CutFrame
  <2>9. Bytes!Cut(c) = [rest |-> then.rest, events |-> Bytes!Dispatch(SubSeq(d, s, e)) \o then.events]
    <3>1. Bytes!Cut(c) = [rest |-> Bytes!Cut(SubSeq(c, (m + e) + 1, Len(c))).rest,
                          events |-> Bytes!Dispatch(SubSeq(c, m + s, m + e)) \o Bytes!Cut(SubSeq(c, (m + e) + 1, Len(c))).events]
      BY <1>2, <2>5, CutFrame
    <3> QED
      BY <2>6, <2>7, <3>1
  <2> QED
    BY <2>8, <2>9
<1> QED
  BY <1>5, <1>7, <1>8, StartOrNone DEF c

(* A stream may be cut in pieces: what has come gives events and a rest, which goes before what comes. *)
CutInPieces(a, d) ==
  LET now == Bytes!Cut(a)
      then == Bytes!Cut(now.rest \o d)
  IN Bytes!Cut(a \o d) = [rest |-> then.rest, events |-> now.events \o then.events]

LEMMA CutType1 ==
  ASSUME NEW b \in Seq(Byte)
  PROVE  Bytes!Cut(b) \in CutType
<1>1. 1 \in 1 .. Len(b) + 1
  OBVIOUS
<1> QED
  BY <1>1, CutTyped DEF Bytes!Cut

LEMMA SplitAt ==
  ASSUME NEW x \in Seq(Byte), NEW d \in Seq(Byte), NEW s \in 1 .. Len(x)
  PROVE  x \o d = SubSeq(x, 1, s - 1) \o (SubSeq(x, s, Len(x)) \o d)
<1>1. 1 \in 1 .. Len(x) + 1 /\ s - 1 \in 1 - 1 .. Len(x) /\ Len(x) \in s - 1 .. Len(x) /\ (s - 1) + 1 = s
  OBVIOUS
<1>2. SubSeq(x, 1, s - 1) \o SubSeq(x, (s - 1) + 1, Len(x)) = SubSeq(x, 1, Len(x))
  BY <1>1, ConcatAdjacentSubSeq
<1>3. SubSeq(x, 1, s - 1) \o SubSeq(x, s, Len(x)) = x
  BY <1>1, <1>2, SubSeqFull
<1>4. SubSeq(x, 1, s - 1) \in Seq(Byte) /\ SubSeq(x, s, Len(x)) \in Seq(Byte)
  <2>1. s - 1 \in 0 .. Len(x) /\ Len(x) \in 0 .. Len(x) /\ s \in 1 .. Len(x) + 1
    OBVIOUS
  <2> QED
    BY <1>1, <2>1, SuffixIs
<1>5. (SubSeq(x, 1, s - 1) \o SubSeq(x, s, Len(x))) \o d = SubSeq(x, 1, s - 1) \o (SubSeq(x, s, Len(x)) \o d)
  BY <1>4, ConcatAssociative
<1> QED
  BY <1>3, <1>5

LEMMA EventsJoin ==
  ASSUME NEW told \in Seq(Told), NEW one \in CutType, NEW two \in CutType, NEW both,
         both = [rest |-> two.rest, events |-> one.events \o two.events]
  PROVE  [rest |-> both.rest, events |-> told \o both.events] = [rest |-> two.rest, events |-> (told \o one.events) \o two.events]
<1>1. one.events \in Seq(Told) /\ two.events \in Seq(Told)
  BY DEF CutType
<1>2. both.rest = two.rest /\ both.events = one.events \o two.events
  OBVIOUS
<1>3. (told \o one.events) \o two.events = told \o (one.events \o two.events)
  <2>1. ASSUME NEW x \in Seq(Told), NEW y \in Seq(Told)
        PROVE  (told \o x) \o y = told \o (x \o y)
    BY ConcatAssociative
  <2> HIDE DEF Told
  <2> QED
    BY <1>1, <2>1
<1> QED
  BY <1>2, <1>3

LEMMA CutSplit ==
  ASSUME NEW a \in Seq(Byte), NEW d \in Seq(Byte)
  PROVE  CutInPieces(a, d)
<1> DEFINE D == {n \in Nat : \E x \in Seq(Byte) : Len(x) = n /\ ~CutInPieces(x, d)}
<1>1. D = {}
  <2> SUFFICES ASSUME D # {} PROVE FALSE
    OBVIOUS
  <2>1. PICK n \in D : \A k \in D : n <= k
    <3>1. D \in SUBSET Nat
      OBVIOUS
    <3> HIDE DEF D
    <3> QED
      BY <3>1, LeastNatural
  <2>2. PICK x \in Seq(Byte) : Len(x) = n /\ ~CutInPieces(x, d)
    OBVIOUS
  <2>3. \A y \in Seq(Byte) : Len(y) < Len(x) => CutInPieces(y, d)
    <3> TAKE y \in Seq(Byte)
    <3> SUFFICES ASSUME Len(y) < Len(x), ~CutInPieces(y, d) PROVE FALSE
      OBVIOUS
    <3>1. Len(y) \in D /\ ~(n <= Len(y))
      BY <2>2
    <3> QED
      BY <2>1, <3>1
  <2> HIDE DEF D
  <2>4. Len(x) \in Nat /\ Bytes!Cut(x) \in CutType
    BY CutType1
  <2>5. /\ x \o d \in Seq(Byte) /\ Len(x \o d) = Len(x) + Len(d)
        /\ \A i \in 1 .. Len(x) : (x \o d)[i] = x[i]
    BY Joined
  <2>6. Bytes!Cut(d) \in CutType
    BY CutType1
  <2>7. CASE NoStart(x, Len(x))
    <3>1. Bytes!Cut(x) = Nothing
      BY <2>7, CutNone
    <3>2. Bytes!Cut(x \o d) = Bytes!Cut(d)
      BY <2>7, CutSkips
    <3>3. Nothing.rest \o d = d /\ Nothing.events = <<>>
      BY ConcatEmptySeq DEF Nothing
    <3>4. Bytes!Cut(d) = [rest |-> Bytes!Cut(d).rest, events |-> <<>> \o Bytes!Cut(d).events]
      <4>1. Bytes!Cut(d).events \in Seq(Told)
        BY <2>6 DEF CutType
      <4>2. <<>> \o Bytes!Cut(d).events = Bytes!Cut(d).events
        BY <4>1, ConcatEmptySeq
      <4> QED
        BY <2>6, <4>2 DEF CutType
    <3> QED
      BY <2>2, <3>1, <3>2, <3>3, <3>4 DEF CutInPieces
  <2>8. ASSUME NEW s \in 1 .. Len(x), x[s] = Bytes!START, NoStart(x, s - 1), \A i \in s + 1 .. Len(x) : x[i] # Bytes!END
        PROVE  FALSE
    <3> DEFINE r == SubSeq(x, s, Len(x))
               p == SubSeq(x, 1, s - 1)
    <3>1. Bytes!Cut(x) = [rest |-> r, events |-> <<>>]
      BY <2>8, CutOpen
    <3>2. p \in Seq(Byte) /\ Len(p) = s - 1 /\ \A i \in 1 .. s - 1 : p[i] = x[i]
      <4>1. 1 \in 1 .. Len(x) + 1 /\ s - 1 \in 0 .. Len(x) /\ s \in Nat
        BY <2>4
      <4>2. p \in Seq(Byte) /\ Len(p) = (IF 1 <= s - 1 THEN (s - 1) - 1 + 1 ELSE 0)
            /\ \A i \in 1 .. (s - 1) - 1 + 1 : p[i] = x[1 + i - 1]
        BY <4>1, SuffixIs
      <4> HIDE DEF p
      <4> QED
        BY <4>1, <4>2
    <3>3. r \in Seq(Byte)
      <4>1. s \in 1 .. Len(x) + 1 /\ Len(x) \in 0 .. Len(x)
        BY <2>4
      <4> QED
        BY <4>1, SuffixIs
    <3>4. x \o d = p \o (r \o d)
      BY SplitAt
    <3> HIDE DEF p, r
    <3>5. r \o d \in Seq(Byte)
      BY <3>3, Joined
    <3>6. NoStart(p, Len(p))
      BY <2>8, <3>2 DEF NoStart
    <3>7. Bytes!Cut(x \o d) = Bytes!Cut(r \o d)
      BY <3>2, <3>4, <3>5, <3>6, CutSkips
    <3>8. Bytes!Cut(r \o d) \in CutType
      BY <3>5, CutType1
    <3>9. Bytes!Cut(r \o d) = [rest |-> Bytes!Cut(r \o d).rest, events |-> <<>> \o Bytes!Cut(r \o d).events]
      <4>1. Bytes!Cut(r \o d).events \in Seq(Told)
        BY <3>8 DEF CutType
      <4>2. <<>> \o Bytes!Cut(r \o d).events = Bytes!Cut(r \o d).events
        BY <4>1, ConcatEmptySeq
      <4> QED
        BY <3>8, <4>2 DEF CutType
    <3> QED
      BY <2>2, <3>1, <3>7, <3>9 DEF CutInPieces
  <2>9. ASSUME NEW s, NEW e, FrameAt(x, s, e)
        PROVE  FALSE
    <3> DEFINE t == SubSeq(x, e + 1, Len(x))
               D0 == Bytes!Dispatch(SubSeq(x, s, e))
    <3>1. /\ s \in 1 .. Len(x) /\ e \in s + 1 .. Len(x)
          /\ x[s] = Bytes!START /\ NoStart(x, s - 1)
          /\ x[e] = Bytes!END /\ \A i \in s + 1 .. e - 1 : x[i] # Bytes!END
      BY <2>9 DEF FrameAt
    <3>2. s \in Nat /\ e \in Nat /\ e + 1 \in 1 .. Len(x) + 1 /\ Len(x) \in 0 .. Len(x) /\ e \in 0 .. Len(x) /\ s \in 1 .. Len(x) + 1
      BY <2>4, <3>1
    <3>3. t \in Seq(Byte) /\ Len(t) < Len(x)
      <4>1. t \in Seq(Byte) /\ Len(t) = IF e + 1 <= Len(x) THEN Len(x) - (e + 1) + 1 ELSE 0
        BY <3>2, SuffixIs
      <4> HIDE DEF t
      <4> QED
        BY <2>4, <3>1, <3>2, <4>1
    <3>4. D0 \in Seq(Told)
      <4>1. SubSeq(x, s, e) \in Seq(Byte)
        BY <3>2, SuffixIs
      <4> QED
        BY <4>1, DispatchTells
    <3>5. Bytes!Cut(x) = [rest |-> Bytes!Cut(t).rest, events |-> D0 \o Bytes!Cut(t).events]
      BY <2>9, CutFrame
    <3>6. FrameAt(x \o d, s, e)
      <4>1. s \in 1 .. Len(x \o d) /\ e \in s + 1 .. Len(x \o d)
        BY <2>4, <2>5, <3>1, <3>2
      <4>2. (x \o d)[s] = Bytes!START /\ (x \o d)[e] = Bytes!END
        BY <2>5, <3>1, <3>2
      <4>3. \A i \in 1 .. s - 1 : i \in 1 .. Len(x)
        BY <2>4, <3>1, <3>2
      <4>4. NoStart(x \o d, s - 1)
        BY <2>5, <3>1, <4>3 DEF NoStart
      <4>5. \A i \in s + 1 .. e - 1 : i \in 1 .. Len(x)
        BY <2>4, <3>1, <3>2
      <4>6. \A i \in s + 1 .. e - 1 : (x \o d)[i] # Bytes!END
        BY <2>5, <3>1, <4>5
      <4> QED
        BY <4>1, <4>2, <4>4, <4>6 DEF FrameAt
    <3>7. SubSeq(x \o d, s, e) = SubSeq(x, s, e)
      <4>1. s \in 1 .. Len(x) /\ e \in 1 .. Len(x)
        BY <2>4, <3>1, <3>2
      <4> QED
        BY <4>1, SubSeqOfConcat1
    <3>8. SubSeq(x \o d, e + 1, Len(x \o d)) = t \o d
      BY <3>2, LeftOfJoined
    <3>9. Bytes!Cut(x \o d) = [rest |-> Bytes!Cut(t \o d).rest, events |-> D0 \o Bytes!Cut(t \o d).events]
      BY <2>5, <3>6, <3>7, <3>8, CutFrame
    <3> DEFINE then == Bytes!Cut(Bytes!Cut(t).rest \o d)
    <3> HIDE DEF t, D0, then
    <3>10. Bytes!Cut(t \o d) = [rest |-> then.rest, events |-> Bytes!Cut(t).events \o then.events]
      BY <2>3, <3>3 DEF CutInPieces, then
    <3>11. Bytes!Cut(t) \in CutType /\ then \in CutType
      <4>1. Bytes!Cut(t) \in CutType
        BY <3>3, CutType1
      <4>2. Bytes!Cut(t).rest \o d \in Seq(Byte)
        BY <4>1, Joined DEF CutType
      <4> QED
        BY <4>1, <4>2, CutType1 DEF then
    <3>13. Bytes!Cut(x \o d) = [rest |-> then.rest, events |-> (D0 \o Bytes!Cut(t).events) \o then.events]
      <4> DEFINE both == Bytes!Cut(t \o d)
      <4> HIDE DEF both
      <4>1. [rest |-> both.rest, events |-> D0 \o both.events]
              = [rest |-> then.rest, events |-> (D0 \o Bytes!Cut(t).events) \o then.events]
        BY <3>4, <3>10, <3>11, EventsJoin DEF both
      <4> QED
        BY <3>9, <4>1 DEF both
    <3>14. Bytes!Cut(Bytes!Cut(x).rest \o d) = then
      BY <3>5 DEF then
    <3>15. Bytes!Cut(x).events = D0 \o Bytes!Cut(t).events
      BY <3>5
    <3>16. CutInPieces(x, d)
      BY <3>13, <3>14, <3>15 DEF CutInPieces
    <3> QED
      BY <2>2, <3>16
  <2> QED
    BY <2>7, <2>8, <2>9, StartOrNone
<1>2. Len(a) \in Nat
  OBVIOUS
<1> QED
  BY <1>1, <1>2

(* Sequences put together have the elements of each. *)
FlatBody(ss, flat, i) == IF i = 1 THEN ss[i] ELSE flat[i - 1] \o ss[i]
Flat(ss, flat) == flat = [i \in 1 .. Len(ss) |-> FlatBody(ss, flat, i)]

LEMMA FlattenIs ==
  ASSUME NEW ss, Len(ss) # 0
  PROVE  Bytes!FlattenSeq(ss) = (CHOOSE flat : Flat(ss, flat))[Len(ss)]
  BY DEF Bytes!FlattenSeq, Flat, FlatBody

LEMMA FlatExists ==
  ASSUME NEW S, NEW ss \in Seq(Seq(S))
  PROVE  \E flat : Flat(ss, flat)
<1> DEFINE N == Len(ss)
           Made(n, g) == DOMAIN g = 1 .. N /\ \A i \in 1 .. n : g[i] = FlatBody(ss, g, i)
           D == {n \in 0 .. N : ~\E g : Made(n, g)}
<1>1. N \in Nat
  OBVIOUS
<1>2. D = {}
  <2> SUFFICES ASSUME D # {} PROVE FALSE
    OBVIOUS
  <2>1. PICK n \in D : \A m \in D : n <= m
    <3>1. D \in SUBSET Nat
      BY <1>1
    <3> HIDE DEF D
    <3> QED
      BY <3>1, LeastNatural
  <2>2. Made(0, [i \in 1 .. N |-> <<>>])
    BY <1>1
  <2>3. n \in 1 .. N /\ n - 1 \in 0 .. N /\ ~(n <= n - 1)
    BY <1>1, <2>1, <2>2
  <2>4. PICK g : Made(n - 1, g)
    BY <2>1, <2>3
  <2> DEFINE h == [g EXCEPT ![n] = FlatBody(ss, g, n)]
  <2>5. DOMAIN h = 1 .. N /\ h[n] = FlatBody(ss, g, n) /\ \A i \in 1 .. N : i # n => h[i] = g[i]
    BY <2>3, <2>4
  <2> HIDE DEF h
  <2>6. ASSUME NEW i \in 1 .. n
        PROVE  h[i] = FlatBody(ss, h, i)
    <3>1. i \in 1 .. N /\ i # 1 => i - 1 \in 1 .. N /\ i - 1 # n
      BY <1>1, <2>3
    <3>2. FlatBody(ss, h, i) = FlatBody(ss, g, i)
      <4>1. CASE i = 1
        BY <4>1 DEF FlatBody
      <4>2. CASE i # 1
        <5>1. h[i - 1] = g[i - 1]
          <6>1. i \in 1 .. N
            BY <1>1, <2>3
          <6> QED
            BY <2>5, <3>1, <4>2, <6>1
        <5> QED
          BY <4>2, <5>1 DEF FlatBody
      <4> QED
        BY <4>1, <4>2
    <3>3. CASE i = n
      BY <2>5, <3>2, <3>3
    <3>4. CASE i # n
      <4>1. i \in 1 .. n - 1 /\ i \in 1 .. N
        BY <1>1, <2>3, <3>4
      <4> QED
        BY <2>4, <2>5, <3>2, <3>4, <4>1
    <3> QED
      BY <3>3, <3>4
  <2>7. Made(n, h)
    BY <2>5, <2>6
  <2> QED
    BY <2>1, <2>7
<1>3. PICK g : Made(N, g)
  BY <1>1, <1>2
<1> DEFINE h == [i \in 1 .. Len(ss) |-> g[i]]
<1>5. ASSUME NEW i \in 1 .. Len(ss)
      PROVE  h[i] = FlatBody(ss, h, i)
  <2>1. g[i] = FlatBody(ss, g, i) /\ h[i] = g[i]
    BY <1>3
  <2>2. i # 1 => h[i - 1] = g[i - 1]
    BY <1>1
  <2> HIDE DEF h
  <2> QED
    BY <2>1, <2>2 DEF FlatBody
<1>6. h = [i \in 1 .. Len(ss) |-> h[i]]
  OBVIOUS
<1> HIDE DEF h
<1>7. h = [i \in 1 .. Len(ss) |-> FlatBody(ss, h, i)]
  BY <1>5, <1>6
<1> QED
  BY <1>7 DEF Flat

LEMMA Flattened ==
  ASSUME NEW S, NEW ss \in Seq(Seq(S))
  PROVE  Bytes!FlattenSeq(ss) \in Seq(S)
<1>1. CASE Len(ss) = 0
  <2>1. Bytes!FlattenSeq(ss) = ss
    BY <1>1 DEF Bytes!FlattenSeq
  <2>2. ss = <<>>
    BY <1>1
  <2> QED
    BY <2>1, <2>2
<1>2. CASE Len(ss) # 0
  <2>1. PICK flat : flat = CHOOSE g : Flat(ss, g)
    OBVIOUS
  <2>2. Flat(ss, flat)
    BY <2>1, FlatExists
  <2>3. \A i \in 1 .. Len(ss) : flat[i] = FlatBody(ss, flat, i)
    BY <2>2 DEF Flat
  <2> DEFINE D == {i \in 1 .. Len(ss) : flat[i] \notin Seq(S)}
  <2>4. D = {}
    <3> SUFFICES ASSUME D # {} PROVE FALSE
      OBVIOUS
    <3>1. PICK i \in D : \A k \in D : i <= k
      <4>1. D \in SUBSET Nat
        OBVIOUS
      <4> HIDE DEF D
      <4> QED
        BY <4>1, LeastNatural
    <3>2. i \in 1 .. Len(ss) /\ flat[i] \notin Seq(S)
      OBVIOUS
    <3>3. ss[i] \in Seq(S)
      BY <3>2, ElementOfSeq
    <3>4. CASE i = 1
      BY <2>3, <3>2, <3>3, <3>4 DEF FlatBody
    <3>5. CASE i # 1
      <4>1. i - 1 \in 1 .. Len(ss) /\ ~(i <= i - 1)
        BY <3>2, <3>5
      <4>2. flat[i - 1] \in Seq(S)
        BY <3>1, <4>1
      <4>3. flat[i] = flat[i - 1] \o ss[i]
        BY <2>3, <3>2, <3>5 DEF FlatBody
      <4> QED
        BY <3>2, <3>3, <4>2, <4>3
    <3> QED
      BY <3>4, <3>5
  <2>5. Len(ss) \in 1 .. Len(ss)
    BY <1>2
  <2>6. flat[Len(ss)] \in Seq(S)
    BY <2>4, <2>5
  <2> QED
    BY <1>2, <2>1, <2>6, FlattenIs
<1> QED
  BY <1>1, <1>2

(* A frame on the line: only its first byte is START, only its last one END. *)
Plain == Byte \ {Bytes!START, Bytes!END}

LEMMA EscapedIs ==
  ASSUME NEW b \in Seq(Byte), Len(b) >= 2
  PROVE  \E body \in Seq(Plain) : Bytes!EscapeMessage(b) = <<b[1]>> \o body \o <<b[Len(b)]>>
<1> DEFINE inner == Bytes!Inner(b)
           escaped(x) == IF x \in {Bytes!START, Bytes!ESC, Bytes!END} THEN <<Bytes!ESC, (x + 32) % 256>> ELSE <<x>>
           ss == [i \in DOMAIN inner |-> escaped(inner[i])]
<1>1. inner \in Seq(Byte)
  <2>1. 2 \in 1 .. Len(b) + 1 /\ Len(b) - 1 \in 0 .. Len(b)
    OBVIOUS
  <2> QED
    BY <2>1, SuffixIs DEF Bytes!Inner
<1> HIDE DEF inner
<1>2. ASSUME NEW x \in Byte
      PROVE  escaped(x) \in Seq(Plain)
  <2>1. CASE x \in {Bytes!START, Bytes!ESC, Bytes!END}
    <3>1. Bytes!ESC \in Plain /\ (x + 32) % 256 \in Plain
      BY <2>1 DEF Plain, Byte, Bytes!START, Bytes!ESC, Bytes!END
    <3> QED
      BY <2>1, <3>1
  <2>2. CASE x \notin {Bytes!START, Bytes!ESC, Bytes!END}
    <3>1. x \in Plain
      BY <2>2 DEF Plain
    <3> QED
      BY <2>2, <3>1
  <2> QED
    BY <2>1, <2>2
<1> HIDE DEF escaped
<1>3. ss \in Seq(Seq(Plain))
  <2>1. DOMAIN inner = 1 .. Len(inner) /\ Len(inner) \in Nat /\ \A i \in 1 .. Len(inner) : inner[i] \in Byte
    BY <1>1
  <2>2. ss \in [1 .. Len(inner) -> Seq(Plain)]
    BY <1>2, <2>1
  <2> QED
    BY <2>1, <2>2
<1>4. Bytes!FlattenSeq(ss) \in Seq(Plain)
  <2> HIDE DEF ss
  <2> QED
    BY <1>3, Flattened
<1>5. Bytes!EscapeMessage(b) = <<b[1]>> \o Bytes!FlattenSeq(ss) \o <<b[Len(b)]>>
  BY DEF Bytes!EscapeMessage, escaped, inner
<1> QED
  BY <1>4, <1>5

LEMMA EncodedIs ==
  ASSUME NEW f \in Frames
  PROVE  \E body \in Seq(Plain) : Bytes!Encode(f) = <<Bytes!START>> \o body \o <<Bytes!END>>
<1> DEFINE field(i) == <<f.fields[i].type, Len(f.fields[i].value)>> \o f.fields[i].value
           ss == [i \in DOMAIN f.fields |-> field(i)]
           flat == Bytes!FlattenSeq(ss)
           b == <<Bytes!START, f.checksum, f.tor>> \o flat \o <<Bytes!END>>
<1>1. /\ f.checksum \in Byte /\ f.tor \in Byte
      /\ f.fields \in Seq([type : Byte, value : {v \in Seq(Byte) : Len(v) <= 255}])
  BY FramesAssumption DEF Byte
<1>2. ASSUME NEW i \in DOMAIN f.fields
      PROVE  field(i) \in Seq(Byte)
  <2> DEFINE FieldType == [type : Byte, value : {v \in Seq(Byte) : Len(v) <= 255}]
  <2>0. f.fields \in Seq(FieldType)
    BY <1>1
  <2> HIDE DEF FieldType
  <2>5. i \in 1 .. Len(f.fields)
    BY <2>0
  <2>1. f.fields[i] \in FieldType
    BY <2>0, <2>5, ElementOfSeq
  <2>2. f.fields[i].type \in Byte /\ f.fields[i].value \in Seq(Byte) /\ Len(f.fields[i].value) <= 255
    BY <2>1 DEF FieldType
  <2>3. Len(f.fields[i].value) \in Byte
    <3>1. PICK v : v = f.fields[i].value
      OBVIOUS
    <3>2. v \in Seq(Byte) /\ Len(v) <= 255
      BY <2>2, <3>1
    <3>3. Len(v) \in Nat
      BY <3>2
    <3>4. \A k \in Nat : k <= 255 => k \in Byte
      BY DEF Byte
    <3>5. Len(v) \in Byte
      BY <3>2, <3>3, <3>4
    <3> QED
      BY <3>1, <3>5
  <2>4. <<f.fields[i].type, Len(f.fields[i].value)>> \in Seq(Byte)
    BY <2>2, <2>3
  <2> QED
    BY <2>2, <2>4, Joined
<1> HIDE DEF field
<1>3. ss \in Seq(Seq(Byte))
  <2>1. DOMAIN f.fields = 1 .. Len(f.fields) /\ Len(f.fields) \in Nat
    BY <1>1
  <2>2. ss \in [1 .. Len(f.fields) -> Seq(Byte)]
    BY <1>2, <2>1
  <2> QED
    BY <2>1, <2>2
<1> HIDE DEF ss
<1>4. flat \in Seq(Byte)
  BY <1>3, Flattened
<1> HIDE DEF flat
<1>5. b \in Seq(Byte) /\ Len(b) >= 2 /\ b[1] = Bytes!START /\ b[Len(b)] = Bytes!END
  <2> DEFINE x == <<Bytes!START, f.checksum, f.tor>>
             y == x \o flat
             z == <<Bytes!END>>
  <2>1. Bytes!START \in Byte /\ Bytes!END \in Byte
    BY DEF Byte, Bytes!START, Bytes!END
  <2>2. x \in Seq(Byte) /\ Len(x) = 3 /\ x[1] = Bytes!START
    BY <1>1, <2>1
  <2> HIDE DEF x
  <2>3. y \in Seq(Byte) /\ Len(y) = 3 + Len(flat) /\ y[1] = Bytes!START
    <3>1. 1 \in 1 .. Len(x)
      BY <2>2
    <3>2. y \in Seq(Byte) /\ Len(y) = Len(x) + Len(flat) /\ \A i \in 1 .. Len(x) : y[i] = x[i]
      BY <1>4, <2>2, Joined
    <3> HIDE DEF y
    <3>3. y[1] = x[1]
      BY <3>1, <3>2
    <3> QED
      BY <2>2, <3>2, <3>3
  <2> HIDE DEF y
  <2>4. z \in Seq(Byte) /\ Len(z) = 1 /\ z[1] = Bytes!END
    BY <2>1
  <2> HIDE DEF z
  <2>5. Len(flat) \in Nat /\ 1 \in 1 .. Len(y) /\ 1 \in 1 .. Len(z)
    BY <1>4, <2>3, <2>4
  <2> DEFINE w == y \o z
  <2>6. w \in Seq(Byte) /\ Len(w) = Len(y) + 1 /\ w[1] = y[1] /\ w[Len(y) + 1] = z[1]
    <3>1. /\ w \in Seq(Byte) /\ Len(w) = Len(y) + Len(z)
          /\ \A i \in 1 .. Len(y) : w[i] = y[i]
          /\ \A i \in 1 .. Len(z) : w[Len(y) + i] = z[i]
      BY <2>3, <2>4, Joined
    <3> HIDE DEF w
    <3> QED
      BY <2>4, <2>5, <3>1
  <2>7. b = w
    BY DEF b, w, x, y, z
  <2> HIDE DEF b, w
  <2> QED
    BY <2>3, <2>4, <2>5, <2>6, <2>7
<1> HIDE DEF b
<1>6. Bytes!Encode(f) = Bytes!EscapeMessage(b)
  BY DEF Bytes!Encode, b, flat, ss, field
<1> QED
  BY <1>5, <1>6, EscapedIs

OneFrame(b) ==
  /\ b \in Seq(Byte) /\ Len(b) >= 2
  /\ b[1] = Bytes!START /\ b[Len(b)] = Bytes!END
  /\ \A i \in 2 .. Len(b) : b[i] # Bytes!START
  /\ \A i \in 2 .. Len(b) - 1 : b[i] # Bytes!END

LEMMA Encoded ==
  ASSUME NEW f \in Frames
  PROVE  OneFrame(Bytes!Encode(f))
<1>1. PICK body \in Seq(Plain) : Bytes!Encode(f) = <<Bytes!START>> \o body \o <<Bytes!END>>
  BY EncodedIs
<1> DEFINE x == <<Bytes!START>>
           y == x \o body
           z == <<Bytes!END>>
           b == y \o z
           n == Len(body)
<1>2. Bytes!START \in Byte /\ Bytes!END \in Byte /\ Bytes!START # Bytes!END
  BY DEF Byte, Bytes!START, Bytes!END
<1>3. body \in Seq(Byte) /\ n \in Nat /\ \A i \in 1 .. n : body[i] # Bytes!START /\ body[i] # Bytes!END
  <2>1. Plain \subseteq Byte
    BY DEF Plain
  <2>2. body \in Seq(Byte)
    BY <2>1, SeqMonotonic
  <2>3. \A i \in 1 .. n : body[i] \in Plain
    OBVIOUS
  <2> QED
    BY <2>2, <2>3 DEF Plain
<1> HIDE DEF n
<1>4. x \in Seq(Byte) /\ Len(x) = 1 /\ x[1] = Bytes!START /\ z \in Seq(Byte) /\ Len(z) = 1 /\ z[1] = Bytes!END
  BY <1>2
<1> HIDE DEF x, z
<1>5. y \in Seq(Byte) /\ Len(y) = 1 + n /\ y[1] = Bytes!START /\ \A i \in 1 .. n : y[1 + i] = body[i]
  <2>1. 1 \in 1 .. Len(x)
    BY <1>4
  <2>2. /\ y \in Seq(Byte) /\ Len(y) = Len(x) + Len(body)
        /\ \A i \in 1 .. Len(x) : y[i] = x[i]
        /\ \A i \in 1 .. Len(body) : y[Len(x) + i] = body[i]
    BY <1>3, <1>4, Joined
  <2> QED
    BY <1>4, <2>1, <2>2 DEF n
<1> HIDE DEF y
<1>6. b \in Seq(Byte) /\ Len(b) = n + 2 /\ b[n + 2] = Bytes!END /\ \A i \in 1 .. n + 1 : b[i] = y[i]
  <2>1. 1 \in 1 .. Len(z)
    BY <1>4
  <2>2. /\ b \in Seq(Byte) /\ Len(b) = Len(y) + Len(z)
        /\ \A i \in 1 .. Len(y) : b[i] = y[i]
        /\ \A i \in 1 .. Len(z) : b[Len(y) + i] = z[i]
    BY <1>4, <1>5, Joined
  <2>3. b[(1 + n) + 1] = Bytes!END
    BY <1>4, <1>5, <2>1, <2>2
  <2>4. (1 + n) + 1 = n + 2 /\ 1 + n = n + 1
    BY <1>3
  <2> QED
    BY <1>4, <1>5, <2>2, <2>3, <2>4
<1>7. ASSUME NEW i \in 2 .. n + 1
      PROVE  b[i] # Bytes!START /\ b[i] # Bytes!END
  <2>1. i - 1 \in 1 .. n /\ i \in 1 .. n + 1 /\ 1 + (i - 1) = i
    BY <1>3
  <2> HIDE DEF b
  <2>2. b[i] = y[i] /\ y[1 + (i - 1)] = body[i - 1]
    BY <1>5, <1>6, <2>1
  <2>3. b[i] = body[i - 1]
    BY <2>1, <2>2
  <2> QED
    BY <1>3, <2>1, <2>3
<1>8. Bytes!Encode(f) = b
  BY <1>1 DEF x, y, z, b
<1> HIDE DEF b
<1>9. b[1] = Bytes!START /\ Len(b) >= 2 /\ b[Len(b)] = Bytes!END
  <2>1. 1 \in 1 .. n + 1
    BY <1>3
  <2> QED
    BY <1>3, <1>5, <1>6, <2>1
<1>10. \A i \in 2 .. Len(b) : b[i] # Bytes!START
  <2> TAKE i \in 2 .. Len(b)
  <2>1. i \in 2 .. n + 1 \/ i = n + 2
    BY <1>3, <1>6
  <2> QED
    BY <1>2, <1>6, <1>7, <2>1
<1>11. \A i \in 2 .. Len(b) - 1 : b[i] # Bytes!END
  <2> TAKE i \in 2 .. Len(b) - 1
  <2>1. i \in 2 .. n + 1
    BY <1>3, <1>6
  <2> QED
    BY <1>7, <2>1
<1> QED
  BY <1>6, <1>8, <1>9, <1>10, <1>11 DEF OneFrame

(* The stream: what has been told, and what the bytes still under way will tell, is what was meant. *)
BytesTyped == onLine \in Seq(Byte) /\ buffer \in Seq(Byte) /\ heard \in Seq(Told) /\ p3Open \in BOOLEAN
Settled(b) == Bytes!Cut(b).rest = b /\ Bytes!Cut(b).events = <<>>
BytesInv ==
  /\ BytesTyped /\ Settled(buffer)
  /\ ~p3Open => onLine = <<>> /\ meant = heard
  /\ p3Open => Bytes!Cut(buffer \o onLine).rest = <<>> /\ meant = heard \o Bytes!Cut(buffer \o onLine).events

LEMMA CutIsRecord ==
  ASSUME NEW b \in Seq(Byte)
  PROVE  Bytes!Cut(b).rest \in Seq(Byte) /\ Bytes!Cut(b).events \in Seq(Told)
BY CutType1 DEF CutType

LEMMA Associates ==
  ASSUME NEW T, NEW x \in Seq(T), NEW y \in Seq(T), NEW z \in Seq(T)
  PROVE  x \o (y \o z) = (x \o y) \o z
BY ConcatAssociative

LEMMA NothingJoined ==
  ASSUME NEW T, NEW x \in Seq(T)
  PROVE  x \o <<>> = x /\ <<>> \o x = x
BY ConcatEqualIffEmpty

LEMMA EmptySettled == <<>> \in Seq(Byte) /\ Bytes!Cut(<<>>) = Nothing
<1>1. <<>> \in Seq(Byte) /\ Len(<<>>) = 0
  OBVIOUS
<1>2. NoStart(<<>>, Len(<<>>))
  BY <1>1 DEF NoStart
<1> QED
  BY <1>1, <1>2, CutNone

LEMMA SplitCut ==
  ASSUME NEW a \in Seq(Byte), NEW d \in Seq(Byte), NEW rest, rest = Bytes!Cut(a).rest
  PROVE  /\ Bytes!Cut(a \o d).rest = Bytes!Cut(rest \o d).rest
         /\ Bytes!Cut(a \o d).events = Bytes!Cut(a).events \o Bytes!Cut(rest \o d).events
<1>1. Bytes!Cut(a \o d) = [rest |-> Bytes!Cut(Bytes!Cut(a).rest \o d).rest,
                           events |-> Bytes!Cut(a).events \o Bytes!Cut(Bytes!Cut(a).rest \o d).events]
  BY CutSplit DEF CutInPieces
<1>2. PICK whole, now, next : whole = Bytes!Cut(a \o d) /\ now = Bytes!Cut(a) /\ next = Bytes!Cut(rest \o d)
  OBVIOUS
<1>3. whole = [rest |-> next.rest, events |-> now.events \o next.events]
  BY <1>1, <1>2
<1>4. whole.rest = next.rest /\ whole.events = now.events \o next.events
  BY <1>3
<1> QED
  BY <1>2, <1>4

(* A whole frame, alone on the line, tells its events and leaves nothing. *)
LEMMA FrameTells ==
  ASSUME NEW f \in Frames
  PROVE  /\ Bytes!Encode(f) \in Seq(Byte)
         /\ Bytes!Cut(Bytes!Encode(f)).rest = <<>>
         /\ Bytes!Cut(Bytes!Encode(f)).events = Bytes!Meaning(f)
         /\ Bytes!Meaning(f) \in Seq(Told)
<1>1. PICK b : b = Bytes!Encode(f)
  OBVIOUS
<1>2. /\ b \in Seq(Byte) /\ Len(b) >= 2
      /\ b[1] = Bytes!START /\ b[Len(b)] = Bytes!END
      /\ \A i \in 2 .. Len(b) : b[i] # Bytes!START
      /\ \A i \in 2 .. Len(b) - 1 : b[i] # Bytes!END
  BY <1>1, Encoded DEF OneFrame
<1>3. FrameAt(b, 1, Len(b))
  <2>1. Len(b) \in Nat /\ 1 \in 1 .. Len(b) /\ Len(b) \in 1 + 1 .. Len(b) /\ 1 + 1 = 2
    BY <1>2
  <2>2. NoStart(b, 1 - 1)
    BY DEF NoStart
  <2> QED
    BY <1>2, <2>1, <2>2 DEF FrameAt
<1>4. SubSeq(b, Len(b) + 1, Len(b)) = <<>> /\ SubSeq(b, 1, Len(b)) = b
  <2>1. Len(b) + 1 \in Int /\ Len(b) \in Int /\ Len(b) < Len(b) + 1
    BY <1>2
  <2>2. SubSeq(b, Len(b) + 1, Len(b)) = <<>>
    BY <2>1, SubSeqEmpty
  <2> QED
    BY <1>2, <2>2, SubSeqFull
<1>5. Bytes!Dispatch(b) \in Seq(Told) /\ Bytes!Dispatch(b) = Bytes!Meaning(f)
  <2>1. Bytes!Dispatch(Bytes!Encode(f)) = Bytes!Meaning(f)
    BY FramesAssumption
  <2>2. Bytes!Dispatch(b) \in Seq(Told)
    BY <1>2, DispatchTells
  <2> QED
    BY <1>1, <2>1, <2>2
<1>6. Bytes!Cut(b) = [rest |-> Bytes!Cut(<<>>).rest, events |-> Bytes!Dispatch(b) \o Bytes!Cut(<<>>).events]
  <2>1. Bytes!Cut(b) = [rest |-> Bytes!Cut(SubSeq(b, Len(b) + 1, Len(b))).rest,
                        events |-> Bytes!Dispatch(SubSeq(b, 1, Len(b))) \o Bytes!Cut(SubSeq(b, Len(b) + 1, Len(b))).events]
    BY <1>2, <1>3, CutFrame
  <2> QED
    BY <1>4, <2>1
<1>7. Bytes!Cut(<<>>).rest = <<>> /\ Bytes!Cut(<<>>).events = <<>>
  BY EmptySettled DEF Nothing
<1>8. Bytes!Dispatch(b) \o <<>> = Bytes!Dispatch(b)
  BY <1>5, NothingJoined
<1> QED
  BY <1>1, <1>2, <1>5, <1>6, <1>7, <1>8

LEMMA BytesStart == Bytes!Init => BytesInv
<1> SUFFICES ASSUME Bytes!Init PROVE BytesInv
  OBVIOUS
<1>1. p3Open = FALSE /\ onLine = <<>> /\ buffer = <<>> /\ heard = <<>> /\ meant = <<>>
  BY DEF Bytes!Init
<1>2. BytesTyped
  <2>1. <<>> \in Seq(Told) /\ FALSE \in BOOLEAN
    OBVIOUS
  <2> QED
    BY <1>1, <2>1, EmptySettled DEF BytesTyped
<1>3. Settled(buffer)
  BY <1>1, EmptySettled DEF Settled, Nothing
<1> QED
  BY <1>1, <1>2, <1>3 DEF BytesInv

LEMMA SendKeeps ==
  ASSUME BytesInv, NEW f \in Frames, Bytes!SendFrame(f)
  PROVE  BytesInv'
<1>1. PICK d : d = Bytes!Encode(f)
  OBVIOUS
<1>2. /\ d \in Seq(Byte) /\ Bytes!Cut(d).rest = <<>> /\ Bytes!Cut(d).events = Bytes!Meaning(f)
      /\ Bytes!Meaning(f) \in Seq(Told)
  BY <1>1, FrameTells
<1>3. /\ p3Open /\ p3Open' = p3Open /\ buffer' = buffer /\ heard' = heard
      /\ onLine' = onLine \o d /\ meant' = meant \o Bytes!Meaning(f)
  BY <1>1 DEF Bytes!SendFrame
<1>4. onLine \in Seq(Byte) /\ buffer \in Seq(Byte) /\ heard \in Seq(Told) /\ p3Open \in BOOLEAN /\ Settled(buffer)
  BY DEF BytesInv, BytesTyped
<1>5. PICK a : a = buffer \o onLine
  OBVIOUS
<1>6. a \in Seq(Byte) /\ Bytes!Cut(a).rest = <<>> /\ meant = heard \o Bytes!Cut(a).events
  <2>1. a \in Seq(Byte)
    BY <1>4, <1>5
  <2> QED
    BY <1>3, <1>5, <2>1 DEF BytesInv
<1>7. buffer' \o onLine' = a \o d
  <2>1. buffer \o (onLine \o d) = (buffer \o onLine) \o d
    BY <1>2, <1>4, Associates
  <2> QED
    BY <1>3, <1>5, <2>1
<1>8. <<>> \o d = d
  BY <1>2, NothingJoined
<1>9. Bytes!Cut(a \o d).rest = <<>> /\ Bytes!Cut(a \o d).events = Bytes!Cut(a).events \o Bytes!Meaning(f)
  <2>1. PICK rest : rest = Bytes!Cut(a).rest
    OBVIOUS
  <2>2. /\ Bytes!Cut(a \o d).rest = Bytes!Cut(rest \o d).rest
        /\ Bytes!Cut(a \o d).events = Bytes!Cut(a).events \o Bytes!Cut(rest \o d).events
    BY <1>2, <1>6, <2>1, SplitCut
  <2>3. rest \o d = d
    BY <1>6, <1>8, <2>1
  <2> QED
    BY <1>2, <2>2, <2>3
<1>10. meant' = heard \o Bytes!Cut(a \o d).events
  <2>1. PICK x : x = Bytes!Cut(a).events
    OBVIOUS
  <2>2. x \in Seq(Told)
    BY <1>6, <2>1, CutIsRecord
  <2>3. heard \o (x \o Bytes!Meaning(f)) = (heard \o x) \o Bytes!Meaning(f)
    BY <1>2, <1>4, <2>2, Associates
  <2> QED
    BY <1>3, <1>6, <1>9, <2>1, <2>3
<1>11. BytesTyped'
  <2>1. onLine \o d \in Seq(Byte)
    BY <1>2, <1>4
  <2> QED
    BY <1>3, <1>4, <2>1 DEF BytesTyped
<1>12. Settled(buffer')
  BY <1>3, <1>4
<1> QED
  BY <1>3, <1>7, <1>9, <1>10, <1>11, <1>12 DEF BytesInv, Settled

(* What a rest leaves is itself. *)
LEMMA RestSettled ==
  ASSUME NEW x \in Seq(Byte)
  PROVE  Settled(Bytes!Cut(x).rest)
<1>1. PICK r : r = Bytes!Cut(x).rest
  OBVIOUS
<1>2. r \in Seq(Byte) /\ Bytes!Cut(x).events \in Seq(Told) /\ <<>> \in Seq(Byte)
  BY <1>1, CutIsRecord, EmptySettled
<1>3. x \o <<>> = x /\ r \o <<>> = r
  BY <1>2, NothingJoined
<1>4. /\ Bytes!Cut(x \o <<>>).rest = Bytes!Cut(r \o <<>>).rest
      /\ Bytes!Cut(x \o <<>>).events = Bytes!Cut(x).events \o Bytes!Cut(r \o <<>>).events
  BY <1>1, <1>2, SplitCut
<1>5. Bytes!Cut(r).rest = r /\ Bytes!Cut(x).events = Bytes!Cut(x).events \o Bytes!Cut(r).events
  BY <1>1, <1>3, <1>4
<1>6. PICK e, g : e = Bytes!Cut(x).events /\ g = Bytes!Cut(r).events
  OBVIOUS
<1>7. e \in Seq(Told) /\ g \in Seq(Told) /\ e \o g = e
  BY <1>2, <1>5, <1>6, CutIsRecord
<1>8. g = <<>>
  BY <1>7, ConcatEqualIffEmpty
<1> QED
  BY <1>1, <1>5, <1>6, <1>8 DEF Settled

LEMMA ChunkKeeps ==
  ASSUME BytesInv, NEW n \in 1 .. Len(onLine), Bytes!Chunk(n)
  PROVE  BytesInv'
<1>1. onLine \in Seq(Byte) /\ buffer \in Seq(Byte) /\ heard \in Seq(Told) /\ p3Open \in BOOLEAN
  BY DEF BytesInv, BytesTyped
<1>2. PICK p, q : p = SubSeq(onLine, 1, n) /\ q = SubSeq(onLine, n + 1, Len(onLine))
  OBVIOUS
<1>3. p \in Seq(Byte) /\ q \in Seq(Byte) /\ onLine = p \o q
  <2>1. 1 \in 1 .. Len(onLine) + 1 /\ n \in 0 .. Len(onLine) /\ n + 1 \in 1 .. Len(onLine) + 1
        /\ Len(onLine) \in 0 .. Len(onLine) /\ n \in 1 - 1 .. Len(onLine) /\ Len(onLine) \in n .. Len(onLine)
    BY <1>1
  <2>2. p \in Seq(Byte) /\ q \in Seq(Byte)
    BY <1>1, <1>2, <2>1, SuffixIs
  <2>3. p \o q = SubSeq(onLine, 1, Len(onLine))
    BY <1>1, <1>2, <2>1, ConcatAdjacentSubSeq
  <2>4. SubSeq(onLine, 1, Len(onLine)) = onLine
    BY <1>1, SubSeqFull
  <2> QED
    BY <2>2, <2>3, <2>4
<1>4. PICK a : a = buffer \o p
  OBVIOUS
<1>5. a \in Seq(Byte)
  BY <1>1, <1>3, <1>4
<1>6. PICK r, now : r = Bytes!Cut(a).rest /\ now = Bytes!Cut(a).events
  OBVIOUS
<1>7. r \in Seq(Byte) /\ now \in Seq(Told) /\ Settled(r)
  BY <1>5, <1>6, CutIsRecord, RestSettled
<1>8. buffer' = r /\ heard' = heard \o now /\ onLine' = q /\ p3Open' = p3Open /\ meant' = meant
  BY <1>2, <1>4, <1>6 DEF Bytes!Chunk
<1>9. p3Open
  <2>1. onLine # <<>>
    BY <1>1
  <2> QED
    BY <1>1, <2>1 DEF BytesInv
<1>10. buffer \o onLine = a \o q
  <2>1. buffer \o (p \o q) = (buffer \o p) \o q
    BY <1>1, <1>3, Associates
  <2> QED
    BY <1>3, <1>4, <2>1
<1>11. PICK x : x = Bytes!Cut(r \o q).events
  OBVIOUS
<1>12. x \in Seq(Told)
  <2>1. r \o q \in Seq(Byte)
    BY <1>3, <1>7
  <2> QED
    BY <1>11, <2>1, CutIsRecord
<1>13. Bytes!Cut(a \o q).rest = Bytes!Cut(r \o q).rest /\ Bytes!Cut(a \o q).events = now \o x
  <2>1. /\ Bytes!Cut(a \o q).rest = Bytes!Cut(r \o q).rest
        /\ Bytes!Cut(a \o q).events = Bytes!Cut(a).events \o Bytes!Cut(r \o q).events
    BY <1>3, <1>5, <1>6, SplitCut
  <2> QED
    BY <1>6, <1>11, <2>1
<1>14. Bytes!Cut(a \o q).rest = <<>> /\ meant = heard \o (now \o x)
  <2>1. Bytes!Cut(buffer \o onLine).rest = <<>> /\ meant = heard \o Bytes!Cut(buffer \o onLine).events
    BY <1>9 DEF BytesInv
  <2> QED
    BY <1>10, <1>13, <2>1
<1>15. heard \o (now \o x) = (heard \o now) \o x
  BY <1>1, <1>7, <1>12, Associates
<1>16. BytesTyped'
  <2>1. heard \o now \in Seq(Told)
    BY <1>1, <1>7
  <2> QED
    BY <1>1, <1>3, <1>7, <1>8, <2>1 DEF BytesTyped
<1>17. Bytes!Cut(buffer' \o onLine').rest = <<>> /\ meant' = heard' \o Bytes!Cut(buffer' \o onLine').events
  BY <1>8, <1>11, <1>13, <1>14, <1>15
<1> QED
  BY <1>7, <1>8, <1>9, <1>16, <1>17 DEF BytesInv, Settled

LEMMA BreakKeeps ==
  ASSUME BytesInv, Bytes!Break
  PROVE  BytesInv'
<1>1. /\ p3Open' = FALSE /\ onLine' = <<>> /\ meant' = heard /\ buffer' = buffer /\ heard' = heard
  BY DEF Bytes!Break
<1>2. buffer \in Seq(Byte) /\ heard \in Seq(Told) /\ Settled(buffer)
  BY DEF BytesInv, BytesTyped
<1>3. BytesTyped'
  BY <1>1, <1>2, EmptySettled DEF BytesTyped
<1> QED
  BY <1>1, <1>2, <1>3 DEF BytesInv, Settled

(* A connection may begin within a frame: what there is of it has no START. *)
LEMMA OpenKeeps ==
  ASSUME BytesInv, Bytes!Open
  PROVE  BytesInv'
<1>1. PICK f \in Frames : \E k \in 2 .. Len(Bytes!Encode(f)) + 1 :
        onLine' = SubSeq(Bytes!Encode(f), k, Len(Bytes!Encode(f)))
  BY DEF Bytes!Open
<1>2. PICK d : d = Bytes!Encode(f)
  OBVIOUS
<1>3. PICK k \in 2 .. Len(d) + 1 : onLine' = SubSeq(d, k, Len(d))
  BY <1>1, <1>2
<1>4. d \in Seq(Byte) /\ \A i \in 2 .. Len(d) : d[i] # Bytes!START
  BY <1>2, Encoded DEF OneFrame
<1>5. ~p3Open /\ p3Open' = TRUE /\ buffer' = <<>> /\ heard' = heard /\ meant' = meant
  BY DEF Bytes!Open
<1>6. heard \in Seq(Told) /\ meant = heard
  BY <1>5 DEF BytesInv, BytesTyped
<1>7. PICK t : t = onLine'
  OBVIOUS
<1>8. t \in Seq(Byte) /\ NoStart(t, Len(t))
  <2>1. k \in 1 .. Len(d) + 1 /\ Len(d) \in 0 .. Len(d) /\ Len(d) \in Nat
    BY <1>4
  <2>2. /\ t \in Seq(Byte) /\ Len(t) = (IF k <= Len(d) THEN Len(d) - k + 1 ELSE 0)
        /\ \A i \in 1 .. Len(d) - k + 1 : t[i] = d[k + i - 1]
    BY <1>3, <1>4, <1>7, <2>1, SuffixIs
  <2>3. ASSUME NEW i \in 1 .. Len(t)
        PROVE  t[i] # Bytes!START
    <3>1. i \in 1 .. Len(d) - k + 1 /\ k + i - 1 \in 2 .. Len(d)
      BY <2>1, <2>2
    <3> QED
      BY <1>4, <2>2, <3>1
  <2> QED
    BY <2>2, <2>3 DEF NoStart
<1>9. Bytes!Cut(t).rest = <<>> /\ Bytes!Cut(t).events = <<>>
  BY <1>8, CutNone DEF Nothing
<1>10. buffer' \o onLine' = t
  <2>1. <<>> \o t = t
    BY <1>8, NothingJoined
  <2> QED
    BY <1>5, <1>7, <2>1
<1>11. heard \o <<>> = heard
  BY <1>6, NothingJoined
<1>12. BytesTyped'
  BY <1>5, <1>6, <1>7, <1>8, EmptySettled DEF BytesTyped
<1>13. Settled(buffer')
  BY <1>5, EmptySettled DEF Settled, Nothing
<1>14. meant' = heard' \o Bytes!Cut(buffer' \o onLine').events
  BY <1>5, <1>6, <1>9, <1>10, <1>11
<1> QED
  BY <1>5, <1>9, <1>10, <1>12, <1>13, <1>14 DEF BytesInv, Settled

LEMMA BytesKept == BytesInv /\ [Bytes!Next]_Bytes!frameVars => BytesInv'
<1> SUFFICES ASSUME BytesInv, [Bytes!Next]_Bytes!frameVars PROVE BytesInv'
  OBVIOUS
<1>1. ASSUME NEW f \in Frames, Bytes!SendFrame(f) PROVE BytesInv'
  BY <1>1, SendKeeps
<1>2. ASSUME NEW n \in 1 .. Len(onLine), Bytes!Chunk(n) PROVE BytesInv'
  BY <1>2, ChunkKeeps
<1>3. CASE Bytes!Break
  BY <1>3, BreakKeeps
<1>4. CASE Bytes!Open
  BY <1>4, OpenKeeps
<1>5. CASE UNCHANGED Bytes!frameVars
  <2>1. p3Open' = p3Open /\ onLine' = onLine /\ buffer' = buffer /\ heard' = heard /\ meant' = meant
    BY <1>5 DEF Bytes!frameVars
  <2>2. BytesTyped'
    BY <2>1 DEF BytesInv, BytesTyped
  <2> QED
    BY <2>1, <2>2 DEF BytesInv, Settled
<1> QED
  BY <1>1, <1>2, <1>3, <1>4, <1>5 DEF Bytes!Next

LEMMA BytesTold == BytesInv => Bytes!FramesIntact
<1> SUFFICES ASSUME BytesInv PROVE Bytes!FramesIntact
  OBVIOUS
<1>1. onLine \in Seq(Byte) /\ buffer \in Seq(Byte) /\ heard \in Seq(Told) /\ p3Open \in BOOLEAN /\ Settled(buffer)
  BY DEF BytesInv, BytesTyped
<1>2. PICK x \in Seq(Told) : meant = heard \o x /\ (p3Open /\ onLine = <<>> => x = <<>>)
  <2>1. CASE ~p3Open
    <3>1. meant = heard /\ heard \o <<>> = heard /\ <<>> \in Seq(Told)
      BY <1>1, <2>1, NothingJoined DEF BytesInv
    <3> QED
      BY <2>1, <3>1
  <2>2. CASE p3Open
    <3>1. PICK x : x = Bytes!Cut(buffer \o onLine).events
      OBVIOUS
    <3>2. buffer \o onLine \in Seq(Byte)
      BY <1>1
    <3>3. x \in Seq(Told) /\ meant = heard \o x
      BY <2>2, <3>1, <3>2, CutIsRecord DEF BytesInv
    <3>4. onLine = <<>> => x = <<>>
      <4>1. buffer \o <<>> = buffer
        BY <1>1, NothingJoined
      <4> QED
        BY <1>1, <3>1, <4>1 DEF Settled
    <3> QED
      BY <3>3, <3>4
  <2> QED
    BY <2>1, <2>2
<1>3. p3Open /\ onLine = <<>> => heard = meant
  BY <1>1, <1>2, NothingJoined
<1>4. Len(heard) <= Len(heard \o x)
  BY <1>1
<1>5. SubSeq(heard, 1, Len(heard)) = SubSeq(heard \o x, 1, Len(heard))
  <2>1. CASE Len(heard) = 0
    <3>1. SubSeq(heard, 1, 0) = <<>> /\ SubSeq(heard \o x, 1, 0) = <<>>
      BY SubSeqEmpty
    <3> QED
      BY <2>1, <3>1
  <2>2. CASE Len(heard) # 0
    <3>1. 1 \in 1 .. Len(heard) /\ Len(heard) \in 1 .. Len(heard)
      BY <1>1, <2>2
    <3> QED
      BY <1>1, <3>1, SubSeqOfConcat1
  <2> QED
    BY <2>1, <2>2
<1>6. Bytes!IsPrefix(heard, meant)
  BY <1>2, <1>4, <1>5 DEF Bytes!IsPrefix
<1> QED
  BY <1>3, <1>6 DEF Bytes!FramesIntact

-----------------------------------------------------------------------------
(* A step of the whole leaves the part that runs, and is one of the log or of the bytes if that is the one. *)
LEMMA StepOfAStream ==
  ASSUME [RecordsNext]_recordVars
  PROVE  /\ part' = part
         /\ part = "log" => [Log!Next]_(Log!logVars)
         /\ part = "bytes" => [Bytes!Next]_(Bytes!frameVars)
<1>1. CASE UNCHANGED recordVars
  BY <1>1 DEF recordVars, logVars, Log!logVars, Log!sockVars, bytesVars, Bytes!frameVars
<1>2. CASE RecordsNext
  BY <1>2 DEF RecordsNext, RaceStateStep, EventStep, EliminationStep, PointsStep, FinishStep, ActivityStep, LogStep, BytesStep
<1> QED
  BY <1>1, <1>2

LEMMA StreamInvariant == RecordsSpec => []((part = "log" => LogInv) /\ (part = "bytes" => BytesInv))
<1>1. RecordsInit => (part = "log" => LogInv) /\ (part = "bytes" => BytesInv)
  BY LogInitially, BytesStart DEF RecordsInit
<1>2. (part = "log" => LogInv) /\ (part = "bytes" => BytesInv) /\ [RecordsNext]_recordVars
        => ((part = "log" => LogInv) /\ (part = "bytes" => BytesInv))'
  BY StepOfAStream, LogInductive, BytesKept
<1> QED
  BY <1>1, <1>2, PTL DEF RecordsSpec

(* Whatever is queued in the socket or on its way, in batches, snapshots, corrections and re-rankings,
   adds up to the passings of the displayed race in crossing order, once the race stream has announced
   the race; unless there were more passings than are kept, or the race was left and displayed again
   before the stream noticed.  For any races, riders, times, positions, limits and lost connections. *)
THEOREM LogAlwaysComplete == RecordsSpec => []LogComplete
<1>1. (part = "log" => LogInv) => LogComplete
  BY LogInvImplies DEF LogComplete
<1> QED
  BY <1>1, StreamInvariant, PTL

(* The log, its limits and the socket keep their types. *)
THEOREM LogTyped == RecordsSpec => [](part = "log" => Log!TypeOK)
<1>1. (part = "log" => LogInv) => (part = "log" => Log!TypeOK)
  BY LogInvImplies
<1> QED
  BY <1>1, StreamInvariant, PTL

(* The callbacks of a P3 decoder are told the frames that were sent, each once, in order and with their
   values, up to those still on their way, and nothing else: for any frames that parse alone as they
   were meant, any number of bytes at a time, any lost connections and any place in a frame at which a
   new one begins. *)
THEOREM FramesAlwaysIntact == RecordsSpec => []FramesIntact
<1>1. (part = "bytes" => BytesInv) => FramesIntact
  BY BytesTold DEF FramesIntact
<1> QED
  BY <1>1, StreamInvariant, PTL
=============================================================================
