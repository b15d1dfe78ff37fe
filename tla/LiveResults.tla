----------------------------- MODULE LiveResults -----------------------------
(***************************************************************************)
(* The results of LiveTracking: the worker maps the stored passings of the *)
(* measurement through the setup to timing points and projects them, from  *)
(* scratch after every change, to laps, splits and a ranking.  Passings    *)
(* arrive in any order (a decoder repeats what was lost) and are deleted   *)
(* by the operator.                                                        *)
(*                                                                         *)
(* Left out: signals, unreadable timestamps, transponders nobody owns      *)
(* (each becomes an athlete of its own), the debug lists, and the 250 ms   *)
(* between a change and the projection.                                    *)
(***************************************************************************)
EXTENDS Integers, Sequences, FiniteSets, SequencesExt

CONSTANTS
  Track,        \* timing points by order: [decoder, role, enabled]
  ClockOffset,  \* clock offset per decoder of the register
  Athletes,     \* the athletes of the pools, a sequence of [id, transponders]
  Times,        \* decoder times
  DebounceTime, MinSectorTime, MinLapTime, KeepLapTimes,
  MaxStored     \* bound: passings stored at a time

VARIABLES
  recorded,     \* passings of the measurement in the store
  board         \* liveTrackingResults: state per athlete

resultVars == <<recorded, board>>

Unset == -1
Points == {i \in DOMAIN Track : Track[i].enabled}
Transponders == UNION {Athletes[i].transponders : i \in DOMAIN Athletes}
AthleteIds == {Athletes[i].id : i \in DOMAIN Athletes}
DecoderPassings == [decoder : DOMAIN ClockOffset, time : Times, transponder : Transponders]

(* The orders of the track count disabled points; maxOrder does not. *)
MaxOrder == CHOOSE i \in Points : \A j \in Points : j <= i
StartFinish == CHOOSE i \in Points : Track[i].role = "start_finish"

(* A transponder entered for several athletes belongs to the last. *)
Owner(transponder) ==
  LET holders == {i \in DOMAIN Athletes : transponder \in Athletes[i].transponders}
  IN Athletes[CHOOSE i \in holders : \A j \in holders : j <= i].id

(* toTimingPointPassings: a passing at every enabled point of its decoder, on the corrected clock. *)
Crossings(passings) ==
  UNION {{[point |-> i, at |-> p.time + ClockOffset[p.decoder], transponder |-> p.transponder] :
            i \in {j \in Points : Track[j].decoder = p.decoder}} : p \in passings}

(* By time, then by id, which begins with the point. *)
Earlier(c, d) ==
  \/ c.at < d.at
  \/ c.at = d.at /\ (c.point < d.point \/ (c.point = d.point /\ c.transponder <= d.transponder))

InOrder(passings) == SetToSortSeq(Crossings(passings), Earlier)

-----------------------------------------------------------------------------
(* One passing of an athlete. *)

Fresh == [expected |-> Unset, lapStart |-> Unset, last |-> Unset,
          lastAt |-> [i \in Points |-> Unset], splits |-> <<>>, laps |-> <<>>, total |-> 0]

(* Mutant of Implausible: the expected order binds the start/finish line too. *)
ImplausibleOrder(a, c) ==
  \/ a.lastAt[c.point] # Unset /\ c.at - a.lastAt[c.point] < DebounceTime
  \/ a.expected \notin {Unset, c.point}
  \/ a.last # Unset /\ c.at - a.last < MinSectorTime

Implausible(a, c) ==
  \/ a.lastAt[c.point] # Unset /\ c.at - a.lastAt[c.point] < DebounceTime
  \/ c.point # StartFinish /\ a.expected \notin {Unset, c.point}
  \/ a.last # Unset /\ c.at - a.last < MinSectorTime

Accepted(a, c) ==
  [a EXCEPT !.last = c.at, !.lastAt[c.point] = c.at,
            !.expected = IF c.point >= MaxOrder THEN 1 ELSE c.point + 1]

Bounded(list) == SubSeq(list, Len(list) - (IF Len(list) > KeepLapTimes THEN KeepLapTimes ELSE Len(list)) + 1,
                        Len(list))

(* A passing of the start/finish line too early for a lap is rejected; what it was accepted for so
   far stays. *)
StartOrLap(a, c) ==
  CASE a.lapStart = Unset -> [a EXCEPT !.lapStart = c.at, !.splits = <<>>]
    [] a.lapStart # Unset /\ c.at - a.lapStart < MinLapTime -> a
    [] OTHER -> [a EXCEPT !.total = @ + 1, !.laps = Bounded(Append(@, c.at - a.lapStart)),
                          !.lapStart = c.at, !.splits = <<>>]

Split(a, c) ==
  LET time == c.at - a.lapStart
      split == [point |-> c.point, time |-> time]
      same == {i \in DOMAIN a.splits : a.splits[i].point = c.point}
  IN CASE a.lapStart = Unset \/ time < MinSectorTime -> a
       [] same # {} -> [a EXCEPT !.splits = [i \in DOMAIN @ |-> IF i \in same THEN split ELSE @[i]]]
       [] OTHER -> [a EXCEPT !.splits = Append(@, split)]

Pass(a, c) ==
  IF Implausible(a, c) THEN a
  ELSE IF c.point = StartFinish THEN StartOrLap(Accepted(a, c), c) ELSE Split(Accepted(a, c), c)

Projection(passings) ==
  FoldLeft(LAMBDA state, c : [state EXCEPT ![Owner(c.transponder)] = Pass(@, c)],
           [id \in AthleteIds |-> Fresh], InOrder(passings))

BestLap(a) == CHOOSE t \in ToSet(a.laps) : \A u \in ToSet(a.laps) : t <= u

(* qualifyingRanking: the athletes with a lap, the fastest first. *)
Ranking(state) ==
  SetToSortSeq({id \in AthleteIds : state[id].laps # <<>>},
               LAMBDA x, y : BestLap(state[x]) <= BestLap(state[y]))

-----------------------------------------------------------------------------
PassingRecorded(p) ==
  /\ p \notin recorded /\ Cardinality(recorded) < MaxStored
  /\ recorded' = recorded \cup {p}
  /\ board' = Projection(recorded')

PassingDeleted(p) ==
  /\ p \in recorded
  /\ recorded' = recorded \ {p}
  /\ board' = Projection(recorded')

Init == recorded = {} /\ board = Projection({})

Next == \E p \in DecoderPassings : PassingRecorded(p) \/ PassingDeleted(p)

Spec == Init /\ [][Next]_resultVars

-----------------------------------------------------------------------------
(* The variables have their types. *)
TypeOK ==
  /\ recorded \subseteq DecoderPassings
  /\ DOMAIN board = AthleteIds
  /\ \A id \in AthleteIds : board[id].total \in Nat /\ Len(board[id].laps) <= KeepLapTimes

(* The times at which the athlete's transponders were seen at the point. *)
SeenAt(id, i) == {c.at : c \in {d \in Crossings(recorded) : d.point = i /\ Owner(d.transponder) = id}}

(* The end of the k-th lap of the list, counted back from the start of the running lap. *)
Boundary(a, k) == a.lapStart - FoldLeft(+, 0, SubSeq(a.laps, k + 1, Len(a.laps)))

(* However the passings come in: the laps of an athlete follow each other without gap or overlap,
   from one passing of the own transponders at the start/finish line to another and none shorter
   than the minimum; no passing that far behind the start of a lap is swallowed, unless another
   passing of the athlete was just before it; a split of the running lap is a passing in it; and
   the fastest athlete leads. *)
LapsMeasured ==
  /\ \A id \in AthleteIds :
       LET a == board[id]
           ends == {Boundary(a, k) : k \in 0 .. Len(a.laps)}
           justBefore(t) == \E i \in Points : \E u \in SeenAt(id, i) :
                              \/ i = StartFinish /\ u < t /\ t - u < DebounceTime
                              \/ i # StartFinish /\ u <= t /\ t - u < MinSectorTime
       IN a.lapStart # Unset =>
            /\ ends \subseteq SeenAt(id, StartFinish)
            /\ \A k \in DOMAIN a.laps : a.laps[k] >= MinLapTime
            /\ \A t \in SeenAt(id, StartFinish) :
                 t >= Boundary(a, 0) =>
                   \/ t \in ends
                   \/ \E e \in ends : e <= t /\ t - e < MinLapTime
                   \/ justBefore(t)
            /\ \A i \in DOMAIN a.splits : a.lapStart + a.splits[i].time \in SeenAt(id, a.splits[i].point)
  /\ \A i, j \in DOMAIN Ranking(board) :
       i <= j => BestLap(board[Ranking(board)[i]]) <= BestLap(board[Ranking(board)[j]])
=============================================================================
