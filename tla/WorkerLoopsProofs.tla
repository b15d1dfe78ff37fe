-------------------------- MODULE WorkerLoopsProofs --------------------------
(***************************************************************************)
(* Proofs about the two loops of the LiveTracking worker, for every bound  *)
(* of MCWorkerLoops: the command loop never runs two commands at a time    *)
(* and never writes overlapping windows, and the catch-up never loses      *)
(* track of a number.                                                      *)
(***************************************************************************)
EXTENDS MCWorkerLoops, SequenceTheorems, FiniteSetTheorems, WellFoundedInduction, TLAPS

(* A set of natural numbers that is not empty has a least element. *)
LEMMA LeastExists ==
  ASSUME NEW S \in SUBSET Nat, S # {}
  PROVE  \E x \in S : \A y \in S : x <= y
<1>1. PICK x \in S : \A y \in S : <<y, x>> \notin OpToRel(<, Nat)
  BY NatLessThanWellFounded, WFMin
<1>2. \A y \in S : ~(y < x)
  BY <1>1 DEF OpToRel
<1> QED
  BY <1>2

(* ... and, if it is bounded, a greatest one. *)
LEMMA GreatestExists ==
  ASSUME NEW S \in SUBSET Nat, S # {}, NEW n \in Nat, \A x \in S : x <= n
  PROVE  \E x \in S : \A y \in S : y <= x
<1> DEFINE D == {d \in Nat : \E x \in S : d = n - x}
<1>1. PICK y \in S : TRUE
  OBVIOUS
<1>2. n - y \in D
  BY <1>1
<1>3. PICK d \in D : \A e \in D : d <= e
  BY <1>2, LeastExists
<1>4. PICK x \in S : d = n - x
  BY <1>3
<1>5. \A z \in S : n - z \in D
  OBVIOUS
<1> QED
  BY <1>3, <1>4, <1>5

(* A step of the model is a step of one loop, or leaves both alone. *)
LEMMA StepOfALoop ==
  ASSUME [Next]_<<part, commandVars, decoderVars>>
  PROVE  [Commands!Next]_commandVars /\ [Decoder!Next]_decoderVars
  BY DEF Next, CommandStep, DecoderStep

-----------------------------------------------------------------------------
(* The command loop.  A version of the session document is sound up to a seq n when its commands
   ran one at a time and its windows are in order and end at n at the latest. *)
Entry == [id : Commands!Commands, intent : Commands!Intents, status : Commands!Statuses]

Document ==
  [state : {"idle", "running", "error"}, queue : Seq(Entry), measurement : Seq(Seq(Commands!Segment))]

InOrder(q) ==
  \A i, j \in 1 .. Len(q) :
    (i < j /\ q[j].status # "queued") => q[i].status \in {"completed", "failed"}

OrderedUpTo(segments, n) ==
  \A i \in 1 .. Len(segments) :
    /\ segments[i].fromSeq <= n
    /\ segments[i].toSeq # None => segments[i].fromSeq <= segments[i].toSeq /\ segments[i].toSeq <= n
    /\ i < Len(segments) =>
         segments[i].toSeq # None /\ segments[i].toSeq <= segments[i + 1].fromSeq

Sound(s, n) ==
  /\ s \in Document /\ Len(s.measurement) <= 1
  /\ InOrder(s.queue)
  /\ OrderedUpTo(Commands!Segments(s), n)

(* Windows end at the last seq of the store, or, while a command waits with the answer it got, at
   that answer: nobody else opens or closes a window meanwhile. *)
Bound == IF inFlight # None /\ inFlight.answer = "ok" THEN inFlight.seq ELSE lastSeq

Write == [base : Nat, session : Document, stray : BOOLEAN]
Frame == [type : {"version"}, rev : Nat, session : Document] \cup [type : {"rev_mismatch"}]
Copy == [rev : Nat, session : Document]
Flight == [id : Commands!Commands, intent : Commands!Intents, answer : {"asked", "ok", "failed"}, seq : Nat]

(* The inductive invariant in parts: the stored document, its versions on their way (a write on the
   present revision is committed as it is), the worker. *)
ServerSound == Sound(session, Bound) /\ rev \in Nat /\ lastSeq \in 0 .. MaxSeq

SoundWrites(r, n) == {w \in Write : w.base <= r /\ Sound(w.session, n)}
SoundFrames(r, n) == {f \in Frame : f.type = "version" => f.rev <= r /\ Sound(f.session, n)}
SoundCopies(r, n) == {c \in Copy : c.rev <= r /\ Sound(c.session, n)}

OnTheWaySound == up \in Seq(SoundWrites(rev, Bound)) /\ down \in Seq(SoundFrames(rev, Bound))

LocalSound == local # None \/ inFlight # None => local \in SoundCopies(rev, Bound)

WorkerSound ==
  /\ sessionLink \in {"open", "closing"} /\ tick \in BOOLEAN
  /\ inFlight # None => inFlight \in Flight /\ inFlight.id \in executed /\ inFlight.seq <= lastSeq
  /\ executed \subseteq Commands!Commands
  /\ faults \in 0 .. MaxFaults

CommandsInv == ServerSound /\ OnTheWaySound /\ LocalSound /\ WorkerSound

(* What is sound up to a seq is sound up to every later one. *)
LEMMA SoundLater ==
  ASSUME NEW m \in Nat, NEW n \in Nat, m <= n, NEW s, Sound(s, m)
  PROVE  Sound(s, n)
<1>1. Commands!Segments(s) \in Seq(Commands!Segment)
  BY DEF Sound, Document, Commands!Segments
<1> DEFINE w == Commands!Segments(s)
<1>2. ASSUME NEW i \in 1 .. Len(w)
      PROVE  /\ w[i].fromSeq <= n
             /\ w[i].toSeq # None => w[i].fromSeq <= w[i].toSeq /\ w[i].toSeq <= n
             /\ i < Len(w) => w[i].toSeq # None /\ w[i].toSeq <= w[i + 1].fromSeq
  <2>1. w[i] \in Commands!Segment
    BY <1>1
  <2>2. w[i].fromSeq \in Nat /\ (w[i].toSeq # None => w[i].toSeq \in Nat)
    BY <2>1 DEF Commands!Segment
  <2>3. /\ w[i].fromSeq <= m
        /\ w[i].toSeq # None => w[i].fromSeq <= w[i].toSeq /\ w[i].toSeq <= m
        /\ i < Len(w) => w[i].toSeq # None /\ w[i].toSeq <= w[i + 1].fromSeq
    BY DEF Sound, OrderedUpTo
  <2> QED
    BY <2>2, <2>3
<1> QED
  BY <1>2 DEF Sound, OrderedUpTo

(* First picks the least index of a set that is not empty. *)
LEMMA FirstIsLeast ==
  ASSUME NEW k \in Nat, NEW S \in SUBSET (1 .. k), S # {}
  PROVE  Commands!First(S) \in S /\ \A j \in S : Commands!First(S) <= j
<1>1. S \in SUBSET Nat
  OBVIOUS
<1>2. \E i \in S : \A j \in S : i <= j
  BY <1>1, LeastExists
<1> QED
  BY <1>2 DEF Commands!First

(* A queue whose i-th command changes its status. *)
LEMMA StatusChange ==
  ASSUME NEW s \in Document, NEW i \in 1 .. Len(s.queue), NEW status \in Commands!Statuses
  PROVE  LET t == [s EXCEPT !.queue[i].status = status]
         IN /\ t \in Document /\ t.measurement = s.measurement /\ t.state = s.state
            /\ Len(t.queue) = Len(s.queue)
            /\ \A j \in 1 .. Len(s.queue) :
                 t.queue[j].status = IF j = i THEN status ELSE s.queue[j].status
<1> DEFINE e == [s.queue[i] EXCEPT !.status = status]
           q == [s.queue EXCEPT ![i] = e]
           t == [s EXCEPT !.queue = q]
<1>1. s.queue \in Seq(Entry) /\ s.queue[i] \in Entry
  BY DEF Document
<1>2. e \in Entry /\ e.status = status
  BY <1>1 DEF Entry
<1>3. /\ q \in Seq(Entry) /\ Len(q) = Len(s.queue)
      /\ \A j \in 1 .. Len(s.queue) : q[j] = IF j = i THEN e ELSE s.queue[j]
  BY <1>1, <1>2, ExceptSeq
<1>4. t \in Document /\ t.queue = q /\ t.measurement = s.measurement /\ t.state = s.state
  BY <1>3 DEF Document
<1>5. t = [s EXCEPT !.queue[i].status = status]
  OBVIOUS
<1> QED
  BY <1>2, <1>3, <1>4, <1>5

(* Starting the next queued command keeps a version sound. *)
LEMMA StartNextSound ==
  ASSUME NEW n \in Nat, NEW s, Sound(s, n)
  PROVE  Sound(Commands!StartNext(s), n)
<1>1. CASE Commands!WithStatus(s, "running") # {} \/ Commands!NextQueued(s) = {}
  BY <1>1 DEF Commands!StartNext
<1>2. CASE Commands!WithStatus(s, "running") = {} /\ Commands!NextQueued(s) # {}
  <2> DEFINE i == Commands!First(Commands!NextQueued(s))
             t == [s EXCEPT !.queue[i].status = "running"]
  <2>1. s \in Document /\ Len(s.queue) \in Nat
    BY DEF Sound, Document
  <2>2. Commands!NextQueued(s) \in SUBSET (1 .. Len(s.queue))
    BY DEF Commands!NextQueued, Commands!WithStatus
  <2>3. i \in Commands!NextQueued(s)
    BY <1>2, <2>1, <2>2, FirstIsLeast
  <2>4. /\ i \in 1 .. Len(s.queue) /\ s.queue[i].status = "queued"
        /\ \A j \in 1 .. Len(s.queue) : s.queue[j].status = "queued" => i <= j
    BY <2>3 DEF Commands!NextQueued, Commands!WithStatus
  <2>5. /\ t \in Document /\ t.measurement = s.measurement
        /\ Len(t.queue) = Len(s.queue)
        /\ \A j \in 1 .. Len(s.queue) :
             t.queue[j].status = IF j = i THEN "running" ELSE s.queue[j].status
    BY <2>1, <2>4, StatusChange DEF Commands!Statuses
  <2>6. \A j \in 1 .. Len(s.queue) : s.queue[j].status \in Commands!Statuses
    <3>1. s.queue \in Seq(Entry)
      BY <2>1 DEF Document
    <3>2. \A j \in 1 .. Len(s.queue) : s.queue[j] \in Entry
      BY <3>1
    <3> QED
      BY <3>2 DEF Entry
  <2>7. \A j \in 1 .. Len(s.queue) : s.queue[j].status # "running"
    BY <1>2 DEF Commands!WithStatus
  <2>8. InOrder(t.queue)
    BY <2>1, <2>4, <2>5, <2>6, <2>7 DEF InOrder, Sound, Commands!Statuses
  <2> QED
    BY <1>2, <2>5, <2>8 DEF Sound, Commands!StartNext, Commands!Segments
<1> QED
  BY <1>1, <1>2

(* Ending a command keeps a version sound: only a running one ends. *)
LEMMA EndSound ==
  ASSUME NEW n \in Nat, NEW s, Sound(s, n), NEW id, NEW status \in {"completed", "failed"},
         NEW state \in {"idle", "running", "error"}
  PROVE  Sound(Commands!End(s, id, status, state), n)
<1> DEFINE at == {i \in Commands!WithStatus(s, "running") : s.queue[i].id = id}
           i == Commands!First(at)
           t == [s EXCEPT !.queue[i].status = status]
<1>1. CASE at = {}
  BY <1>1 DEF Commands!End
<1>2. CASE at # {}
  <2>1. s \in Document /\ Len(s.queue) \in Nat
    BY DEF Sound, Document
  <2>2. at \in SUBSET (1 .. Len(s.queue))
    BY DEF Commands!WithStatus
  <2>3. i \in at
    BY <1>2, <2>1, <2>2, FirstIsLeast
  <2>4. i \in 1 .. Len(s.queue) /\ s.queue[i].status = "running"
    BY <2>3 DEF Commands!WithStatus
  <2>5. /\ t \in Document /\ t.measurement = s.measurement
        /\ Len(t.queue) = Len(s.queue)
        /\ \A j \in 1 .. Len(s.queue) :
             t.queue[j].status = IF j = i THEN status ELSE s.queue[j].status
    <3>1. status \in Commands!Statuses
      BY DEF Commands!Statuses
    <3>2. i \in 1 .. Len(s.queue)
      BY <2>4
    <3> HIDE DEF i
    <3> QED
      BY <2>1, <3>1, <3>2, StatusChange
  <2>6. InOrder(t.queue)
    BY <2>1, <2>4, <2>5 DEF InOrder, Sound
  <2>7. Commands!End(s, id, status, state) = [t EXCEPT !.state = state]
    BY <1>2 DEF Commands!End
  <2>8. /\ [t EXCEPT !.state = state] \in Document
        /\ [t EXCEPT !.state = state].queue = t.queue
        /\ [t EXCEPT !.state = state].measurement = t.measurement
    BY <2>5 DEF Document
  <2> QED
    BY <2>5, <2>6, <2>7, <2>8 DEF Sound, Commands!Segments
<1> QED
  BY <1>1, <1>2

(* The windows of a sound version, as a sequence of segments. *)
LEMMA SegmentsTyped ==
  ASSUME NEW n \in Nat, NEW s, Sound(s, n)
  PROVE  LET w == Commands!Segments(s)
         IN /\ w \in Seq(Commands!Segment) /\ OrderedUpTo(w, n)
            /\ \A i \in 1 .. Len(w) :
                 w[i].fromSeq \in Nat /\ (w[i].toSeq # None => w[i].toSeq \in Nat)
<1> DEFINE w == Commands!Segments(s)
<1>1. w \in Seq(Commands!Segment) /\ OrderedUpTo(w, n)
  BY DEF Sound, Document, Commands!Segments
<1>2. \A i \in 1 .. Len(w) : w[i] \in Commands!Segment
  BY <1>1
<1> QED
  BY <1>1, <1>2 DEF Commands!Segment

(* Closing the open window at a seq that is not before the windows leaves them in order, and all
   closed. *)
LEMMA ClosedOrdered ==
  ASSUME NEW n \in Nat, NEW s, Sound(s, n)
  PROVE  LET c == Commands!Closed(Commands!Segments(s), n)
         IN /\ c \in Seq(Commands!Segment) /\ OrderedUpTo(c, n)
            /\ \A i \in 1 .. Len(c) : c[i].fromSeq \in Nat /\ c[i].toSeq \in Nat
<1> DEFINE w == Commands!Segments(s)
           e(i) == IF w[i].toSeq = None THEN [w[i] EXCEPT !.toSeq = n] ELSE w[i]
           c == Commands!Closed(w, n)
<1>1. /\ w \in Seq(Commands!Segment) /\ OrderedUpTo(w, n)
      /\ \A i \in 1 .. Len(w) : w[i].fromSeq \in Nat /\ (w[i].toSeq # None => w[i].toSeq \in Nat)
  BY SegmentsTyped
<1>2. Len(w) \in Nat /\ c = [i \in 1 .. Len(w) |-> e(i)]
  BY <1>1 DEF Commands!Closed
<1>3. ASSUME NEW i \in 1 .. Len(w)
      PROVE  /\ e(i) \in Commands!Segment
             /\ e(i).fromSeq = w[i].fromSeq
             /\ e(i).toSeq = IF w[i].toSeq = None THEN n ELSE w[i].toSeq
  <2>1. w[i] \in Commands!Segment
    BY <1>1
  <2> QED
    BY <2>1 DEF Commands!Segment
<1>4. c \in Seq(Commands!Segment) /\ Len(c) = Len(w) /\ \A i \in 1 .. Len(w) : c[i] = e(i)
  BY <1>2, <1>3
<1>5. ASSUME NEW i \in 1 .. Len(w)
      PROVE  /\ c[i].fromSeq = w[i].fromSeq
             /\ c[i].toSeq = IF w[i].toSeq = None THEN n ELSE w[i].toSeq
  BY <1>3, <1>4
<1>6. \A i \in 1 .. Len(c) : c[i].fromSeq \in Nat /\ c[i].toSeq \in Nat
  BY <1>1, <1>4, <1>5
<1>7. None # n
  BY LoopsAssumption
<1>8. OrderedUpTo(c, n)
  <2> SUFFICES ASSUME NEW i \in 1 .. Len(w)
               PROVE  /\ c[i].fromSeq <= n
                      /\ c[i].fromSeq <= c[i].toSeq /\ c[i].toSeq <= n
                      /\ i < Len(w) => c[i].toSeq # None /\ c[i].toSeq <= c[i + 1].fromSeq
    BY <1>4 DEF OrderedUpTo
  <2>1. /\ w[i].fromSeq <= n
        /\ w[i].toSeq # None => w[i].fromSeq <= w[i].toSeq /\ w[i].toSeq <= n
        /\ i < Len(w) => w[i].toSeq # None /\ w[i].toSeq <= w[i + 1].fromSeq
    BY <1>1 DEF OrderedUpTo
  <2>2. i < Len(w) => c[i + 1].fromSeq = w[i + 1].fromSeq
    BY <1>2, <1>5
  <2> QED
    BY <1>1, <1>5, <1>7, <2>1, <2>2
<1> QED
  BY <1>4, <1>6, <1>8

(* The windows after a command are in order up to the answer it got. *)
LEMMA MeasuredSound ==
  ASSUME NEW n \in Nat, NEW s, Sound(s, n), NEW intent \in Commands!Intents
  PROVE  Sound([s EXCEPT !.measurement = Commands!Measured(s, intent, n)], n)
<1> DEFINE m == Commands!Measured(s, intent, n)
           c == Commands!Closed(Commands!Segments(s), n)
           open == [fromSeq |-> n, toSeq |-> None]
<1>1. /\ c \in Seq(Commands!Segment) /\ OrderedUpTo(c, n)
      /\ \A i \in 1 .. Len(c) : c[i].fromSeq \in Nat /\ c[i].toSeq \in Nat
  BY ClosedOrdered
<1>2. open \in Commands!Segment /\ n # None
  BY LoopsAssumption DEF Commands!Segment
<1>3. ASSUME NEW w \in Seq(Commands!Segment), OrderedUpTo(w, n), m = <<w>>
      PROVE  Sound([s EXCEPT !.measurement = m], n)
  <2>1. m \in Seq(Seq(Commands!Segment)) /\ Len(m) = 1 /\ m # <<>> /\ m[1] = w
    BY <1>3
  <2> HIDE DEF m
  <2>2. /\ [s EXCEPT !.measurement = m] \in Document
        /\ [s EXCEPT !.measurement = m].measurement = m
        /\ [s EXCEPT !.measurement = m].queue = s.queue
    BY <2>1 DEF Sound, Document
  <2> QED
    BY <1>3, <2>1, <2>2 DEF Sound, Commands!Segments
<1>4. CASE intent = "start"
  <2> DEFINE w == Append(c, open)
  <2>1. m = <<w>>
    BY <1>4 DEF Commands!Measured
  <2> HIDE DEF c, m
  <2>2. /\ w \in Seq(Commands!Segment) /\ Len(w) = Len(c) + 1 /\ Len(c) \in Nat
        /\ \A i \in 1 .. Len(c) : w[i] = c[i]
        /\ w[Len(c) + 1] = open
    BY <1>1, <1>2, AppendProperties
  <2> HIDE DEF w
  <2>3. OrderedUpTo(w, n)
    <3> SUFFICES ASSUME NEW i \in 1 .. Len(w)
                 PROVE  /\ w[i].fromSeq <= n
                        /\ w[i].toSeq # None => w[i].fromSeq <= w[i].toSeq /\ w[i].toSeq <= n
                        /\ i < Len(w) => w[i].toSeq # None /\ w[i].toSeq <= w[i + 1].fromSeq
      BY DEF OrderedUpTo
    <3>1. CASE i = Len(c) + 1
      BY <2>2, <3>1
    <3>2. CASE i \in 1 .. Len(c)
      <4>1. /\ c[i].fromSeq <= n /\ c[i].fromSeq \in Nat /\ c[i].toSeq \in Nat /\ c[i].toSeq # None
            /\ c[i].fromSeq <= c[i].toSeq /\ c[i].toSeq <= n
            /\ i < Len(c) => c[i].toSeq <= c[i + 1].fromSeq
        BY <1>1, <3>2, LoopsAssumption DEF OrderedUpTo
      <4>2. CASE i < Len(c)
        BY <2>2, <3>2, <4>1, <4>2
      <4>3. CASE i = Len(c)
        BY <2>2, <3>2, <4>1, <4>3
      <4> QED
        BY <2>2, <3>2, <4>2, <4>3
    <3> QED
      BY <2>2, <3>1, <3>2
  <2> QED
    BY <1>3, <2>1, <2>2, <2>3 DEF m
<1>5. CASE intent = "stop"
  <2>1. m = <<c>>
    BY <1>5 DEF Commands!Measured
  <2> QED
    BY <1>1, <1>3, <2>1
<1>6. CASE intent = "reset" /\ s.state = "running"
  <2>1. m = <<<<open>>>>
    BY <1>6 DEF Commands!Measured
  <2>2. <<open>> \in Seq(Commands!Segment) /\ OrderedUpTo(<<open>>, n)
    BY <1>2 DEF OrderedUpTo
  <2> QED
    BY <1>3, <2>1, <2>2
<1>7. CASE intent = "reset" /\ s.state # "running"
  <2>1. m = <<>>
    BY <1>7 DEF Commands!Measured
  <2> DEFINE t == [s EXCEPT !.measurement = <<>>]
  <2>2. s \in Document /\ InOrder(s.queue)
    BY DEF Sound
  <2>3. t \in Document /\ t.measurement = <<>> /\ t.queue = s.queue
    <3>1. <<>> \in Seq(Seq(Commands!Segment))
      OBVIOUS
    <3> QED
      BY <2>2, <3>1 DEF Document
  <2>4. Commands!Segments(t) = <<>>
    BY <2>3 DEF Commands!Segments
  <2>5. Sound(t, n)
    BY <2>2, <2>3, <2>4 DEF Sound, OrderedUpTo
  <2> QED
    BY <2>1, <2>5
<1> QED
  BY <1>4, <1>5, <1>6, <1>7 DEF Commands!Intents

(* The outcome of a command is sound up to the answer it got ... *)
LEMMA CompletedSound ==
  ASSUME NEW n \in Nat, NEW s, Sound(s, n), NEW id, NEW intent \in Commands!Intents
  PROVE  Sound(Commands!Completed(s, id, intent, n), n)
<1>1. Commands!NextState(s, intent) \in {"idle", "running", "error"}
  BY DEF Commands!NextState, Commands!Intents
<1> QED
  BY <1>1, MeasuredSound, EndSound DEF Commands!Completed

(* ... and a failed command leaves the windows as they are. *)
LEMMA FailedSound ==
  ASSUME NEW n \in Nat, NEW s, Sound(s, n), NEW id
  PROVE  Sound(Commands!Failed(s, id), n)
  BY EndSound DEF Commands!Failed

(* A new command goes to the end of the queue. *)
LEMMA EnqueueSound ==
  ASSUME NEW n \in Nat, NEW s, Sound(s, n), NEW e \in Entry, e.status = "queued"
  PROVE  Sound([s EXCEPT !.queue = Append(@, e)], n)
<1> DEFINE q == Append(s.queue, e)
           t == [s EXCEPT !.queue = q]
<1>1. s \in Document /\ s.queue \in Seq(Entry) /\ Len(s.queue) \in Nat
  BY DEF Sound, Document
<1>2. /\ q \in Seq(Entry) /\ Len(q) = Len(s.queue) + 1
      /\ \A i \in 1 .. Len(s.queue) : q[i] = s.queue[i]
      /\ q[Len(s.queue) + 1] = e
  BY <1>1, AppendProperties
<1> HIDE DEF q
<1>3. t \in Document /\ t.queue = q /\ t.measurement = s.measurement
  BY <1>1, <1>2 DEF Document
<1>4. InOrder(q)
  <2> SUFFICES ASSUME NEW i \in 1 .. Len(q), NEW j \in 1 .. Len(q), i < j, q[j].status # "queued"
               PROVE  q[i].status \in {"completed", "failed"}
    BY DEF InOrder
  <2>1. i \in 1 .. Len(s.queue) /\ j \in 1 .. Len(s.queue)
    BY <1>1, <1>2
  <2> QED
    BY <1>2, <2>1 DEF InOrder, Sound
<1> QED
  BY <1>3, <1>4 DEF Sound, Commands!Segments, q

(* Every version that is sound stays so as the revision and the bound grow. *)
LEMMA VersionsStaySound ==
  ASSUME NEW q \in Nat, NEW r \in Nat, q <= r, NEW m \in Nat, NEW n \in Nat, m <= n
  PROVE  /\ SoundWrites(q, m) \subseteq SoundWrites(r, n)
         /\ SoundFrames(q, m) \subseteq SoundFrames(r, n)
         /\ SoundCopies(q, m) \subseteq SoundCopies(r, n)
<1>1. \A s : Sound(s, m) => Sound(s, n)
  BY SoundLater
<1>2. \A b \in Nat : b <= q => b <= r
  OBVIOUS
<1>3. SoundWrites(q, m) \subseteq SoundWrites(r, n)
  BY <1>1, <1>2 DEF SoundWrites, Write
<1>4. SoundFrames(q, m) \subseteq SoundFrames(r, n)
  <2> SUFFICES ASSUME NEW f \in SoundFrames(q, m)
               PROVE  f \in SoundFrames(r, n)
    OBVIOUS
  <2>1. CASE f.type = "version"
    <3>1. f \in Frame /\ f.rev <= q /\ Sound(f.session, m)
      BY <2>1 DEF SoundFrames
    <3>2. f.rev \in Nat
      BY <2>1, <3>1 DEF Frame
    <3> QED
      BY <1>1, <1>2, <3>1, <3>2 DEF SoundFrames
  <2>2. CASE f.type # "version"
    BY <2>2 DEF SoundFrames
  <2> QED
    BY <2>1, <2>2
<1>5. SoundCopies(q, m) \subseteq SoundCopies(r, n)
  BY <1>1, <1>2 DEF SoundCopies, Copy
<1> QED
  BY <1>3, <1>4, <1>5

(* The bound is a seq of the store. *)
LEMMA BoundTyped ==
  ASSUME CommandsInv
  PROVE  Bound \in Nat /\ Bound <= lastSeq
<1>1. lastSeq \in Nat /\ (inFlight # None => inFlight \in Flight /\ inFlight.seq <= lastSeq)
  BY LoopsAssumption DEF CommandsInv, ServerSound, WorkerSound
<1> QED
  BY <1>1 DEF Bound, Flight

(* It never shrinks: the answer of a command is the last seq when it comes. *)
LEMMA BoundGrows ==
  ASSUME CommandsInv, [Commands!Next]_commandVars
  PROVE  Bound \in Nat /\ Bound' \in Nat /\ Bound <= Bound'
<1>1. lastSeq \in Nat /\ (inFlight # None => inFlight \in Flight /\ inFlight.seq <= lastSeq)
  BY LoopsAssumption DEF CommandsInv, ServerSound, WorkerSound
<1>2. Bound \in Nat /\ Bound <= lastSeq
  BY BoundTyped
<1>3. CASE Commands!Passing
  BY <1>1, <1>2, <1>3 DEF Bound, Flight, Commands!Passing, Commands!loop
<1>4. CASE Commands!FetchAnswered
  BY <1>1, <1>2, <1>4 DEF Bound, Flight, Commands!FetchAnswered
<1>5. CASE Commands!FetchFailed
  BY <1>1, <1>2, <1>5 DEF Bound, Flight, Commands!FetchFailed
<1>6. CASE Commands!Execute \/ Commands!WorkerRestart
  <2>1. inFlight' = None /\ lastSeq' = lastSeq
    BY <1>6 DEF Commands!Execute, Commands!CommandDone, Commands!WorkerRestart
  <2> QED
    BY <1>1, <1>2, <2>1 DEF Bound
<1>7. CASE Commands!Tick
  <2>1. lastSeq' = lastSeq
    BY <1>7 DEF Commands!Tick
  <2>2. \/ inFlight' = inFlight
        \/ inFlight = None /\ inFlight'.answer = "asked"
    BY <1>7 DEF Commands!Tick, Commands!Begin
  <2> QED
    BY <1>1, <1>2, <2>1, <2>2 DEF Bound
<1>8. CASE \/ \E intent \in Commands!Intents : Commands!Enqueue(intent)
           \/ Commands!HandleWrite \/ Commands!Break \/ Commands!Reconnect \/ Commands!Deliver
           \/ UNCHANGED commandVars
  <2>1. lastSeq' = lastSeq /\ inFlight' = inFlight
    BY <1>8 DEF Commands!Enqueue, Commands!HandleWrite, Commands!Break, Commands!Reconnect,
                Commands!Deliver, Commands!loop, commandVars
  <2> QED
    BY <1>1, <1>2, <2>1 DEF Bound
<1> QED
  BY <1>3, <1>4, <1>5, <1>6, <1>7, <1>8 DEF Commands!Next

(* Writes whose socket is gone are the writes they were. *)
LEMMA StraySound ==
  ASSUME NEW r, NEW n, NEW writes \in Seq(SoundWrites(r, n))
  PROVE  Commands!Stray(writes) \in Seq(SoundWrites(r, n))
<1>1. ASSUME NEW w \in SoundWrites(r, n)
      PROVE  [w EXCEPT !.stray = TRUE] \in SoundWrites(r, n)
  BY DEF SoundWrites, Write
<1>2. \A i \in 1 .. Len(writes) : writes[i] \in SoundWrites(r, n)
  OBVIOUS
<1> QED
  BY <1>1, <1>2 DEF Commands!Stray

(* The first writes of a connection. *)
LEMMA FirstWritesSound ==
  ASSUME NEW r, NEW n, NEW writes \in Seq(SoundWrites(r, n)), NEW k \in 0 .. Len(writes)
  PROVE  Commands!Stray(SubSeq(writes, 1, k)) \in Seq(SoundWrites(r, n))
<1>1. SubSeq(writes, 1, k) \in Seq(SoundWrites(r, n))
  OBVIOUS
<1> QED
  BY <1>1, StraySound

(* A write of the worker is made from its copy and has its revision. *)
LEMMA UpdateSound ==
  ASSUME CommandsInv, local \in SoundCopies(rev, Bound), NEW s, Sound(s, Bound), Commands!Update(s)
  PROVE  up' \in Seq(SoundWrites(rev, Bound))
<1>1. local \in Copy /\ local.rev <= rev
  BY DEF SoundCopies
<1>2. [base |-> local.rev, session |-> s, stray |-> FALSE] \in SoundWrites(rev, Bound)
  BY <1>1 DEF SoundWrites, Write, Copy, Sound
<1> QED
  BY <1>2 DEF CommandsInv, OnTheWaySound, Commands!Update

(* A frame with a version of the document. *)
LEMMA VersionSound ==
  ASSUME NEW r \in Nat, NEW n \in Nat, NEW s, Sound(s, n)
  PROVE  Commands!Version(r, s) \in SoundFrames(r, n)
  BY DEF Commands!Version, SoundFrames, Frame, Sound

(* The invariant under a step, from its parts: what was sound stays so. *)
LEMMA StepKeepsSound ==
  ASSUME CommandsInv, [Commands!Next]_commandVars,
         rev' \in Nat, rev <= rev',
         Sound(session', Bound) \/ session' = session,
         up' \in Seq(SoundWrites(rev', Bound)) \/ up' \in Seq(SoundWrites(rev, Bound)),
         down' \in Seq(SoundFrames(rev', Bound)) \/ down' \in Seq(SoundFrames(rev, Bound)),
         local' # None \/ inFlight' # None => local' \in SoundCopies(rev, Bound),
         lastSeq' \in 0 .. MaxSeq, WorkerSound'
  PROVE  CommandsInv'
<1>1. Bound \in Nat /\ Bound' \in Nat /\ Bound <= Bound'
  BY BoundGrows
<1>2. rev \in Nat /\ Sound(session, Bound)
  BY DEF CommandsInv, ServerSound
<1>3. Sound(session', Bound')
  BY <1>1, <1>2, SoundLater
<1>4. up' \in Seq(SoundWrites(rev', Bound')) /\ down' \in Seq(SoundFrames(rev', Bound'))
  <2>1. /\ SoundWrites(rev', Bound) \subseteq SoundWrites(rev', Bound')
        /\ SoundWrites(rev, Bound) \subseteq SoundWrites(rev', Bound')
        /\ SoundFrames(rev', Bound) \subseteq SoundFrames(rev', Bound')
        /\ SoundFrames(rev, Bound) \subseteq SoundFrames(rev', Bound')
    BY <1>1, <1>2, VersionsStaySound
  <2> QED
    BY <2>1, SeqMonotonic
<1>5. local' # None \/ inFlight' # None => local' \in SoundCopies(rev', Bound')
  BY <1>1, <1>2, VersionsStaySound
<1> QED
  BY <1>3, <1>4, <1>5 DEF CommandsInv, ServerSound, OnTheWaySound, LocalSound

(* The operator's steps and those of the server. *)
LEMMA ServerStep ==
  ASSUME CommandsInv,
         \/ \E intent \in Commands!Intents : Commands!Enqueue(intent)
         \/ Commands!Passing \/ Commands!HandleWrite
  PROVE  CommandsInv'
<1> USE DEF Commands!server, Commands!net, Commands!loop
<1>1. /\ Bound \in Nat /\ rev \in Nat /\ Sound(session, Bound) /\ lastSeq \in 0 .. MaxSeq
      /\ up \in Seq(SoundWrites(rev, Bound)) /\ down \in Seq(SoundFrames(rev, Bound))
      /\ local # None \/ inFlight # None => local \in SoundCopies(rev, Bound)
      /\ WorkerSound
  BY BoundTyped DEF CommandsInv, ServerSound, OnTheWaySound, LocalSound
<1>2. [Commands!Next]_commandVars
  BY DEF Commands!Next
<1>3. ASSUME NEW s, Sound(s, Bound), Commands!Commit(s)
      PROVE  /\ rev' \in Nat /\ rev <= rev'
             /\ Sound(session', Bound)
             /\ Commands!Broadcast(s) \in Seq(SoundFrames(rev', Bound))
  <2>1. rev' = rev + 1 /\ session' = s
    BY <1>3 DEF Commands!Commit
  <2>2. Commands!Version(rev + 1, s) \in SoundFrames(rev', Bound)
    BY <1>1, <1>3, <2>1, VersionSound
  <2>3. SoundFrames(rev, Bound) \subseteq SoundFrames(rev', Bound)
    BY <1>1, <2>1, VersionsStaySound
  <2>4. down \in Seq(SoundFrames(rev', Bound))
    BY <1>1, <2>3, SeqMonotonic
  <2>5. Append(down, Commands!Version(rev + 1, s)) \in Seq(SoundFrames(rev', Bound))
    BY <2>2, <2>4
  <2>6. Commands!Broadcast(s) \in Seq(SoundFrames(rev', Bound))
    BY <2>4, <2>5 DEF Commands!Broadcast
  <2> QED
    BY <1>1, <1>3, <2>1, <2>6
<1>4. ASSUME NEW intent \in Commands!Intents, Commands!Enqueue(intent)
      PROVE  CommandsInv'
  <2> DEFINE c == Len(session.queue) + 1
             e == [id |-> c, intent |-> intent, status |-> "queued"]
             s == [session EXCEPT !.queue = Append(@, e)]
  <2>1. /\ Len(session.queue) < MaxCommands /\ Commands!Commit(s) /\ down' = Commands!Broadcast(s)
        /\ UNCHANGED <<lastSeq, sessionLink, up, local, tick, inFlight, executed, faults>>
    BY <1>4 DEF Commands!Enqueue
  <2>2. session.queue \in Seq(Entry)
    BY <1>1 DEF Sound, Document
  <2>3. c \in Commands!Commands
    BY <2>1, <2>2, LoopsAssumption DEF Commands!Commands
  <2>4. e \in Entry /\ e.status = "queued"
    BY <2>3 DEF Entry, Commands!Statuses
  <2> HIDE DEF e
  <2>5. Sound(s, Bound)
    BY <1>1, <2>4, EnqueueSound
  <2> HIDE DEF s
  <2>6. WorkerSound'
    BY <1>1, <2>1 DEF WorkerSound
  <2> QED
    BY <1>1, <1>2, <1>3, <2>1, <2>5, <2>6, StepKeepsSound
<1>5. CASE Commands!Passing
  <2>1. /\ lastSeq' \in 0 .. MaxSeq /\ lastSeq' = lastSeq + 1
        /\ UNCHANGED <<session, rev, sessionLink, up, down, local, tick, inFlight, executed, faults>>
    BY <1>1, <1>5, LoopsAssumption DEF Commands!Passing
  <2>2. WorkerSound'
    BY <1>1, <2>1 DEF WorkerSound, Flight
  <2> QED
    BY <1>1, <1>2, <2>1, <2>2, StepKeepsSound
<1>6. CASE Commands!HandleWrite
  <2> DEFINE w == Head(up)
  <2>1. /\ w \in SoundWrites(rev, Bound) /\ up' \in Seq(SoundWrites(rev, Bound))
        /\ UNCHANGED <<lastSeq, sessionLink, local, tick, inFlight, executed, faults>>
    BY <1>1, <1>6 DEF Commands!HandleWrite
  <2>2. Sound(w.session, Bound)
    BY <2>1 DEF SoundWrites
  <2>3. WorkerSound'
    BY <1>1, <2>1 DEF WorkerSound
  <2>4. CASE w.base = rev
    <3>1. Commands!Commit(w.session) /\ down' = Commands!Broadcast(w.session)
      BY <1>6, <2>4 DEF Commands!HandleWrite
    <3> QED
      BY <1>1, <1>2, <1>3, <2>1, <2>2, <2>3, <3>1, StepKeepsSound
  <2>5. CASE w.base # rev
    <3>1. /\ UNCHANGED <<session, rev>>
          /\ \/ down' = down
             \/ down' = down \o <<[type |-> "rev_mismatch"], Commands!Version(rev, session)>>
      BY <1>6, <2>5 DEF Commands!HandleWrite
    <3>2. [type |-> "rev_mismatch"] \in SoundFrames(rev, Bound)
      BY DEF SoundFrames, Frame
    <3>3. Commands!Version(rev, session) \in SoundFrames(rev, Bound)
      BY <1>1, VersionSound
    <3>4. <<[type |-> "rev_mismatch"], Commands!Version(rev, session)>> \in Seq(SoundFrames(rev, Bound))
      BY <3>2, <3>3
    <3>5. down' \in Seq(SoundFrames(rev, Bound))
      BY <1>1, <3>1, <3>4, ConcatProperties
    <3> QED
      BY <1>1, <1>2, <2>1, <2>3, <3>1, <3>5, StepKeepsSound
  <2> QED
    BY <2>4, <2>5
<1> QED
  BY <1>4, <1>5, <1>6

(* Connection and frames. *)
LEMMA ConnectionStep ==
  ASSUME CommandsInv, Commands!Break \/ Commands!Reconnect \/ Commands!Deliver
  PROVE  CommandsInv'
<1> USE DEF Commands!server, Commands!net, Commands!loop
<1>1. /\ Bound \in Nat /\ rev \in Nat /\ Sound(session, Bound) /\ lastSeq \in 0 .. MaxSeq
      /\ up \in Seq(SoundWrites(rev, Bound)) /\ down \in Seq(SoundFrames(rev, Bound))
      /\ local # None \/ inFlight # None => local \in SoundCopies(rev, Bound)
      /\ WorkerSound
  BY BoundTyped DEF CommandsInv, ServerSound, OnTheWaySound, LocalSound
<1>2. [Commands!Next]_commandVars
  BY DEF Commands!Next
<1>3. CASE Commands!Break
  <2>1. PICK k \in 0 .. Len(up) : up' = Commands!Stray(SubSeq(up, 1, k))
    BY <1>3 DEF Commands!Break
  <2>2. /\ sessionLink' = "closing" /\ faults' \in 0 .. MaxFaults
        /\ UNCHANGED <<session, rev, lastSeq, down, local, tick, inFlight, executed>>
    BY <1>1, <1>3, LoopsAssumption DEF Commands!Break, Commands!Fault, WorkerSound
  <2>3. up' \in Seq(SoundWrites(rev, Bound))
    BY <1>1, <2>1, FirstWritesSound
  <2>4. WorkerSound'
    BY <1>1, <2>2 DEF WorkerSound
  <2> QED
    BY <1>1, <1>2, <2>2, <2>3, <2>4, StepKeepsSound
<1>4. CASE Commands!Reconnect
  <2>1. /\ sessionLink' = "open" /\ up' = Commands!Stray(up) /\ down' = <<Commands!Version(rev, session)>>
        /\ UNCHANGED <<session, rev, lastSeq, local, tick, inFlight, executed, faults>>
    BY <1>4 DEF Commands!Reconnect
  <2>2. Commands!Version(rev, session) \in SoundFrames(rev, Bound)
    BY <1>1, VersionSound
  <2>3. up' \in Seq(SoundWrites(rev, Bound)) /\ down' \in Seq(SoundFrames(rev, Bound))
    BY <1>1, <2>1, <2>2, StraySound
  <2>4. WorkerSound'
    BY <1>1, <2>1 DEF WorkerSound
  <2> QED
    BY <1>1, <1>2, <2>1, <2>3, <2>4, StepKeepsSound
<1>5. CASE Commands!Deliver
  <2> DEFINE f == Head(down)
  <2>1. /\ f \in SoundFrames(rev, Bound) /\ down' \in Seq(SoundFrames(rev, Bound))
        /\ UNCHANGED <<session, rev, lastSeq, up, inFlight, executed, faults>>
    BY <1>1, <1>5 DEF Commands!Deliver
  <2>2. CASE f.type = "version" /\ local' = [rev |-> f.rev, session |-> f.session] /\ tick' = TRUE
             /\ sessionLink' = sessionLink
    <3>1. f.rev \in Nat /\ f.rev <= rev /\ f.session \in Document /\ Sound(f.session, Bound)
      BY <2>1, <2>2 DEF SoundFrames, Frame
    <3>2. local' \in SoundCopies(rev, Bound)
      BY <2>2, <3>1 DEF SoundCopies, Copy
    <3>3. WorkerSound'
      BY <1>1, <2>1, <2>2 DEF WorkerSound
    <3> QED
      BY <1>1, <1>2, <2>1, <3>2, <3>3, StepKeepsSound
  <2>3. CASE sessionLink' = "closing" /\ UNCHANGED <<local, tick>>
    <3>1. WorkerSound'
      BY <1>1, <2>1, <2>3 DEF WorkerSound
    <3> QED
      BY <1>1, <1>2, <2>1, <2>3, <3>1, StepKeepsSound
  <2> QED
    BY <1>5, <2>2, <2>3 DEF Commands!Deliver
<1> QED
  BY <1>3, <1>4, <1>5

(* The worker's own steps: what it writes is made from a sound copy, with an answer that bounds
   every window there is. *)
LEMMA WorkerStep ==
  ASSUME CommandsInv,
         \/ Commands!Tick \/ Commands!FetchAnswered \/ Commands!FetchFailed
         \/ Commands!Execute \/ Commands!WorkerRestart
  PROVE  CommandsInv'
<1> USE DEF Commands!server, Commands!net, Commands!loop
<1>1. /\ Bound \in Nat /\ rev \in Nat /\ Sound(session, Bound) /\ lastSeq \in 0 .. MaxSeq
      /\ up \in Seq(SoundWrites(rev, Bound)) /\ down \in Seq(SoundFrames(rev, Bound))
      /\ local # None \/ inFlight # None => local \in SoundCopies(rev, Bound)
      /\ WorkerSound
  BY BoundTyped DEF CommandsInv, ServerSound, OnTheWaySound, LocalSound
<1>2. [Commands!Next]_commandVars
  BY DEF Commands!Next
<1>3. CASE Commands!Tick
  <2>1. tick' = FALSE /\ UNCHANGED <<session, rev, lastSeq, sessionLink, down, local, faults>>
    BY <1>3 DEF Commands!Tick
  <2>2. CASE inFlight # None \/ local = None
    <3>1. UNCHANGED <<up, inFlight, executed>>
      BY <1>3, <2>2 DEF Commands!Tick
    <3>2. WorkerSound'
      BY <1>1, <2>1, <3>1 DEF WorkerSound
    <3> QED
      BY <1>1, <1>2, <2>1, <3>1, <3>2, StepKeepsSound
  <2>3. CASE inFlight = None /\ local # None
    <3> DEFINE s == Commands!StartNext(local.session)
               active == Commands!WithStatus(s, "running")
               cmd == s.queue[Commands!First(active)]
    <3>1. local \in SoundCopies(rev, Bound) /\ Sound(local.session, Bound)
      BY <1>1, <2>3 DEF SoundCopies
    <3>2. Sound(s, Bound)
      BY <1>1, <3>1, StartNextSound
    <3>3. /\ Commands!Update(s)
          /\ \/ UNCHANGED <<inFlight, executed>>
             \/ active # {} /\ Commands!Begin(cmd)
      BY <1>3, <2>3 DEF Commands!Tick
    <3>4. up' \in Seq(SoundWrites(rev, Bound))
      BY <3>1, <3>2, <3>3, UpdateSound
    <3>5. WorkerSound'
      <4>1. CASE UNCHANGED <<inFlight, executed>>
        BY <1>1, <2>1, <4>1 DEF WorkerSound
      <4>2. CASE active # {} /\ Commands!Begin(cmd)
        <5>1. s.queue \in Seq(Entry) /\ Len(s.queue) \in Nat
          BY <3>2 DEF Sound, Document
        <5>2. active \in SUBSET (1 .. Len(s.queue))
          BY DEF Commands!WithStatus
        <5> HIDE DEF s, active
        <5>3. Commands!First(active) \in 1 .. Len(s.queue)
          BY <4>2, <5>1, <5>2, FirstIsLeast
        <5>4. cmd \in Entry
          BY <5>1, <5>3
        <5> HIDE DEF cmd
        <5>5. cmd.id \in Commands!Commands /\ cmd.intent \in Commands!Intents
          BY <5>4 DEF Entry
        <5>6. /\ executed' = executed \cup {cmd.id}
              /\ inFlight' = [id |-> cmd.id, intent |-> cmd.intent, answer |-> "asked", seq |-> 0]
          BY <4>2 DEF Commands!Begin
        <5>7. inFlight' \in Flight /\ inFlight'.id = cmd.id /\ inFlight'.seq = 0
          BY <5>5, <5>6 DEF Flight
        <5>8. 0 <= lastSeq
          BY <1>1, LoopsAssumption
        <5>9. executed' \subseteq Commands!Commands /\ inFlight'.id \in executed'
          BY <1>1, <5>5, <5>6, <5>7 DEF WorkerSound
        <5> QED
          BY <1>1, <2>1, <5>7, <5>8, <5>9 DEF WorkerSound
      <4> QED
        BY <3>3, <4>1, <4>2
    <3> QED
      BY <1>1, <1>2, <2>1, <3>1, <3>4, <3>5, StepKeepsSound
  <2> QED
    BY <2>2, <2>3
<1>4. CASE Commands!FetchAnswered \/ Commands!FetchFailed
  <2>1. /\ UNCHANGED <<session, rev, lastSeq, sessionLink, up, down, local, tick, executed>>
        /\ faults' \in 0 .. MaxFaults /\ inFlight # None
    BY <1>1, <1>4, LoopsAssumption
    DEF Commands!FetchAnswered, Commands!FetchFailed, Commands!Fault, WorkerSound
  <2>2. inFlight \in Flight /\ inFlight.id \in executed /\ inFlight.seq <= lastSeq /\ lastSeq \in Nat
    BY <1>1, <2>1, LoopsAssumption DEF WorkerSound
  <2>3. \/ inFlight' = [inFlight EXCEPT !.answer = "ok", !.seq = lastSeq]
        \/ inFlight' = [inFlight EXCEPT !.answer = "failed"]
    BY <1>4 DEF Commands!FetchAnswered, Commands!FetchFailed
  <2>4. inFlight' \in Flight /\ inFlight'.id = inFlight.id /\ inFlight'.seq <= lastSeq
    <3>1. CASE inFlight' = [inFlight EXCEPT !.answer = "ok", !.seq = lastSeq]
      <4>1. inFlight' = [id |-> inFlight.id, intent |-> inFlight.intent, answer |-> "ok", seq |-> lastSeq]
        BY <2>2, <3>1 DEF Flight
      <4>2. inFlight.id \in Commands!Commands /\ inFlight.intent \in Commands!Intents
        BY <2>2 DEF Flight
      <4>3. inFlight' \in Flight
        BY <2>2, <4>1, <4>2 DEF Flight
      <4> QED
        BY <2>2, <4>1, <4>3
    <3>2. CASE inFlight' = [inFlight EXCEPT !.answer = "failed"]
      BY <2>2, <3>2 DEF Flight
    <3> QED
      BY <2>3, <3>1, <3>2
  <2>5. WorkerSound'
    BY <1>1, <2>1, <2>2, <2>4 DEF WorkerSound
  <2> QED
    BY <1>1, <1>2, <2>1, <2>5, StepKeepsSound
<1>5. CASE Commands!Execute
  <2>1. /\ inFlight # None /\ inFlight' = None /\ tick' = TRUE
        /\ UNCHANGED <<session, rev, lastSeq, sessionLink, down, local, executed, faults>>
    BY <1>5 DEF Commands!Execute, Commands!CommandDone
  <2>2. local \in SoundCopies(rev, Bound) /\ Sound(local.session, Bound) /\ inFlight \in Flight
    BY <1>1, <2>1 DEF SoundCopies, WorkerSound
  <2>3. up' \in Seq(SoundWrites(rev, Bound))
    <3>1. CASE inFlight.answer = "ok"
      <4>1. Bound = inFlight.seq
        BY <2>1, <3>1 DEF Bound
      <4>2. Sound(Commands!Completed(local.session, inFlight.id, inFlight.intent, inFlight.seq), Bound)
        BY <1>1, <2>2, <4>1, CompletedSound DEF Flight
      <4> QED
        BY <1>5, <2>2, <3>1, <4>2, UpdateSound DEF Commands!Execute
    <3>2. CASE inFlight.answer # "ok"
      <4>1. Sound(Commands!Failed(local.session, inFlight.id), Bound)
        BY <1>1, <2>2, FailedSound
      <4> QED
        BY <1>5, <2>2, <3>2, <4>1, UpdateSound DEF Commands!Execute
    <3> QED
      BY <3>1, <3>2
  <2>4. WorkerSound'
    BY <1>1, <2>1 DEF WorkerSound
  <2> QED
    BY <1>1, <1>2, <2>1, <2>2, <2>3, <2>4, StepKeepsSound
<1>6. CASE Commands!WorkerRestart
  <2>1. PICK k \in 0 .. Len(up) : up' = Commands!Stray(SubSeq(up, 1, k))
    BY <1>6 DEF Commands!WorkerRestart
  <2>2. /\ sessionLink' = "closing" /\ down' = <<>> /\ local' = None /\ tick' = FALSE
        /\ inFlight' = None /\ executed' = {} /\ faults' \in 0 .. MaxFaults
        /\ UNCHANGED <<session, rev, lastSeq>>
    BY <1>1, <1>6, LoopsAssumption DEF Commands!WorkerRestart, Commands!Fault, WorkerSound
  <2>3. up' \in Seq(SoundWrites(rev, Bound)) /\ down' \in Seq(SoundFrames(rev, Bound))
    BY <1>1, <2>1, <2>2, FirstWritesSound
  <2>4. WorkerSound'
    BY <2>2 DEF WorkerSound
  <2> QED
    BY <1>1, <1>2, <2>2, <2>3, <2>4, StepKeepsSound
<1> QED
  BY <1>3, <1>4, <1>5, <1>6

(* Every step of the model keeps the invariant of the command loop. *)
LEMMA CommandsInductive ==
  ASSUME CommandsInv, [Commands!Next]_commandVars
  PROVE  CommandsInv'
<1>1. CASE UNCHANGED commandVars
  BY <1>1 DEF commandVars, CommandsInv, ServerSound, OnTheWaySound, LocalSound, WorkerSound, Bound
<1> QED
  BY <1>1, ServerStep, ConnectionStep, WorkerStep DEF Commands!Next

(* It holds at the start. *)
LEMMA CommandsInitially ==
  ASSUME Commands!Init
  PROVE  CommandsInv
<1> USE DEF Commands!Init
<1>1. Bound = 0
  BY DEF Bound
<1>2. Sound(session, 0)
  <2>1. <<>> \in Seq(Entry) /\ <<>> \in Seq(Seq(Commands!Segment))
    OBVIOUS
  <2> QED
    BY <2>1 DEF Sound, Document, InOrder, OrderedUpTo, Commands!Segments
<1>3. <<>> \in Seq(SoundWrites(rev, Bound)) /\ <<>> \in Seq(SoundFrames(rev, Bound))
  OBVIOUS
<1>4. ServerSound
  <2>1. lastSeq \in 0 .. MaxSeq /\ rev \in Nat
    BY LoopsAssumption
  <2> QED
    BY <1>1, <1>2, <2>1 DEF ServerSound
<1>5. OnTheWaySound
  BY <1>3 DEF OnTheWaySound
<1>6. LocalSound
  BY DEF LocalSound
<1>7. 0 \in 0 .. MaxFaults
  BY LoopsAssumption
<1>8. WorkerSound
  BY <1>7 DEF WorkerSound
<1> QED
  BY <1>4, <1>5, <1>6, <1>8 DEF CommandsInv

(* The type invariant of the command loop, and the two properties of its queue and its windows,
   follow. *)
LEMMA CommandsInvImplies ==
  ASSUME CommandsInv
  PROVE  Commands!TypeOK /\ Commands!OneAtATime /\ Commands!WindowsOrdered
<1>1. /\ Bound \in Nat /\ Bound <= lastSeq /\ rev \in Nat /\ lastSeq \in 0 .. MaxSeq /\ Sound(session, Bound)
      /\ up \in Seq(SoundWrites(rev, Bound)) /\ down \in Seq(SoundFrames(rev, Bound))
      /\ local # None => local \in SoundCopies(rev, Bound)
      /\ WorkerSound
  BY BoundTyped DEF CommandsInv, ServerSound, OnTheWaySound, LocalSound
<1>2. ASSUME NEW s, Sound(s, Bound)
      PROVE  Commands!Session(s)
  <2>1. Commands!Segments(s) \in Seq(Commands!Segment)
    BY <1>1, <1>2, SegmentsTyped
  <2> QED
    BY <1>2, <2>1 DEF Commands!Session, Sound, Document, Entry
<1>3. \A i \in 1 .. Len(up) :
        up[i].base \in 0 .. rev /\ Commands!Session(up[i].session) /\ up[i].stray \in BOOLEAN
  <2> SUFFICES ASSUME NEW i \in 1 .. Len(up)
               PROVE  up[i].base \in 0 .. rev /\ Commands!Session(up[i].session) /\ up[i].stray \in BOOLEAN
    OBVIOUS
  <2>1. up[i] \in SoundWrites(rev, Bound)
    BY <1>1
  <2> QED
    BY <1>1, <1>2, <2>1 DEF SoundWrites, Write
<1>4. \A i \in 1 .. Len(down) :
        down[i].type = "version" => down[i].rev \in 0 .. rev /\ Commands!Session(down[i].session)
  <2> SUFFICES ASSUME NEW i \in 1 .. Len(down), down[i].type = "version"
               PROVE  down[i].rev \in 0 .. rev /\ Commands!Session(down[i].session)
    OBVIOUS
  <2>1. down[i] \in SoundFrames(rev, Bound)
    BY <1>1
  <2> QED
    BY <1>1, <1>2, <2>1 DEF SoundFrames, Frame
<1>5. local # None => local.rev \in 0 .. rev /\ Commands!Session(local.session)
  BY <1>1, <1>2 DEF SoundCopies, Copy
<1>6. Commands!TypeOK
  BY <1>1, <1>2, <1>3, <1>4, <1>5 DEF Commands!TypeOK, WorkerSound, Flight
<1>7. Commands!OneAtATime
  BY <1>1 DEF Commands!OneAtATime, Sound, InOrder
<1>8. Commands!WindowsOrdered
  <2>1. Sound(session, lastSeq)
    BY <1>1, LoopsAssumption, SoundLater
  <2> QED
    BY <2>1 DEF Commands!WindowsOrdered, Sound, OrderedUpTo
<1> QED
  BY <1>6, <1>7, <1>8

(* The invariant of the command loop holds throughout. *)
LEMMA CommandsInvariant == Spec => []CommandsInv
<1>1. Init => CommandsInv
  BY CommandsInitially DEF Init
<1>2. CommandsInv /\ [Next]_<<part, commandVars, decoderVars>> => CommandsInv'
  BY StepOfALoop, CommandsInductive
<1> QED
  BY <1>1, <1>2, PTL DEF Spec

(* Commands of the LiveTracking session run one at a time and in the order of the queue, whatever
   the copy the worker made its writes from and whoever restarts or loses its connection. *)
THEOREM CommandsRunOneAtATime == Spec => []OneAtATime
<1>1. CommandsInv => OneAtATime
  BY CommandsInvImplies DEF OneAtATime
<1> QED
  BY <1>1, CommandsInvariant, PTL

(* The windows of the measurement are in time order and do not overlap, so that a passing counts
   once at most: at every answer of the store no window ends later than it. *)
THEOREM WindowsNeverOverlap == Spec => []WindowsOrdered
<1>1. CommandsInv => WindowsOrdered
  BY CommandsInvImplies DEF WindowsOrdered
<1> QED
  BY <1>1, CommandsInvariant, PTL

-----------------------------------------------------------------------------
(* The catch-up with a P3 decoder. *)
Records ==
  [kind : {"passing"}, number : Decoder!Numbers] \cup [kind : {"session"}, last : 0 .. MaxPassings]
    \cup [kind : {"version", "status"}]

Asks == {Decoder!SessionRequest} \cup [kind : {"resend"}, numbers : SUBSET Decoder!Numbers]

(* The inductive invariant in parts: the decoder and its connection, on which nothing is on its way
   unless it is up ... *)
DecoderSound ==
  /\ last \in Nat /\ passings \in 0 .. MaxPassings /\ last <= passings
  /\ link \in BOOLEAN /\ outages \in 0 .. MaxOutages
  /\ wire \in Seq(Records) /\ requests \in Seq(Asks)
  /\ (wire # <<>> \/ requests # <<>>) => link

(* ... the tracker ... *)
TrackerSound ==
  /\ highest \in Nat \cup {None} /\ base \in Nat
  /\ Decoder!Open \subseteq Decoder!Numbers /\ \A n \in Decoder!Open : pending[n] \in 1 .. MaxAttempts
  /\ given \subseteq Decoder!Numbers /\ seen \subseteq Decoder!Numbers /\ skipped \subseteq Decoder!Numbers

(* ... and the adapter with what it holds for the store. *)
AdapterSound ==
  /\ hardwareId \in BOOLEAN /\ (hardwareId => link)
  /\ resumeKnown \in BOOLEAN /\ sessionAsked \in BOOLEAN /\ sessionTimer \in BOOLEAN
  /\ resume \in [state : {"asked", "answered", "done"}, max : Decoder!Numbers \cup {None}]
  /\ queue \subseteq Decoder!Numbers /\ stored \subseteq Decoder!Numbers
  /\ since \in Decoder!Numbers \cup {None}

DecoderInv == DecoderSound /\ TrackerSound /\ AdapterSound /\ Decoder!Accounted

(* The highest of some numbers is one of them, None without any. *)
LEMMA HighestIsOne ==
  ASSUME NEW S \in SUBSET Decoder!Numbers
  PROVE  Decoder!Highest(S) \in Decoder!Numbers \cup {None}
<1>1. CASE S = {}
  BY <1>1 DEF Decoder!Highest
<1>2. CASE S # {}
  <2>1. S \in SUBSET Nat /\ \A n \in S : n <= MaxPassings
    BY LoopsAssumption DEF Decoder!Numbers
  <2>2. \E n \in S : \A m \in S : m <= n
    BY <1>2, <2>1, GreatestExists, LoopsAssumption
  <2> QED
    BY <1>2, <2>2 DEF Decoder!Highest
<1> QED
  BY <1>1, <1>2

(* The cardinality of the decoder's module is the one the theorems are about. *)
LEMMA SameCardinality == \A S : Decoder!Cardinality(S) = Cardinality(S)
  BY DEF Decoder!Cardinality, Cardinality

(* Ascending enumerates a set of numbers: its i-th element has i elements of the set up to it. *)
LEMMA AscendingIsOf ==
  ASSUME NEW S \in SUBSET Decoder!Numbers, NEW i \in 1 .. Decoder!Cardinality(S)
  PROVE  Decoder!Ascending(S)[i] \in S
<1> DEFINE upTo(n) == {m \in S : m <= n}
           T == {n \in S : i <= Cardinality(upTo(n))}
<1>1. S \in SUBSET Nat /\ IsFiniteSet(S) /\ \A n \in S : n <= MaxPassings
  <2>1. \A n \in S : n \in Nat /\ n <= MaxPassings
    BY LoopsAssumption DEF Decoder!Numbers
  <2> QED
    BY <2>1, FS_BoundedSetOfNaturals, LoopsAssumption
<1>2. Cardinality(S) \in Nat /\ S # {} /\ i \in 1 .. Cardinality(S)
  BY <1>1, FS_CardinalityType, FS_EmptySet, SameCardinality
<1>3. \A n : IsFiniteSet(upTo(n)) /\ Cardinality(upTo(n)) \in Nat
  <2> TAKE n
  <2>1. upTo(n) \in SUBSET S
    OBVIOUS
  <2> QED
    BY <1>1, <2>1, FS_Subset, FS_CardinalityType
<1>4. T # {}
  <2>1. PICK g \in S : \A m \in S : m <= g
    BY <1>1, <1>2, GreatestExists, LoopsAssumption
  <2>2. upTo(g) = S
    BY <2>1
  <2> QED
    BY <1>2, <2>1, <2>2
<1>5. PICK n \in T : \A m \in T : n <= m
  BY <1>1, <1>4, LeastExists
<1>6. Cardinality(upTo(n)) = i
  <2> DEFINE below == upTo(n) \ {n}
  <2>1. n \in upTo(n) /\ n \in Nat
    BY <1>1, <1>5
  <2>2. IsFiniteSet(below) /\ Cardinality(below) = Cardinality(upTo(n)) - 1
    BY <1>3, <2>1, FS_RemoveElement
  <2>3. CASE Cardinality(below) >= i
    <3>1. below # {}
      BY <1>2, <2>2, <2>3, FS_EmptySet
    <3>2. below \in SUBSET Nat /\ \A m \in below : m <= n
      BY <1>1
    <3>3. PICK p \in below : \A m \in below : m <= p
      BY <2>1, <3>1, <3>2, GreatestExists
    <3>4. p \in S /\ p \in Nat /\ p < n
      BY <1>1, <2>1, <3>3
    <3>5. \A m \in S : m <= p <=> m \in below
      BY <1>1, <2>1, <3>3, <3>4
    <3>6. upTo(p) = below
      BY <3>5
    <3>7. p \in T
      BY <2>3, <3>4, <3>6
    <3> QED
      BY <1>1, <1>5, <2>1, <3>4, <3>7
  <2>4. i <= Cardinality(upTo(n)) /\ Cardinality(upTo(n)) \in Nat
    BY <1>3, <1>5
  <2> QED
    BY <1>2, <2>2, <2>3, <2>4
<1> DEFINE P(k, j) == Decoder!Cardinality({m \in S : m <= k}) = j
           Q(j) == CHOOSE k \in S : P(k, j)
<1>7. \E k \in S : P(k, i)
  BY <1>5, <1>6, SameCardinality
<1>8. Decoder!Ascending(S) = [j \in 1 .. Decoder!Cardinality(S) |-> Q(j)]
  BY DEF Decoder!Ascending
<1> HIDE DEF P
<1>9. Q(i) \in S
  BY <1>7
<1> HIDE DEF Q
<1> QED
  BY <1>8, <1>9

(* The numbers between the highest one and a number are numbers the decoder has given. *)
LEMMA MissingTyped ==
  ASSUME TrackerSound, NEW l \in 0 .. MaxPassings
  PROVE  /\ Decoder!Missing(l) \subseteq Decoder!Numbers
         /\ highest # None =>
              highest \in Nat /\ \A n \in Nat : n \in Decoder!Missing(l) <=> highest < n /\ n <= l
  BY LoopsAssumption DEF TrackerSound, Decoder!Missing, Decoder!Numbers

(* Request adds numbers to the pending ones, with one attempt made. *)
LEMMA RequestAdds ==
  ASSUME NEW open, NEW S, Decoder!Request(open, S)
  PROVE  /\ Decoder!Open' = S \cup DOMAIN open
         /\ \A n \in Decoder!Open' : pending'[n] = IF n \in DOMAIN open THEN open[n] ELSE 1
  BY DEF Decoder!Request, Decoder!Open

(* Send puts a RESEND on the wire, or nothing. *)
LEMMA SendTyped ==
  ASSUME NEW queued \in Seq(Asks), NEW identified, NEW S \in SUBSET Decoder!Numbers
  PROVE  Decoder!Send(queued, identified, S) \in Seq(Asks)
<1>1. Decoder!Resend(S) \in Asks
  BY DEF Decoder!Resend, Asks
<1> QED
  BY <1>1 DEF Decoder!Send

(* A passing keeps the tracker sound and every number accounted for. *)
LEMMA OnPassingSound ==
  ASSUME TrackerSound, Decoder!Accounted, NEW n \in Decoder!Numbers, NEW queued \in Seq(Asks),
         Decoder!OnPassing(n, queued)
  PROVE  TrackerSound' /\ Decoder!Accounted' /\ requests' \in Seq(Asks)
<1> DEFINE open == Decoder!Without(pending, {n})
           gap == Decoder!Missing(n - 1)
           ask == IF Decoder!Cardinality(gap) > MaxGap THEN {} ELSE gap
<1>1. /\ given' = IF n \in Decoder!Open THEN given ELSE given \ {n}
      /\ IF highest = None \/ n > highest THEN highest' = n ELSE highest' = highest
      /\ base' = IF highest = None THEN n ELSE base
      /\ seen' = seen \cup {n}
      /\ Decoder!Request(open, ask)
      /\ skipped' = skipped \cup (gap \ ask)
      /\ requests' = Decoder!Send(queued, TRUE, ask \ DOMAIN open)
  BY DEF Decoder!OnPassing
<1>2. n \in Nat /\ n - 1 \in 0 .. MaxPassings
  BY LoopsAssumption DEF Decoder!Numbers
<1>3. /\ gap \subseteq Decoder!Numbers
      /\ highest # None =>
           highest \in Nat /\ \A m \in Nat : m \in gap <=> highest < m /\ m <= n - 1
  BY <1>2, MissingTyped
<1>4. ask \subseteq gap
  OBVIOUS
<1>5. DOMAIN open = Decoder!Open \ {n} /\ \A m \in DOMAIN open : open[m] = pending[m]
  BY DEF Decoder!Without, Decoder!Open
<1> HIDE DEF open, gap, ask
<1>6. /\ Decoder!Open' = ask \cup (Decoder!Open \ {n})
      /\ \A m \in Decoder!Open' : pending'[m] = IF m \in DOMAIN open THEN open[m] ELSE 1
  BY <1>1, <1>5, RequestAdds
<1>7. TrackerSound'
  <2>1. highest' \in Nat \cup {None} /\ base' \in Nat
    BY <1>1, <1>2 DEF TrackerSound
  <2>2. Decoder!Open' \subseteq Decoder!Numbers
    BY <1>3, <1>4, <1>6 DEF TrackerSound
  <2>3. \A m \in Decoder!Open' : pending'[m] \in 1 .. MaxAttempts
    BY <1>5, <1>6, LoopsAssumption DEF TrackerSound
  <2>4. /\ given' \subseteq Decoder!Numbers /\ seen' \subseteq Decoder!Numbers
        /\ skipped' \subseteq Decoder!Numbers
    BY <1>1, <1>3, <1>4 DEF TrackerSound
  <2> QED
    BY <2>1, <2>2, <2>3, <2>4 DEF TrackerSound
<1>8. Decoder!Accounted'
  <2> SUFFICES ASSUME highest' # None, NEW m \in base' + 1 .. highest'
               PROVE  m \in seen' \cup Decoder!Open' \cup given' \cup skipped'
    BY DEF Decoder!Accounted
  <2>1. m \in Nat /\ base' < m /\ m <= highest'
    <3>1. highest' \in Nat /\ base' \in Nat
      BY <1>7 DEF TrackerSound
    <3>2. \A a, b \in Nat : \A i \in a + 1 .. b : i \in Nat /\ a < i /\ i <= b
      OBVIOUS
    <3> QED
      BY <3>1, <3>2
  <2>2. CASE highest = None
    BY <1>1, <1>2, <2>1, <2>2
  <2>3. CASE highest # None /\ m <= highest
    <3>1. m \in base + 1 .. highest
      BY <1>1, <2>1, <2>3, LoopsAssumption DEF TrackerSound
    <3>2. m \in seen \cup Decoder!Open \cup given \cup skipped
      BY <2>3, <3>1 DEF Decoder!Accounted
    <3> QED
      BY <1>1, <1>6, <3>2
  <2>4. CASE highest # None /\ highest < m
    <3>1. m = n \/ m \in gap
      BY <1>1, <1>2, <1>3, <2>1, <2>4
    <3> QED
      BY <1>1, <1>6, <3>1
  <2> QED
    BY <1>3, <2>1, <2>2, <2>3, <2>4
<1>9. requests' \in Seq(Asks)
  <2>1. ask \ DOMAIN open \in SUBSET Decoder!Numbers
    BY <1>3, <1>4
  <2> QED
    BY <1>1, <2>1, SendTyped
<1> QED
  BY <1>7, <1>8, <1>9

(* The answer to SESSION does so, too; a reset starts the count anew. *)
LEMMA OnSessionSound ==
  ASSUME TrackerSound, Decoder!Accounted, NEW l \in 0 .. MaxPassings, requests \in Seq(Asks),
         Decoder!OnSession(l)
  PROVE  TrackerSound' /\ Decoder!Accounted' /\ requests' \in Seq(Asks)
<1> DEFINE gap == Decoder!Missing(l)
           ask == {n \in gap : n + MaxCatchUp > l}
           reset == highest # None /\ l < highest
<1>1. /\ highest' = l
      /\ base' = IF highest = None \/ reset THEN l ELSE base
      /\ seen' = IF reset THEN {} ELSE seen
      /\ skipped' = IF reset THEN {} ELSE skipped \cup (gap \ ask)
      /\ IF reset THEN pending' = [n \in {} |-> 0] ELSE Decoder!Request(pending, ask)
      /\ requests' = Decoder!Send(requests, hardwareId, ask \ Decoder!Open)
      /\ given' = given
  BY DEF Decoder!OnSession
<1>2. /\ gap \subseteq Decoder!Numbers
      /\ highest # None =>
           highest \in Nat /\ \A n \in Nat : n \in gap <=> highest < n /\ n <= l
  BY MissingTyped
<1>3. ask \subseteq gap /\ l \in Nat
  BY LoopsAssumption
<1> HIDE DEF gap, ask
<1>4. ~reset => /\ Decoder!Open' = ask \cup Decoder!Open
                /\ \A n \in Decoder!Open' : pending'[n] = IF n \in Decoder!Open THEN pending[n] ELSE 1
  BY <1>1, RequestAdds DEF Decoder!Open
<1>5. reset => Decoder!Open' = {}
  BY <1>1 DEF Decoder!Open
<1>6. TrackerSound'
  <2>1. highest' \in Nat \cup {None} /\ base' \in Nat
    BY <1>1, <1>3 DEF TrackerSound
  <2>2. Decoder!Open' \subseteq Decoder!Numbers
    BY <1>2, <1>3, <1>4, <1>5 DEF TrackerSound
  <2>3. \A n \in Decoder!Open' : pending'[n] \in 1 .. MaxAttempts
    BY <1>4, <1>5, LoopsAssumption DEF TrackerSound
  <2>4. /\ given' \subseteq Decoder!Numbers /\ seen' \subseteq Decoder!Numbers
        /\ skipped' \subseteq Decoder!Numbers
    BY <1>1, <1>2, <1>3 DEF TrackerSound
  <2> QED
    BY <2>1, <2>2, <2>3, <2>4 DEF TrackerSound
<1>7. Decoder!Accounted'
  <2> SUFFICES ASSUME NEW m \in base' + 1 .. highest'
               PROVE  m \in seen' \cup Decoder!Open' \cup given' \cup skipped'
    BY DEF Decoder!Accounted
  <2>1. m \in Nat /\ base' < m /\ m <= l
    BY <1>1, <1>3, <1>6 DEF TrackerSound
  <2>2. highest # None /\ ~reset /\ base' = base
    BY <1>1, <1>3, <2>1
  <2>3. CASE m <= highest
    <3>1. m \in base + 1 .. highest
      BY <1>2, <2>1, <2>2, <2>3 DEF TrackerSound
    <3>2. m \in seen \cup Decoder!Open \cup given \cup skipped
      BY <2>2, <3>1 DEF Decoder!Accounted
    <3> QED
      BY <1>1, <1>4, <2>2, <3>2
  <2>4. CASE highest < m
    <3>1. m \in gap
      BY <1>2, <2>1, <2>2, <2>4
    <3> QED
      BY <1>1, <1>4, <2>2, <3>1
  <2> QED
    BY <1>2, <2>1, <2>2, <2>3, <2>4
<1>8. requests' \in Seq(Asks)
  <2>1. ask \ Decoder!Open \in SUBSET Decoder!Numbers
    BY <1>2, <1>3
  <2> QED
    BY <1>1, <2>1, SendTyped
<1> QED
  BY <1>6, <1>7, <1>8

(* A resend asks again, or gives numbers up. *)
LEMMA DueSound ==
  ASSUME DecoderInv, NEW S \in SUBSET Decoder!Open, Decoder!Due(S)
  PROVE  TrackerSound' /\ Decoder!Accounted' /\ requests' \in Seq(Asks) /\ (requests' # requests => link)
<1> DEFINE again == Decoder!Again(S)
<1>1. /\ given' = given \cup (S \ again)
      /\ pending' = [n \in Decoder!Open \ (S \ again) |-> IF n \in again THEN pending[n] + 1 ELSE pending[n]]
      /\ requests' = Decoder!Send(requests, link /\ hardwareId, again)
      /\ UNCHANGED <<highest, base, seen, skipped>>
  BY DEF Decoder!Due
<1>2. again \subseteq S /\ \A n \in again : pending[n] < MaxAttempts
  BY DEF Decoder!Again
<1> HIDE DEF again
<1>3. TrackerSound
  BY DEF DecoderInv
<1>4. Decoder!Open' = Decoder!Open \ (S \ again)
  BY <1>1 DEF Decoder!Open
<1>5. \A n \in Decoder!Open' : pending'[n] \in 1 .. MaxAttempts
  <2> SUFFICES ASSUME NEW n \in Decoder!Open'
               PROVE  pending'[n] \in 1 .. MaxAttempts
    OBVIOUS
  <2>1. n \in Decoder!Open /\ pending[n] \in 1 .. MaxAttempts
    BY <1>3, <1>4 DEF TrackerSound
  <2>2. pending'[n] = IF n \in again THEN pending[n] + 1 ELSE pending[n]
    BY <1>1, <1>4
  <2> QED
    BY <1>2, <2>1, <2>2, LoopsAssumption
<1>6. TrackerSound'
  BY <1>1, <1>3, <1>4, <1>5 DEF TrackerSound
<1>7. Decoder!Accounted'
  BY <1>1, <1>4 DEF DecoderInv, Decoder!Accounted
<1>8. requests' \in Seq(Asks) /\ (requests' # requests => link)
  <2>1. again \in SUBSET Decoder!Numbers
    BY <1>2, <1>3 DEF TrackerSound
  <2>2. requests' \in Seq(Asks)
    BY <1>1, <2>1, SendTyped DEF DecoderInv, DecoderSound
  <2> QED
    BY <1>1, <2>2 DEF Decoder!Send
<1> QED
  BY <1>6, <1>7, <1>8

(* What the adapter puts on the wire when it may ask for the session. *)
LEMMA SessionRequestTyped ==
  ASSUME DecoderInv
  PROVE  /\ Append(requests, Decoder!SessionRequest) \in Seq(Asks)
         /\ Decoder!AfterIdentified \in Seq(Asks)
         /\ \A known, asked, identified : Decoder!MayAsk(known, asked, identified) => link
<1>1. Append(requests, Decoder!SessionRequest) \in Seq(Asks)
  BY DEF DecoderInv, DecoderSound, Asks
<1> QED
  BY <1>1 DEF DecoderInv, DecoderSound, Decoder!AfterIdentified, Decoder!MayAsk

(* A record of the decoder arrives. *)
LEMMA DeliverStep ==
  ASSUME DecoderInv, Decoder!Deliver
  PROVE  DecoderInv'
<1> DEFINE r == Head(wire)
<1>1. DecoderSound /\ TrackerSound /\ AdapterSound /\ Decoder!Accounted
  BY DEF DecoderInv
<1>2. /\ wire # <<>> /\ wire' = Tail(wire)
      /\ UNCHANGED <<last, passings, link, resumeKnown, resume, stored, since, outages>>
  BY DEF Decoder!Deliver, Decoder!decoder
<1>3. r \in Records /\ wire' \in Seq(Records) /\ link
  BY <1>1, <1>2 DEF DecoderSound
<1>4. ASSUME requests' \in Seq(Asks), TrackerSound', Decoder!Accounted',
             hardwareId' \in BOOLEAN, sessionTimer' \in BOOLEAN, sessionAsked' \in BOOLEAN,
             queue' \subseteq Decoder!Numbers
      PROVE  DecoderInv'
  BY <1>1, <1>2, <1>3, <1>4 DEF DecoderInv, DecoderSound, AdapterSound
<1>5. ASSUME Decoder!Identified
      PROVE  hardwareId' \in BOOLEAN /\ sessionTimer' \in BOOLEAN /\ sessionAsked' \in BOOLEAN
  BY <1>1, <1>5 DEF Decoder!Identified, Decoder!MayAsk, AdapterSound, DecoderSound
<1>6. CASE Decoder!TakePassing(r)
  <2>1. r.kind = "passing" /\ r.number \in Decoder!Numbers
    BY <1>3, <1>6 DEF Decoder!TakePassing, Records
  <2>2. queue' \subseteq Decoder!Numbers
    BY <1>1, <1>6, <2>1 DEF Decoder!TakePassing, AdapterSound
  <2>3. CASE hardwareId
    <3>1. UNCHANGED <<hardwareId, sessionTimer, sessionAsked>> /\ Decoder!OnPassing(r.number, requests)
      BY <1>6, <2>3 DEF Decoder!TakePassing
    <3>2. TrackerSound' /\ Decoder!Accounted' /\ requests' \in Seq(Asks)
      BY <1>1, <2>1, <3>1, OnPassingSound DEF DecoderSound
    <3> QED
      BY <1>1, <1>4, <2>2, <3>1, <3>2 DEF AdapterSound
  <2>4. CASE ~hardwareId
    <3>1. Decoder!Identified /\ Decoder!OnPassing(r.number, Decoder!AfterIdentified)
      BY <1>6, <2>4 DEF Decoder!TakePassing
    <3>2. Decoder!AfterIdentified \in Seq(Asks)
      BY SessionRequestTyped
    <3>3. TrackerSound' /\ Decoder!Accounted' /\ requests' \in Seq(Asks)
      BY <1>1, <2>1, <3>1, <3>2, OnPassingSound
    <3> QED
      BY <1>4, <1>5, <2>2, <3>1, <3>3
  <2> QED
    BY <2>3, <2>4
<1>7. CASE Decoder!TakeSession(r)
  <2>1. r.kind = "session" /\ r.last \in 0 .. MaxPassings
    BY <1>3, <1>7 DEF Decoder!TakeSession, Records
  <2>2. Decoder!OnSession(r.last) /\ UNCHANGED <<hardwareId, sessionTimer, sessionAsked, queue>>
    BY <1>7 DEF Decoder!TakeSession
  <2>3. TrackerSound' /\ Decoder!Accounted' /\ requests' \in Seq(Asks)
    BY <1>1, <2>1, <2>2, OnSessionSound DEF DecoderSound
  <2> QED
    BY <1>1, <1>4, <2>2, <2>3 DEF AdapterSound
<1>8. CASE Decoder!TakeVersionOrStatus(r)
  <2>1. UNCHANGED <<highest, pending, given, base, seen, skipped, queue>>
    BY <1>8 DEF Decoder!TakeVersionOrStatus, Decoder!tracker
  <2>2. TrackerSound' /\ Decoder!Accounted'
    BY <1>1, <2>1 DEF TrackerSound, Decoder!Open, Decoder!Accounted
  <2>3. \/ Decoder!Identified /\ requests' = Decoder!AfterIdentified
        \/ UNCHANGED <<hardwareId, sessionTimer, sessionAsked, requests>>
    BY <1>8 DEF Decoder!TakeVersionOrStatus
  <2>4. requests' \in Seq(Asks)
    BY <1>1, <2>3, SessionRequestTyped DEF DecoderSound
  <2>5. hardwareId' \in BOOLEAN /\ sessionTimer' \in BOOLEAN /\ sessionAsked' \in BOOLEAN
    BY <1>1, <1>5, <2>3 DEF AdapterSound
  <2> QED
    BY <1>1, <1>4, <2>1, <2>2, <2>4, <2>5 DEF AdapterSound
<1> QED
  BY <1>6, <1>7, <1>8 DEF Decoder!Deliver

(* The resume point and the timer that does without. *)
LEMMA ResumeStep ==
  ASSUME DecoderInv,
         \/ Decoder!FetchAnswered \/ Decoder!FetchFailed \/ Decoder!Resumed \/ Decoder!ResumeWaitOver
         \/ Decoder!Upload
  PROVE  DecoderInv'
<1> USE DEF Decoder!decoder, Decoder!tracker, Decoder!adapter, Decoder!store
<1>1. DecoderSound /\ TrackerSound /\ AdapterSound /\ Decoder!Accounted
  BY DEF DecoderInv
<1>2. CASE Decoder!FetchAnswered \/ Decoder!FetchFailed \/ Decoder!Upload
  <2>1. /\ UNCHANGED <<last, passings, link, outages, wire, requests>>
        /\ UNCHANGED <<highest, pending, given, base, seen, skipped>>
        /\ UNCHANGED <<hardwareId, resumeKnown, sessionAsked, sessionTimer, since>>
    BY <1>2 DEF Decoder!FetchAnswered, Decoder!FetchFailed, Decoder!Upload
  <2>2. DecoderSound' /\ TrackerSound' /\ Decoder!Accounted'
    BY <1>1, <2>1 DEF DecoderSound, TrackerSound, Decoder!Open, Decoder!Accounted
  <2>3. resume' \in [state : {"asked", "answered", "done"}, max : Decoder!Numbers \cup {None}]
    <3>1. Decoder!Highest(stored) \in Decoder!Numbers \cup {None}
      BY <1>1, HighestIsOne DEF AdapterSound
    <3> QED
      BY <1>1, <1>2, <3>1 DEF AdapterSound, Decoder!FetchAnswered, Decoder!FetchFailed, Decoder!Upload
  <2>4. queue' \subseteq Decoder!Numbers /\ stored' \subseteq Decoder!Numbers
    BY <1>1, <1>2 DEF AdapterSound, Decoder!FetchAnswered, Decoder!FetchFailed, Decoder!Upload
  <2>5. AdapterSound'
    BY <1>1, <2>1, <2>3, <2>4 DEF AdapterSound
  <2> QED
    BY <2>2, <2>5 DEF DecoderInv
<1>3. CASE Decoder!Resumed \/ Decoder!ResumeWaitOver
  <2>1. /\ UNCHANGED <<last, passings, link, outages, wire>>
        /\ UNCHANGED <<pending, given, seen, skipped>>
        /\ UNCHANGED <<hardwareId, queue, stored, since>>
        /\ resumeKnown' = TRUE
    BY <1>3 DEF Decoder!Resumed, Decoder!ResumeWaitOver
  <2>2. /\ requests' = IF Decoder!MayAsk(TRUE, sessionAsked, hardwareId)
                       THEN Append(requests, Decoder!SessionRequest) ELSE requests
        /\ sessionAsked' = (sessionAsked \/ Decoder!MayAsk(TRUE, sessionAsked, hardwareId))
    BY <1>3 DEF Decoder!Resumed, Decoder!ResumeWaitOver
  <2>3. requests' \in Seq(Asks) /\ (requests' # requests => link)
    BY <1>1, <2>2, SessionRequestTyped DEF DecoderSound
  <2>4. DecoderSound'
    BY <1>1, <2>1, <2>3 DEF DecoderSound
  <2>5. \/ UNCHANGED <<highest, base>>
        \/ resume.max # None /\ highest' = resume.max /\ base' = resume.max
    BY <1>3 DEF Decoder!Resumed, Decoder!ResumeWaitOver, Decoder!ResumeFrom
  <2>6. resume.max \in Nat \cup {None}
    BY <1>1, LoopsAssumption DEF AdapterSound, Decoder!Numbers
  <2>7. TrackerSound'
    BY <1>1, <2>1, <2>5, <2>6 DEF TrackerSound, Decoder!Open
  <2>8. Decoder!Accounted'
    <3>1. CASE UNCHANGED <<highest, base>>
      BY <1>1, <2>1, <3>1 DEF Decoder!Accounted, Decoder!Open
    <3>2. CASE resume.max # None /\ highest' = resume.max /\ base' = resume.max
      <4>1. \A n \in Nat : n + 1 .. n = {}
        OBVIOUS
      <4> QED
        BY <2>6, <3>2, <4>1 DEF Decoder!Accounted
    <3> QED
      BY <2>5, <3>1, <3>2
  <2>9. AdapterSound'
    <3>1. /\ resume' \in [state : {"asked", "answered", "done"}, max : Decoder!Numbers \cup {None}]
          /\ sessionTimer' \in BOOLEAN
      BY <1>1, <1>3 DEF AdapterSound, Decoder!Resumed, Decoder!ResumeWaitOver
    <3>2. sessionAsked' \in BOOLEAN
      BY <2>2
    <3> QED
      BY <1>1, <2>1, <3>1, <3>2 DEF AdapterSound
  <2> QED
    BY <2>4, <2>7, <2>8, <2>9 DEF DecoderInv
<1> QED
  BY <1>2, <1>3

(* The decoder's own steps, and the loss of a record. *)
LEMMA DecoderStepSound ==
  ASSUME DecoderInv,
         \/ Decoder!NewPassing \/ Decoder!Status \/ Decoder!Answer \/ Decoder!RecordLost \/ Decoder!Connect
  PROVE  DecoderInv'
<1> USE DEF Decoder!decoder, Decoder!tracker, Decoder!adapter, Decoder!store
<1>1. DecoderSound /\ TrackerSound /\ AdapterSound /\ Decoder!Accounted
  BY DEF DecoderInv
<1>2. /\ UNCHANGED <<highest, pending, given, base, seen, skipped>>
      /\ UNCHANGED <<hardwareId, resumeKnown, sessionAsked, sessionTimer, resume, queue, stored, since>>
  BY DEF Decoder!NewPassing, Decoder!Status, Decoder!Answer, Decoder!RecordLost, Decoder!Connect
<1>3. TrackerSound' /\ Decoder!Accounted'
  BY <1>1, <1>2 DEF TrackerSound, Decoder!Open, Decoder!Accounted
<1>4. (link => link') => AdapterSound'
  BY <1>1, <1>2 DEF AdapterSound
<1>5. CASE Decoder!NewPassing
  <2>1. /\ passings' = passings + 1 /\ last' = last + 1 /\ passings < MaxPassings
        /\ wire' = IF link THEN Append(wire, Decoder!Passing(last + 1)) ELSE wire
        /\ UNCHANGED <<link, requests, outages>>
    BY <1>5 DEF Decoder!NewPassing
  <2>2. last' \in Nat /\ passings' \in 0 .. MaxPassings /\ last' <= passings' /\ last + 1 \in Decoder!Numbers
    BY <1>1, <2>1, LoopsAssumption DEF DecoderSound, Decoder!Numbers
  <2>3. Decoder!Passing(last + 1) \in Records
    BY <2>2 DEF Decoder!Passing, Records
  <2>4. wire' \in Seq(Records)
    BY <1>1, <2>1, <2>3 DEF DecoderSound
  <2>5. DecoderSound'
    BY <1>1, <2>1, <2>2, <2>4 DEF DecoderSound
  <2> QED
    BY <1>3, <1>4, <2>1, <2>5 DEF DecoderInv
<1>6. CASE Decoder!Status \/ Decoder!Connect
  <2>1. link' = TRUE /\ UNCHANGED <<last, passings, requests, outages>>
    BY <1>1, <1>6 DEF Decoder!Status, Decoder!Connect, DecoderSound
  <2>2. [kind |-> "status"] \in Records /\ [kind |-> "version"] \in Records
    BY DEF Records
  <2>3. wire' \in Seq(Records)
    <3>1. <<>> \in Seq(Records) /\ <<[kind |-> "status"]>> \in Seq(Records)
      BY <2>2
    <3>2. <<[kind |-> "version"]>> \in Seq(Records)
      BY <2>2
    <3> QED
      BY <1>6, <3>1, <3>2 DEF Decoder!Status, Decoder!Connect
  <2>4. DecoderSound'
    BY <1>1, <2>1, <2>3 DEF DecoderSound
  <2> QED
    BY <1>3, <1>4, <2>1, <2>4 DEF DecoderInv
<1>7. CASE Decoder!Answer
  <2> DEFINE q == Head(requests)
             S == q.numbers \cap (1 .. last)
             passed == [i \in 1 .. Decoder!Cardinality(S) |-> Decoder!Passing(Decoder!Ascending(S)[i])]
  <2>1. /\ requests # <<>> /\ requests' = Tail(requests)
        /\ wire' = IF q.kind = "session"
                   THEN Append(wire, [kind |-> "session", last |-> last])
                   ELSE wire \o passed
        /\ UNCHANGED <<last, passings, link, outages>>
    BY <1>7 DEF Decoder!Answer
  <2>2. q \in Asks /\ requests' \in Seq(Asks) /\ link
    BY <1>1, <2>1 DEF DecoderSound
  <2>3. wire' \in Seq(Records)
    <3>1. CASE q.kind = "session"
      <4>1. last \in 0 .. MaxPassings
        BY <1>1, LoopsAssumption DEF DecoderSound
      <4>2. [kind |-> "session", last |-> last] \in Records
        BY <4>1 DEF Records
      <4> QED
        BY <1>1, <2>1, <3>1, <4>2 DEF DecoderSound
    <3>2. CASE q.kind # "session"
      <4>1. q \in [kind : {"resend"}, numbers : SUBSET Decoder!Numbers]
        BY <2>2, <3>2 DEF Asks, Decoder!SessionRequest
      <4>2. S \in SUBSET Decoder!Numbers
        BY <4>1
      <4> HIDE DEF S
      <4>3. \A i \in 1 .. Decoder!Cardinality(S) : Decoder!Passing(Decoder!Ascending(S)[i]) \in Records
        BY <4>2, AscendingIsOf DEF Decoder!Passing, Records
      <4>4. Decoder!Cardinality(S) \in Nat
        <5>1. S \in SUBSET Nat /\ \A n \in S : n <= MaxPassings
          BY <4>2, LoopsAssumption DEF Decoder!Numbers
        <5> QED
          BY <5>1, FS_BoundedSetOfNaturals, FS_CardinalityType, SameCardinality, LoopsAssumption
      <4>5. passed \in Seq(Records)
        BY <4>3, <4>4
      <4> HIDE DEF passed
      <4> QED
        BY <1>1, <2>1, <3>2, <4>5, ConcatProperties DEF DecoderSound
    <3> QED
      BY <3>1, <3>2
  <2>4. DecoderSound'
    BY <1>1, <2>1, <2>2, <2>3 DEF DecoderSound
  <2> QED
    BY <1>3, <1>4, <2>1, <2>4 DEF DecoderInv
<1>8. CASE Decoder!RecordLost
  <2>1. /\ wire # <<>> /\ wire' = Tail(wire) /\ outages' \in 0 .. MaxOutages
        /\ UNCHANGED <<last, passings, link, requests>>
    BY <1>1, <1>8, LoopsAssumption DEF Decoder!RecordLost, Decoder!Fault, DecoderSound
  <2>2. wire' \in Seq(Records) /\ link
    BY <1>1, <2>1 DEF DecoderSound
  <2>3. DecoderSound'
    BY <1>1, <2>1, <2>2 DEF DecoderSound
  <2> QED
    BY <1>3, <1>4, <2>1, <2>3 DEF DecoderInv
<1> QED
  BY <1>5, <1>6, <1>7, <1>8

(* Breaks and restarts: nothing is on its way any more. *)
LEMMA OutageStep ==
  ASSUME DecoderInv, Decoder!Break \/ Decoder!DecoderReset \/ Decoder!WorkerRestart
  PROVE  DecoderInv'
<1> USE DEF Decoder!decoder, Decoder!tracker, Decoder!adapter, Decoder!store
<1>1. DecoderSound /\ TrackerSound /\ AdapterSound /\ Decoder!Accounted
  BY DEF DecoderInv
<1>2. /\ link' = FALSE /\ wire' = <<>> /\ requests' = <<>> /\ hardwareId' = FALSE
      /\ outages' \in 0 .. MaxOutages /\ passings' = passings /\ (last' = last \/ last' = 0)
  BY <1>1, LoopsAssumption DEF Decoder!Break, Decoder!DecoderReset, Decoder!WorkerRestart, Decoder!WorkerStart,
                               Decoder!Disconnected, Decoder!Fault, DecoderSound
<1>3. DecoderSound'
  <2>1. wire' \in Seq(Records) /\ requests' \in Seq(Asks)
    BY <1>2
  <2>2. passings \in Nat /\ last' \in Nat /\ last' <= passings
    BY <1>1, <1>2, LoopsAssumption DEF DecoderSound
  <2> QED
    BY <1>1, <1>2, <2>1, <2>2 DEF DecoderSound
<1>4. CASE Decoder!Break \/ Decoder!DecoderReset
  <2>1. /\ UNCHANGED <<highest, pending, given, base, seen, skipped>>
        /\ UNCHANGED <<resumeKnown, sessionAsked, sessionTimer, resume, queue, stored>>
        /\ since' = since \/ since' = None
    BY <1>4 DEF Decoder!Break, Decoder!DecoderReset
  <2>2. TrackerSound' /\ Decoder!Accounted'
    BY <1>1, <2>1 DEF TrackerSound, Decoder!Open, Decoder!Accounted
  <2>3. AdapterSound'
    BY <1>1, <1>2, <2>1 DEF AdapterSound
  <2> QED
    BY <1>3, <2>2, <2>3 DEF DecoderInv
<1>5. CASE Decoder!WorkerRestart
  <2>1. /\ highest' = None /\ pending' = [n \in {} |-> 0] /\ given' = {} /\ base' = 0 /\ seen' = {}
        /\ skipped' = {} /\ resumeKnown' = FALSE /\ sessionAsked' = FALSE /\ sessionTimer' = FALSE
        /\ resume' = Decoder!ResumeAsked /\ queue' = {} /\ stored' = stored
        /\ since' = Decoder!Highest(stored)
    BY <1>5 DEF Decoder!WorkerRestart, Decoder!WorkerStart
  <2>2. TrackerSound'
    BY <2>1 DEF TrackerSound, Decoder!Open
  <2>3. Decoder!Accounted'
    BY <2>1 DEF Decoder!Accounted
  <2>4. since' \in Decoder!Numbers \cup {None} /\ stored' \subseteq Decoder!Numbers
    BY <1>1, <2>1, HighestIsOne DEF AdapterSound
  <2>5. AdapterSound'
    BY <1>2, <2>1, <2>4 DEF AdapterSound, Decoder!ResumeAsked
  <2> QED
    BY <1>3, <2>2, <2>3, <2>5 DEF DecoderInv
<1> QED
  BY <1>4, <1>5

(* Every step of the model keeps the invariant of the catch-up. *)
LEMMA DecoderInductive ==
  ASSUME DecoderInv, [Decoder!Next]_decoderVars
  PROVE  DecoderInv'
<1>1. CASE UNCHANGED decoderVars
  BY <1>1 DEF decoderVars, DecoderInv, DecoderSound, TrackerSound, AdapterSound, Decoder!Open, Decoder!Accounted
<1>2. CASE \E S \in SUBSET Decoder!Open : Decoder!Due(S)
  <2>1. PICK S \in SUBSET Decoder!Open : Decoder!Due(S)
    BY <1>2
  <2>2. TrackerSound' /\ Decoder!Accounted' /\ requests' \in Seq(Asks) /\ (requests' # requests => link)
    BY <2>1, DueSound
  <2>3. /\ UNCHANGED <<last, passings, link, wire, outages>>
        /\ UNCHANGED <<hardwareId, resumeKnown, sessionAsked, sessionTimer, resume, queue, stored, since>>
    BY <2>1 DEF Decoder!Due, Decoder!decoder, Decoder!adapter, Decoder!store
  <2>4. DecoderSound' /\ AdapterSound'
    BY <2>2, <2>3 DEF DecoderInv, DecoderSound, AdapterSound
  <2> QED
    BY <2>2, <2>4 DEF DecoderInv
<1> QED
  BY <1>1, <1>2, DeliverStep, ResumeStep, DecoderStepSound, OutageStep DEF Decoder!Next

(* It holds at the start. *)
LEMMA DecoderInitially ==
  ASSUME Decoder!Init
  PROVE  DecoderInv
<1>1. DecoderSound
  <2>1. last = 0 /\ passings = 0 /\ outages = 0 /\ link = FALSE /\ wire = <<>> /\ requests = <<>>
    BY DEF Decoder!Init
  <2>2. wire \in Seq(Records) /\ requests \in Seq(Asks)
    BY <2>1
  <2>3. last \in Nat /\ passings \in 0 .. MaxPassings /\ last <= passings /\ outages \in 0 .. MaxOutages
    BY <2>1, LoopsAssumption
  <2> QED
    BY <2>1, <2>2, <2>3 DEF DecoderSound
<1>2. TrackerSound
  BY DEF Decoder!Init, TrackerSound, Decoder!Open
<1>3. AdapterSound
  BY DEF Decoder!Init, AdapterSound, Decoder!ResumeAsked
<1>4. Decoder!Accounted
  BY DEF Decoder!Init, Decoder!Accounted
<1> QED
  BY <1>1, <1>2, <1>3, <1>4 DEF DecoderInv

(* The type invariant of the catch-up follows. *)
LEMMA DecoderInvImplies ==
  ASSUME DecoderInv
  PROVE  Decoder!TypeOK
<1>1. DecoderSound /\ TrackerSound /\ AdapterSound
  BY DEF DecoderInv
<1>2. wire \in Seq(Decoder!Record)
  <2>1. Records \subseteq Decoder!Record
    BY DEF Records, Decoder!Record
  <2> QED
    BY <1>1, <2>1, SeqMonotonic DEF DecoderSound
<1>3. \A i \in 1 .. Len(requests) :
        \/ requests[i] = Decoder!SessionRequest
        \/ requests[i] \in [kind : {"resend"}, numbers : SUBSET Decoder!Numbers]
  <2>1. \A i \in 1 .. Len(requests) : requests[i] \in Asks
    BY <1>1 DEF DecoderSound
  <2> QED
    BY <2>1 DEF Asks
<1>4. last \in 0 .. MaxPassings
  BY <1>1, LoopsAssumption DEF DecoderSound
<1> QED
  BY <1>1, <1>2, <1>3, <1>4 DEF Decoder!TypeOK, DecoderSound, TrackerSound, AdapterSound

(* The invariant of the catch-up holds throughout. *)
LEMMA DecoderInvariant == Spec => []DecoderInv
<1>1. Init => DecoderInv
  BY DecoderInitially DEF Init
<1>2. DecoderInv /\ [Next]_<<part, commandVars, decoderVars>> => DecoderInv'
  BY StepOfALoop, DecoderInductive
<1> QED
  BY <1>1, <1>2, PTL DEF Spec

(* Every number between the start of the tracker's count and the highest number it has seen was
   received, is requested, was given up or left out for a limit, whatever gets lost on the way. *)
THEOREM NumbersAccounted == Spec => []Accounted
<1>1. DecoderInv => Accounted
  BY DEF DecoderInv, Accounted
<1> QED
  BY <1>1, DecoderInvariant, PTL

(* Type correctness of both loops. *)
THEOREM LoopsTypeCorrect == Spec => []TypeOK
<1>1. CommandsInv /\ DecoderInv => TypeOK
  BY CommandsInvImplies, DecoderInvImplies DEF TypeOK
<1> QED
  BY <1>1, CommandsInvariant, DecoderInvariant, PTL
=============================================================================
