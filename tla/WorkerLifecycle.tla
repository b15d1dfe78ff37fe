--------------------------- MODULE WorkerLifecycle ---------------------------
(***************************************************************************)
(* The LiveTracking worker process and what the server knows of it:        *)
(* LiveTrackingWorkerManager (start, stop, the events of its child) and    *)
(* the worker status in the runtime document, which the manager and the    *)
(* heartbeat of the worker itself both write.                              *)
(*                                                                         *)
(* The document is abstracted to what optimistic concurrency tells apart:  *)
(* whether a copy, or a write on its way, is based on the stored revision  *)
(* (RealtimeDoc has the protocol).                                         *)
(***************************************************************************)
EXTENDS Naturals, TLAPS

CONSTANTS
  NoWorker,    \* `null`
  MaxSpawns,   \* bound: processes spawned
  MaxFaults    \* bound: crashes, hangs, spawn errors, rejected starts

ASSUME WorkerAssumption == NoWorker \notin Nat /\ MaxSpawns \in Nat /\ MaxFaults \in Nat

Workers == 1 .. MaxSpawns

VARIABLES
  proc,      \* proc[p]: unused, spawning, alive, hung, terminating (SIGTERM), dead, gone (exit event handled)
  killed,    \* the processes kill() was called on: ChildProcess.killed
  child,     \* this.child
  stopTimer, \* the child this.stopTimeout is about
  status,    \* the document: workerStatus
  pid,       \*   workerProcessId
  copy,      \* workers whose copy of the document is the stored revision
  wire,      \* workers with a heartbeat on its way to the server
  basis,     \*   those whose heartbeat is based on the stored revision
  faults

document == <<status, pid, copy, basis>>
manager == <<killed, child, stopTimer>>
vars == <<proc, killed, child, stopTimer, status, pid, copy, wire, basis, faults>>

Fault == faults < MaxFaults /\ faults' = faults + 1

Become(p, s) == proc' = [proc EXCEPT ![p] = s]

(* isRunningProcess: no exit code yet, and never signalled. *)
IsRunning(p) == p # NoWorker /\ proc[p] # "gone" /\ p \notin killed

Running == {p \in Workers : proc[p] \in {"spawning", "alive", "hung", "terminating"}}

(* A commit of the runtime document: every copy, and every write on its way, is out of date. *)
Commit(s, p) ==
  /\ status' = s
  /\ pid' = p
  /\ copy' = {} /\ basis' = {}

(* Mutant of MarkOffline: the process id stays in the document. *)
MarkOfflineKeepsPid == Commit("offline", pid)

MarkOffline == Commit("offline", NoWorker)

-----------------------------------------------------------------------------
(* The manager *)

Start(p) ==
  /\ ~IsRunning(child)
  /\ \A q \in Workers : proc[q] = "unused" <=> q >= p
  /\ Become(p, "spawning")
  /\ child' = p
  /\ stopTimer' = NoWorker
  /\ UNCHANGED <<killed, document, wire, faults>>

(* There is no worker entry to run. *)
StartRejected ==
  /\ Fault
  /\ ~IsRunning(child)
  /\ MarkOffline
  /\ UNCHANGED <<proc, manager, wire>>

StopRunning ==
  /\ IsRunning(child)
  /\ Commit("stopping", child)
  /\ killed' = killed \cup {child}
  /\ proc' = IF proc[child] = "alive" THEN [proc EXCEPT ![child] = "terminating"] ELSE proc
  /\ stopTimer' = child
  /\ UNCHANGED <<child, wire, faults>>

(* The child is not running, or was signalled before and has not exited. *)
StopStopped ==
  /\ ~IsRunning(child)
  /\ child' = NoWorker
  /\ stopTimer' = NoWorker
  /\ MarkOffline
  /\ UNCHANGED <<proc, killed, wire, faults>>

(* The 5 s of stop() are over: SIGKILL, if the child counts as running. *)
StopTimeout ==
  /\ stopTimer # NoWorker
  /\ proc' = IF IsRunning(stopTimer) THEN [proc EXCEPT ![stopTimer] = "dead"] ELSE proc
  /\ stopTimer' = NoWorker
  /\ UNCHANGED <<killed, child, document, wire, faults>>

(* The "spawn" event. *)
Spawned(p) ==
  /\ proc[p] = "spawning"
  /\ Become(p, IF p \in killed THEN "terminating" ELSE "alive")
  /\ Commit("starting", p)
  /\ UNCHANGED <<manager, wire, faults>>

(* Mutant of Forget: whichever child exited, the manager has none any more. *)
ForgetAnyChild(p) ==
  /\ child' = NoWorker
  /\ stopTimer' = NoWorker
  /\ UNCHANGED killed

(* What the "error" and "exit" listeners do to the manager's state. *)
Forget(p) ==
  /\ child' = IF child = p THEN NoWorker ELSE child
  /\ stopTimer' = NoWorker
  /\ UNCHANGED killed

SpawnError(p) ==
  /\ Fault
  /\ proc[p] = "spawning"
  /\ Become(p, "gone")
  /\ Forget(p)
  /\ MarkOffline
  /\ UNCHANGED wire

(* Mutant of Exited: only the exit of the present child is reported. *)
ExitedIfCurrent(p) ==
  /\ proc[p] = "dead"
  /\ Become(p, "gone")
  /\ Forget(p)
  /\ IF child = p THEN MarkOffline ELSE UNCHANGED document
  /\ UNCHANGED <<wire, faults>>

(* The "exit" event. *)
Exited(p) ==
  /\ proc[p] = "dead"
  /\ Become(p, "gone")
  /\ Forget(p)
  /\ MarkOffline
  /\ UNCHANGED <<wire, faults>>

-----------------------------------------------------------------------------
(* The worker *)

(* Its client receives the latest revision: a snapshot, or the patch of a commit. *)
Observe(p) ==
  /\ proc[p] \in {"alive", "terminating"}
  /\ p \notin copy
  /\ copy' = copy \cup {p}
  /\ UNCHANGED <<proc, manager, status, pid, wire, basis, faults>>

(* writeHeartbeat, every 5 s, on the copy it has. *)
Heartbeat(p) ==
  /\ proc[p] \in {"alive", "terminating"}
  /\ p \notin wire
  /\ wire' = wire \cup {p}
  /\ basis' = IF p \in copy THEN basis \cup {p} ELSE basis
  /\ UNCHANGED <<proc, manager, status, pid, copy, faults>>

(* The hub handles the heartbeat, also of a worker that is dead by now: committed, if it is based
   on the stored revision. *)
TakeHeartbeat(p) ==
  /\ p \in wire
  /\ wire' = wire \ {p}
  /\ IF p \in basis THEN Commit("ready", p) ELSE UNCHANGED document
  /\ UNCHANGED <<proc, manager, faults>>

(* The SIGTERM handler of the worker ends in process.exit(0); its own "offline" is never sent, for
   the flush of it is a microtask that no longer runs. *)
Terminate(p) ==
  /\ proc[p] = "terminating"
  /\ Become(p, "dead")
  /\ UNCHANGED <<manager, document, wire, faults>>

Crash(p) ==
  /\ Fault
  /\ proc[p] \in {"alive", "hung"}
  /\ Become(p, "dead")
  /\ UNCHANGED <<manager, document, wire>>

(* Its event loop blocks: no heartbeat, and no SIGTERM handler. *)
Hang(p) ==
  /\ Fault
  /\ proc[p] \in {"alive", "terminating"}
  /\ Become(p, "hung")
  /\ UNCHANGED <<manager, document, wire>>

(* What a dead worker had sent may be lost. *)
HeartbeatLost(p) ==
  /\ proc[p] \in {"dead", "gone"} /\ p \in wire
  /\ wire' = wire \ {p} /\ basis' = basis \ {p}
  /\ UNCHANGED <<proc, manager, status, pid, copy, faults>>

-----------------------------------------------------------------------------
Init ==
  /\ proc = [p \in Workers |-> "unused"]
  /\ killed = {} /\ child = NoWorker /\ stopTimer = NoWorker
  /\ status = "offline" /\ pid = NoWorker
  /\ copy = {} /\ wire = {} /\ basis = {}
  /\ faults = 0

Next ==
  \/ \E p \in Workers :
       \/ Start(p) \/ Spawned(p) \/ SpawnError(p) \/ Exited(p)
       \/ Observe(p) \/ Heartbeat(p) \/ TakeHeartbeat(p) \/ HeartbeatLost(p)
       \/ Terminate(p) \/ Crash(p) \/ Hang(p)
  \/ StartRejected \/ StopRunning \/ StopStopped \/ StopTimeout

(* Events and timers of the server are handled, a worker that does not hang observes the document,
   sends its heartbeats and obeys SIGTERM. *)
Fairness ==
  /\ WF_vars(StopTimeout)
  /\ \A p \in Workers :
       /\ WF_vars(Spawned(p)) /\ WF_vars(Exited(p)) /\ WF_vars(Terminate(p))
       /\ WF_vars(Observe(p)) /\ WF_vars(Heartbeat(p)) /\ WF_vars(TakeHeartbeat(p))

Spec == Init /\ [][Next]_vars
FairSpec == Spec /\ Fairness

-----------------------------------------------------------------------------
(* Type invariant; the manager's timer and the writes on their way belong to processes it spawned. *)
TypeOK ==
  /\ proc \in [Workers -> {"unused", "spawning", "alive", "hung", "terminating", "dead", "gone"}]
  /\ killed \subseteq Workers
  /\ child \in Workers \cup {NoWorker}
  /\ stopTimer \in killed \cup {NoWorker}
  /\ status \in {"offline", "starting", "ready", "stopping"}
  /\ pid \in Workers \cup {NoWorker}
  /\ (pid = NoWorker) <=> (status = "offline")
  /\ copy \subseteq Workers /\ wire \subseteq Workers /\ basis \subseteq wire
  /\ faults \in 0 .. MaxFaults

(* There is at most one worker nobody asked to stop, and the manager can still stop it: the late
   exit event of a predecessor does not make it forget the worker that is running now. *)
RunningIsManaged == \A p \in Running \ killed : child = p

(* The worker is a singleton: no two worker processes exist at a time. *)
Singleton == \A p, q \in Running : p = q

(* The runtime document follows the worker: when no worker process is left it ends up offline (a
   heartbeat that comes in after the exit does not bring the dead worker back), and a worker that
   keeps running is reported again and again with its own process id, whatever the exit of its
   predecessor wrote into the document. *)
ReportsFollowWorker ==
  /\ <>[](Running = {}) => <>[](status = "offline")
  /\ \A p \in Workers : []<>(proc[p] = "alive" => status = "ready" /\ pid = p)

-----------------------------------------------------------------------------
(* Proofs: for every number of spawned processes and faults the manager never loses the worker nobody
   stopped. *)

(* The initial state is typed. *)
LEMMA InitTypeOK == Init => TypeOK
  BY WorkerAssumption DEF Init, TypeOK, Workers

States == {"unused", "spawning", "alive", "hung", "terminating", "dead", "gone"}

(* TypeOK in parts: the processes and the manager, the runtime document, what is on its way. *)
ManagerType ==
  /\ proc \in [Workers -> States]
  /\ killed \subseteq Workers
  /\ child \in Workers \cup {NoWorker}
  /\ stopTimer \in killed \cup {NoWorker}
  /\ faults \in 0 .. MaxFaults

DocumentType ==
  /\ status \in {"offline", "starting", "ready", "stopping"}
  /\ pid \in Workers \cup {NoWorker}
  /\ (pid = NoWorker) <=> (status = "offline")

WireType == copy \subseteq Workers /\ wire \subseteq Workers /\ basis \subseteq wire

(* The three parts make up TypeOK. *)
LEMMA TypeParts == TypeOK <=> ManagerType /\ DocumentType /\ WireType
  BY DEF TypeOK, ManagerType, DocumentType, WireType, States

(* Every step keeps processes and manager typed. *)
LEMMA NextManagerType ==
  ASSUME ManagerType, Next
  PROVE  ManagerType'
<1> USE WorkerAssumption DEF ManagerType, States, Workers, Become, manager
<1>1. ASSUME NEW p \in Workers, Start(p)
      PROVE  ManagerType'
  BY <1>1 DEF Start
<1>2. ASSUME NEW p \in Workers, Spawned(p)
      PROVE  ManagerType'
  BY <1>2 DEF Spawned
<1>3. ASSUME NEW p \in Workers, SpawnError(p)
      PROVE  ManagerType'
  BY <1>3 DEF SpawnError, Forget, Fault
<1>4. ASSUME NEW p \in Workers, Exited(p)
      PROVE  ManagerType'
  BY <1>4 DEF Exited, Forget
<1>5. ASSUME NEW p \in Workers,
             Observe(p) \/ Heartbeat(p) \/ TakeHeartbeat(p) \/ HeartbeatLost(p)
      PROVE  ManagerType'
  BY <1>5 DEF Observe, Heartbeat, TakeHeartbeat, HeartbeatLost
<1>6. ASSUME NEW p \in Workers, Terminate(p)
      PROVE  ManagerType'
  BY <1>6 DEF Terminate
<1>7. ASSUME NEW p \in Workers, Crash(p) \/ Hang(p)
      PROVE  ManagerType'
  <2>1. proc' = [proc EXCEPT ![p] = "dead"] \/ proc' = [proc EXCEPT ![p] = "hung"]
    BY <1>7 DEF Crash, Hang
  <2>2. faults' \in 0 .. MaxFaults
    BY <1>7 DEF Crash, Hang, Fault
  <2>3. UNCHANGED manager
    BY <1>7 DEF Crash, Hang
  <2> QED
    BY <2>1, <2>2, <2>3
<1>8. CASE StartRejected
  <2>1. faults' \in 0 .. MaxFaults
    BY <1>8 DEF StartRejected, Fault
  <2> QED
    BY <1>8, <2>1 DEF StartRejected
<1>9. CASE StopStopped
  BY <1>9 DEF StopStopped
<1>10. CASE StopRunning \/ StopTimeout
  BY <1>10 DEF StopRunning, StopTimeout, IsRunning
<1> QED
  BY <1>1, <1>2, <1>3, <1>4, <1>5, <1>6, <1>7, <1>8, <1>9, <1>10 DEF Next

(* Every commit of the document keeps process id and status in step. *)
LEMMA NextDocumentType ==
  ASSUME ManagerType, DocumentType, Next
  PROVE  DocumentType'
<1> USE WorkerAssumption DEF DocumentType, Workers, Commit, MarkOffline, document
<1>1. ASSUME NEW p \in Workers, Start(p) \/ Spawned(p) \/ SpawnError(p) \/ Exited(p)
      PROVE  DocumentType'
  BY <1>1 DEF Start, Spawned, SpawnError, Exited
<1>2. ASSUME NEW p \in Workers,
             Observe(p) \/ Heartbeat(p) \/ TakeHeartbeat(p) \/ HeartbeatLost(p)
      PROVE  DocumentType'
  BY <1>2 DEF Observe, Heartbeat, TakeHeartbeat, HeartbeatLost
<1>3. ASSUME NEW p \in Workers, Terminate(p) \/ Crash(p) \/ Hang(p)
      PROVE  DocumentType'
  BY <1>3 DEF Terminate, Crash, Hang
<1>4. CASE StartRejected \/ StopStopped \/ StopTimeout
  BY <1>4 DEF StartRejected, StopStopped, StopTimeout
<1>5. CASE StopRunning
  BY <1>5 DEF StopRunning, IsRunning, ManagerType
<1> QED
  BY <1>1, <1>2, <1>3, <1>4, <1>5 DEF Next

(* Every step keeps copies and heartbeats typed; a heartbeat that is gone has no basis left. *)
LEMMA NextWireType ==
  ASSUME WireType, Next
  PROVE  WireType'
<1> USE DEF WireType, Commit, MarkOffline, document
<1>1. ASSUME NEW p \in Workers, Start(p) \/ Spawned(p) \/ SpawnError(p) \/ Exited(p)
      PROVE  WireType'
  BY <1>1 DEF Start, Spawned, SpawnError, Exited
<1>2. ASSUME NEW p \in Workers, Observe(p) \/ Heartbeat(p)
      PROVE  WireType'
  BY <1>2 DEF Observe, Heartbeat
<1>3. ASSUME NEW p \in Workers, TakeHeartbeat(p)
      PROVE  WireType'
  BY <1>3 DEF TakeHeartbeat
<1>4. ASSUME NEW p \in Workers, HeartbeatLost(p)
      PROVE  WireType'
  BY <1>4 DEF HeartbeatLost
<1>5. ASSUME NEW p \in Workers, Terminate(p) \/ Crash(p) \/ Hang(p)
      PROVE  WireType'
  BY <1>5 DEF Terminate, Crash, Hang
<1>6. CASE StartRejected \/ StopRunning \/ StopStopped \/ StopTimeout
  BY <1>6 DEF StartRejected, StopRunning, StopStopped, StopTimeout
<1> QED
  BY <1>1, <1>2, <1>3, <1>4, <1>5, <1>6 DEF Next

(* Every step keeps the types. *)
LEMMA NextTypeOK ==
  ASSUME TypeOK, [Next]_vars
  PROVE  TypeOK'
<1>1. CASE Next
  <2>1. ManagerType' /\ DocumentType' /\ WireType'
    BY <1>1, TypeParts, NextManagerType, NextDocumentType, NextWireType
  <2> QED
    BY <2>1 DEF TypeOK, ManagerType, DocumentType, WireType, States
<1>2. CASE UNCHANGED vars
  BY <1>2 DEF vars, TypeOK
<1> QED
  BY <1>1, <1>2

(* Type correctness of the manager, its processes and the runtime document. *)
THEOREM TypeCorrect == Spec => []TypeOK
  BY InitTypeOK, NextTypeOK, PTL DEF Spec

-----------------------------------------------------------------------------
(* When the manager holds no running child, no worker runs that nobody stopped: this is what makes
   it safe to forget the child, or to spawn another. *)
LEMMA NothingUnmanaged ==
  ASSUME TypeOK, RunningIsManaged, ~IsRunning(child)
  PROVE  Running \subseteq killed
<1> SUFFICES ASSUME NEW q \in Running, q \notin killed
             PROVE  FALSE
  OBVIOUS
<1>1. child = q /\ q \in Workers /\ proc[q] # "gone"
  BY DEF RunningIsManaged, Running
<1> QED
  BY <1>1, WorkerAssumption DEF IsRunning, Workers

(* A step that starts no process leaves no worker running that was not running before. *)
LEMMA NextRunningIsManaged ==
  ASSUME TypeOK, RunningIsManaged, [Next]_vars
  PROVE  RunningIsManaged'
<1> USE DEF Running, Become
<1>1. CASE \E p \in Workers : Start(p)
  <2>1. PICK p \in Workers : Start(p)
    BY <1>1
  <2>2. Running' \ killed' \subseteq {p}
    BY <2>1, NothingUnmanaged DEF Start, TypeOK
  <2> QED
    BY <2>1, <2>2 DEF Start, RunningIsManaged
<1>2. CASE \E p \in Workers : SpawnError(p) \/ Exited(p)
  <2>1. PICK p \in Workers : SpawnError(p) \/ Exited(p)
    BY <1>2
  <2>2. /\ killed' = killed
        /\ child' = IF child = p THEN NoWorker ELSE child
        /\ Running' \subseteq Running \ {p}
    BY <2>1 DEF SpawnError, Exited, Forget, TypeOK
  <2> QED
    BY <2>2 DEF RunningIsManaged
<1>3. CASE StopStopped
  BY <1>3, NothingUnmanaged DEF StopStopped, RunningIsManaged
<1>4. CASE StopRunning
  <2>1. killed' = killed \cup {child} /\ child' = child /\ Running' \subseteq Running
    BY <1>4 DEF StopRunning, TypeOK
  <2> QED
    BY <2>1 DEF RunningIsManaged
<1>5. CASE \/ \E p \in Workers : \/ Spawned(p) \/ Observe(p) \/ Heartbeat(p) \/ TakeHeartbeat(p)
                                 \/ HeartbeatLost(p) \/ Terminate(p) \/ Crash(p) \/ Hang(p)
           \/ StartRejected \/ StopTimeout \/ UNCHANGED vars
  <2>1. killed' = killed /\ child' = child
    BY <1>5 DEF Spawned, Observe, Heartbeat, TakeHeartbeat, HeartbeatLost, Terminate, Crash, Hang,
                StartRejected, StopTimeout, manager, vars
  <2>2. Running' \subseteq Running
    BY <1>5 DEF Spawned, Observe, Heartbeat, TakeHeartbeat, HeartbeatLost, Terminate, Crash, Hang,
                StartRejected, StopTimeout, vars, TypeOK
  <2> QED
    BY <2>1, <2>2 DEF RunningIsManaged
<1> QED
  BY <1>1, <1>2, <1>3, <1>4, <1>5 DEF Next

(* The manager never loses a worker nobody asked to stop, whatever the order of the events of its
   children: at most one such worker exists, and it is this.child. *)
THEOREM NeverLosesRunning == Spec => []RunningIsManaged
<1>1. Init => RunningIsManaged
  BY DEF Init, RunningIsManaged, Running
<1>2. TypeOK /\ RunningIsManaged /\ [Next]_vars => RunningIsManaged'
  BY NextRunningIsManaged
<1> QED
  BY <1>1, <1>2, TypeCorrect, PTL DEF Spec
=============================================================================
