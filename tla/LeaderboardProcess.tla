-------------------------- MODULE LeaderboardProcess --------------------------
(***************************************************************************)
(* The managed leaderboard service as a child process of the server:       *)
(* LeaderboardServiceManager (start, stop, health, restarts after a crash) *)
(* and the processes themselves, which compete for one port. /health is    *)
(* asked on that port, so any process that serves it may answer.           *)
(*                                                                         *)
(* Time is abstracted: how many restarts are still within the window is a  *)
(* choice made at each exit.                                               *)
(***************************************************************************)
EXTENDS Naturals, FiniteSets

CONSTANTS
  NoChild,       \* `null`
  MaxRestarts,   \* MAX_RESTARTS
  MaxLaunches,   \* bound: processes spawned
  MaxBreakdowns  \* bound: crashes, hangs, spawn errors, missing entries

Launches == 1 .. MaxLaunches

VARIABLES
  run,          \* run[p]: unused, booting, serving, hung, exited (event pending), gone, failed (spawn error)
  signalled,    \* processes that got SIGTERM
  svcChild,     \* this.child
  svcState,     \* this.state
  stopRequested,
  killTimer,    \* this.killTimer: the child it is about
  lostTimers,   \* the children of running SIGKILL timers this.killTimer was overwritten over
  waiting,      \* children a waitForHealth is polling for
  restarts,     \* restartTimes.length
  restartTimers, \* restart timers running, this.restartTimer and forgotten ones
  restartHeld,  \* this.restartTimer # null
  breakdowns

procVars == <<run, signalled, svcChild, svcState, stopRequested, killTimer, lostTimers, waiting,
              restarts, restartTimers, restartHeld, breakdowns>>
timers == <<killTimer, lostTimers, restarts, restartTimers, restartHeld>>

Alive == {p \in Launches : run[p] \in {"booting", "serving", "hung"}}
Breakdown == breakdowns < MaxBreakdowns /\ breakdowns' = breakdowns + 1

-----------------------------------------------------------------------------
(* What start() does, called by a request or by the restart timer. *)

Ask ==
  /\ svcState \in {"running", "starting"}
  /\ waiting' = IF run[svcChild] = "failed" THEN waiting ELSE waiting \cup {svcChild}
  /\ UNCHANGED <<run, svcChild, svcState, stopRequested, breakdowns>>

(* The spawn may fail: its "error" event comes at once, no "exit" follows, but the exit code is
   set. *)
Launch(p) ==
  /\ svcState \notin {"running", "starting"}
  /\ \A q \in Launches : run[q] = "unused" <=> q >= p
  /\ stopRequested' = FALSE
  /\ \/ run' = [run EXCEPT ![p] = "booting"] /\ UNCHANGED breakdowns
     \/ run' = [run EXCEPT ![p] = "failed"] /\ Breakdown
  /\ svcChild' = p
  /\ svcState' = "starting"
  /\ waiting' = waiting \cup {p}

(* There is no entry to run: the state stays what it was, but a stop is not requested any more. *)
LaunchRejected ==
  /\ svcState \notin {"running", "starting"}
  /\ Breakdown
  /\ stopRequested' = FALSE
  /\ UNCHANGED <<run, svcChild, svcState, waiting>>

StartService == Ask \/ LaunchRejected \/ \E p \in Launches : Launch(p)

StartRequest == StartService /\ UNCHANGED <<signalled, timers>>

(* Mutant of StopStoppedService: a child whose spawn failed stays. *)
StopStoppedServiceKeepsChild ==
  /\ svcChild \notin {p \in Launches : run[p] # "failed"}
  /\ stopRequested' = TRUE
  /\ restartTimers' = IF restartHeld THEN restartTimers - 1 ELSE restartTimers
  /\ restartHeld' = FALSE
  /\ svcState' = "stopped"
  /\ UNCHANGED <<run, signalled, svcChild, killTimer, lostTimers, waiting, restarts, breakdowns>>

(* stop() without a child, or with one that could not be spawned. *)
StopStoppedService ==
  /\ svcChild \notin {p \in Launches : run[p] # "failed"}
  /\ stopRequested' = TRUE
  /\ restartTimers' = IF restartHeld THEN restartTimers - 1 ELSE restartTimers
  /\ restartHeld' = FALSE
  /\ svcChild' = NoChild
  /\ svcState' = "stopped"
  /\ UNCHANGED <<run, signalled, killTimer, lostTimers, waiting, restarts, breakdowns>>

(* stop(): SIGTERM now, SIGKILL after 5 s. *)
StopService ==
  /\ svcChild \in {p \in Launches : run[p] # "failed"}
  /\ stopRequested' = TRUE
  /\ restartTimers' = IF restartHeld THEN restartTimers - 1 ELSE restartTimers
  /\ restartHeld' = FALSE
  /\ svcState' = "stopping"
  /\ signalled' = signalled \cup {svcChild}
  /\ lostTimers' = (lostTimers \cup {killTimer}) \ {NoChild}
  /\ killTimer' = svcChild
  /\ UNCHANGED <<run, svcChild, waiting, restarts, breakdowns>>

(* Mutant of KillTimeout: SIGTERM once more. *)
KillTimeoutTerm(p) ==
  /\ p = killTimer /\ killTimer' = NoChild
  /\ signalled' = signalled \cup {p}
  /\ UNCHANGED <<run, svcChild, svcState, stopRequested, lostTimers, waiting, restarts,
                 restartTimers, restartHeld, breakdowns>>

(* The 5 s of a stop are over: SIGKILL. *)
KillTimeout(p) ==
  /\ \/ p = killTimer /\ killTimer' = NoChild /\ UNCHANGED lostTimers
     \/ p \in lostTimers /\ lostTimers' = lostTimers \ {p} /\ UNCHANGED killTimer
  /\ run' = IF p \in Alive THEN [run EXCEPT ![p] = "exited"] ELSE run
  /\ UNCHANGED <<signalled, svcChild, svcState, stopRequested, waiting, restarts,
                 restartTimers, restartHeld, breakdowns>>

(* The restart timer of 1 s. A forgotten timer is told apart from this.restartTimer only by what
   stop() can clear; both null the field. *)
RestartTimeout ==
  /\ restartTimers > 0
  /\ restartTimers' = restartTimers - 1
  /\ restartHeld' = FALSE
  /\ IF stopRequested THEN UNCHANGED <<run, svcChild, svcState, stopRequested, waiting, breakdowns>>
                      ELSE StartService
  /\ UNCHANGED <<signalled, killTimer, lostTimers, restarts>>

-----------------------------------------------------------------------------
(* waitForHealth *)

Healthy(p) ==
  /\ p \in waiting
  /\ \E q \in Launches : run[q] = "serving"
  /\ waiting' = waiting \ {p}
  /\ svcState' = IF svcChild = p /\ svcState = "starting" THEN "running" ELSE svcState
  /\ UNCHANGED <<run, signalled, svcChild, stopRequested, timers, breakdowns>>

(* The deadline, or it sees the child gone or replaced. *)
HealthGivenUp(p) ==
  /\ p \in waiting
  /\ waiting' = waiting \ {p}
  /\ UNCHANGED <<run, signalled, svcChild, svcState, stopRequested, timers, breakdowns>>

-----------------------------------------------------------------------------
(* The exit event. Whichever child it is, the kill timer is cleared. *)

(* Mutant of IsCurrent: the exit of a predecessor counts as the child's. *)
IsCurrentAny(p) == svcChild # NoChild

IsCurrent(p) == svcChild = p

ServiceExited(p) ==
  /\ run[p] = "exited"
  /\ run' = [run EXCEPT ![p] = "gone"]
  /\ killTimer' = NoChild
  /\ IF ~IsCurrent(p)
       THEN UNCHANGED <<svcChild, svcState, restarts, restartTimers, restartHeld>>
       ELSE /\ svcChild' = NoChild
            /\ IF stopRequested
                 THEN svcState' = "stopped" /\ UNCHANGED <<restarts, restartTimers, restartHeld>>
                 ELSE /\ svcState' = "crashed"
                      /\ \E recent \in 0 .. restarts :
                           IF recent >= MaxRestarts
                             THEN restarts' = recent /\ UNCHANGED <<restartTimers, restartHeld>>
                             ELSE /\ restarts' = recent + 1
                                  /\ restartTimers' = restartTimers + 1
                                  /\ restartHeld' = TRUE
  /\ UNCHANGED <<signalled, stopRequested, lostTimers, waiting, breakdowns>>

-----------------------------------------------------------------------------
(* The processes *)

(* listen(): the port is free, or the process exits. *)
Listen(p) ==
  /\ run[p] = "booting"
  /\ run' = [run EXCEPT ![p] = IF \E q \in Launches : run[q] \in {"serving", "hung"}
                                 THEN "exited" ELSE "serving"]
  /\ UNCHANGED <<signalled, svcChild, svcState, stopRequested, timers, waiting, breakdowns>>

ObeySignal(p) ==
  /\ p \in signalled /\ run[p] \in {"booting", "serving"}
  /\ run' = [run EXCEPT ![p] = "exited"]
  /\ UNCHANGED <<signalled, svcChild, svcState, stopRequested, timers, waiting, breakdowns>>

Collapse(p) ==
  /\ Breakdown
  /\ p \in Alive
  /\ \E s \in {"exited", "hung"} : run' = [run EXCEPT ![p] = s]
  /\ UNCHANGED <<signalled, svcChild, svcState, stopRequested, timers, waiting>>

-----------------------------------------------------------------------------
Init ==
  /\ run = [p \in Launches |-> "unused"]
  /\ signalled = {} /\ svcChild = NoChild /\ svcState = "stopped" /\ stopRequested = FALSE
  /\ killTimer = NoChild /\ lostTimers = {} /\ waiting = {}
  /\ restarts = 0 /\ restartTimers = 0 /\ restartHeld = FALSE
  /\ breakdowns = 0

Next ==
  \/ StartRequest \/ StopStoppedService \/ StopService \/ RestartTimeout
  \/ \E p \in Launches :
       \/ KillTimeout(p) \/ Healthy(p) \/ HealthGivenUp(p) \/ ServiceExited(p)
       \/ Listen(p) \/ ObeySignal(p) \/ Collapse(p)

Spec == Init /\ [][Next]_procVars

(* Timers fire, events are handled and a process that does not hang obeys SIGTERM. *)
Fairness ==
  \A p \in Launches : WF_procVars(KillTimeout(p)) /\ WF_procVars(ServiceExited(p))
                        /\ WF_procVars(ObeySignal(p)) /\ WF_procVars(Listen(p))

-----------------------------------------------------------------------------
(* Type invariant; the manager has a child exactly while it is in an active state, and a restart
   can be under way only within the budget. *)
TypeOK ==
  /\ run \in [Launches -> {"unused", "booting", "serving", "hung", "exited", "gone", "failed"}]
  /\ signalled \subseteq Launches /\ waiting \subseteq Launches /\ lostTimers \subseteq signalled
  /\ svcChild \in Launches \cup {NoChild} /\ killTimer \in signalled \cup {NoChild}
  /\ svcState \in {"stopped", "starting", "running", "stopping", "crashed"}
  /\ (svcChild # NoChild) <=> svcState \in {"starting", "running", "stopping"}
  /\ stopRequested \in BOOLEAN /\ restartHeld \in BOOLEAN
  /\ restarts \in 0 .. MaxRestarts
  /\ breakdowns \in 0 .. MaxBreakdowns

(* A service process nobody asked to stop is the manager's child: a start while it is stopping,
   restart timers it forgot and late exit events never leave one running that a stop cannot reach. *)
ServiceManaged == \A p \in Alive \ signalled : svcChild = p

(* stop() ends, also when the service hangs, unless a start in between made the manager the parent
   of two processes at once. *)
StopEnds ==
  [](Cardinality(Alive \cup {p \in Launches : run[p] = "exited"}) <= 1)
    => (svcState = "stopping" ~> svcState # "stopping")
=============================================================================
