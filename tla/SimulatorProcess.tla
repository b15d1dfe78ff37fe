--------------------------- MODULE SimulatorProcess ---------------------------
(***************************************************************************)
(* The decoder simulator ammc-sim, which the worker runs as the timing     *)
(* document wishes: started, stopped and, with another configuration,      *)
(* started again.  Only one simulator can listen on the decoder port, and  *)
(* one that has been told to end may hold it a little longer; the next one *)
(* then exits, which is an error and not retried.                          *)
(*                                                                         *)
(* Left out: the command line (a configuration is what simulatorArgs makes *)
(* of it) and the times and texts of the status.                           *)
(***************************************************************************)
EXTENDS Naturals

CONSTANTS
  Configs,
  NoTransponders, \* the configurations without transponders
  NoProcess,      \* `null`: no child, no running key
  Installed,      \* is there a simulator binary?
  MaxProcesses,   \* bound: processes started
  MaxEdits        \* bound: changes of the document

VARIABLES
  doc,         \* the document: running and config
  heard,       \* what the worker has of it
  child, runningKey,
  simState,    \* `current.state`
  process,     \* process -> "none", "spawned", "listening", "killed", "exited" or "gone"
  port,        \* the process that holds the decoder port
  edits

simVars == <<doc, heard, child, runningKey, simState, process, port, edits>>
worker == <<heard, child, runningKey, simState>>

Processes == 1 .. MaxProcesses
Wishes == [running : BOOLEAN, config : Configs]
Alive(p) == process[p] \in {"spawned", "listening", "killed"}

-----------------------------------------------------------------------------
Edit(wish) ==
  /\ edits < MaxEdits /\ edits' = edits + 1
  /\ wish # doc
  /\ doc' = wish
  /\ UNCHANGED <<worker, process, port>>

(* stop(): the child is told to end, its exit will not be heard. *)
Killed == IF child = NoProcess \/ ~Alive(child) THEN process ELSE [process EXCEPT ![child] = "killed"]

Stopped ==
  /\ child' = NoProcess /\ runningKey' = NoProcess /\ simState' = "stopped"
  /\ process' = Killed

Refused(config) ==
  /\ child' = NoProcess /\ runningKey' = config /\ simState' = "error"
  /\ process' = Killed

Started(config) ==
  \E p \in Processes :
    /\ process[p] = "none" /\ \A q \in 1 .. p - 1 : process[q] # "none"
    /\ child' = p /\ runningKey' = config /\ simState' = "starting"
    /\ process' = [Killed EXCEPT ![p] = "spawned"]

(* apply(), with every copy of the document. *)
apply ==
  /\ heard # doc /\ heard' = doc
  /\ LET key == IF doc.running THEN doc.config ELSE NoProcess
         startable == doc.config \notin NoTransponders /\ Installed
     IN \/ key = runningKey /\ UNCHANGED <<child, runningKey, simState, process>>
        \/ key # runningKey /\ ~doc.running /\ Stopped
        \/ key # runningKey /\ doc.running /\ ~startable /\ Refused(key)
        \/ key # runningKey /\ doc.running /\ startable /\ Started(key)
  /\ UNCHANGED <<doc, port, edits>>

-----------------------------------------------------------------------------
(* The processes. *)

(* It binds the port, or exits because another one holds it. *)
Bind(p) ==
  /\ process[p] = "spawned"
  /\ \/ port = NoProcess /\ port' = p /\ process' = [process EXCEPT ![p] = "listening"]
     \/ port # NoProcess /\ process' = [process EXCEPT ![p] = "exited"] /\ UNCHANGED port
  /\ UNCHANGED <<doc, worker, edits>>

(* It ends, told to or by itself. *)
Exit(p) ==
  /\ Alive(p)
  /\ process' = [process EXCEPT ![p] = IF process[p] = "killed" THEN "gone" ELSE "exited"]
  /\ port' = IF port = p THEN NoProcess ELSE port
  /\ UNCHANGED <<doc, worker, edits>>

(* A line of output: "Listening on" means it runs. *)
onLine(p) ==
  /\ p = child /\ process[p] = "listening" /\ simState # "running"
  /\ simState' = "running"
  /\ UNCHANGED <<doc, heard, child, runningKey, process, port, edits>>

spawned(p) ==
  /\ p = child /\ Alive(p) /\ simState = "starting"
  /\ simState' = "running"
  /\ UNCHANGED <<doc, heard, child, runningKey, process, port, edits>>

(* "exit" or "error": only that of the present child counts. *)
exited(p) ==
  /\ process[p] = "exited"
  /\ process' = [process EXCEPT ![p] = "gone"]
  /\ IF p = child THEN child' = NoProcess /\ simState' = "error" ELSE UNCHANGED <<child, simState>>
  /\ UNCHANGED <<doc, heard, runningKey, port, edits>>

-----------------------------------------------------------------------------
Init ==
  /\ \E config \in Configs : doc = [running |-> FALSE, config |-> config] /\ heard = doc
  /\ child = NoProcess /\ runningKey = NoProcess /\ simState = "stopped"
  /\ process = [p \in Processes |-> "none"] /\ port = NoProcess
  /\ edits = 0

Next ==
  \/ \E wish \in Wishes : Edit(wish)
  \/ apply
  \/ \E p \in Processes : Bind(p) \/ Exit(p) \/ onLine(p) \/ spawned(p) \/ exited(p)

Spec == Init /\ [][Next]_simVars

-----------------------------------------------------------------------------
TypeOK ==
  /\ doc \in Wishes /\ heard \in Wishes
  /\ child \in Processes \cup {NoProcess} /\ runningKey \in Configs \cup {NoProcess}
  /\ simState \in {"stopped", "starting", "running", "error"}
  /\ process \in [Processes -> {"none", "spawned", "listening", "killed", "exited", "gone"}]
  /\ port \in Processes \cup {NoProcess} /\ edits \in 0 .. MaxEdits

(* No simulator is left that nobody would end: one that is not the child has been told to. *)
NoStraySimulator == \A p \in Processes : process[p] \in {"spawned", "listening"} => p = child

(* Starting or running is said of a child that has not reported its end, and of no other. *)
StatusOfChild ==
  /\ simState \in {"starting", "running"} <=> child # NoProcess
  /\ child # NoProcess => process[child] \in {"spawned", "listening", "exited"} /\ runningKey = heard.config

(* In the end a simulator that is not wished for is gone, and one that is runs or is reported. *)
WishCarriedOut ==
  IF doc.running THEN simState \in {"running", "error"} ELSE \A p \in Processes : ~Alive(p)
=============================================================================
