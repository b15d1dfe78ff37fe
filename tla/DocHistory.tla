----------------------------- MODULE DocHistory -----------------------------
(***************************************************************************)
(* What the realtime document layer promises, without sockets or frames:   *)
(* one document has a single linear history of versions, and every         *)
(* subscriber shows some version of that history, never going back to an   *)
(* older one.                                                              *)
(***************************************************************************)
EXTENDS Naturals, Sequences

CONSTANTS Clients, Docs, InitDoc

VARIABLES
  history,   \* the versions of the document; revision r is history[r + 1]
  view       \* what each client shows: {} or {[rev |-> r, data |-> d]}

vars == <<history, view>>

Version(r) == [rev |-> r, data |-> history[r + 1]]

Init ==
  /\ history = <<InitDoc>>
  /\ view = [c \in Clients |-> {}]

(* A new version is committed on top of the latest one. *)
Commit ==
  /\ \E d \in Docs : history' = Append(history, d)
  /\ UNCHANGED view

(* A client moves on to a committed version that is not older than the one it shows. *)
Observe(c) ==
  /\ \E r \in 0 .. Len(history) - 1 :
       /\ \A v \in view[c] : v.rev <= r
       /\ view' = [view EXCEPT ![c] = {Version(r)}]
  /\ UNCHANGED history

Next == Commit \/ \E c \in Clients : Observe(c)

Spec == Init /\ [][Next]_vars
=============================================================================
