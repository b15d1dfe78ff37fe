---------------------------- MODULE RealtimeDoc ----------------------------
(***************************************************************************)
(* The realtime document protocol for one document id: the document store  *)
(* (DocStore), the WebSocket hub (RealtimeHub), the write rule             *)
(* (applyClientWrite) and the reconnecting client (RealtimeDocClient).     *)
(*                                                                         *)
(* The hub is one Node process: a handler runs to its end before the next  *)
(* event, so each handler is one action.  What is not atomic is everything *)
(* between the processes: frames wait in socket buffers, connections break,*)
(* and the server may be restarted, even between the save of an accepted   *)
(* write and its broadcast.                                                *)
(***************************************************************************)
EXTENDS Naturals, Sequences, FiniteSets

CONSTANTS
  Clients,        \* RealtimeDocClient instances subscribed to the document
  Docs,           \* the values the document can have
  InitDoc,        \* initialDocumentData(id)
  Patches,        \* JSON patches, the full replacements among them
  ClientPatches,  \* the patches compare(prev, next) of a client can yield
  Apply(_, _),    \* Apply(d, p): the document after patch p
  Valid(_, _),    \* Valid(d, p): fast-json-patch can apply p to d
  Replace(_),     \* Replace(d): the patch [{op: "replace", path: "", value: d}]
  Updater(_),     \* the mutation of a server-originated update
  NoDoc,          \* a client's `data: null`
  MaxWrites,      \* bound: client and server updates
  MaxFaults       \* bound: broken connections, failed saves, crashes, refused connects

ASSUME DocAssumption ==
  /\ InitDoc \in Docs
  /\ NoDoc \notin Docs
  /\ ClientPatches \subseteq Patches

ASSUME PatchAssumption ==
  /\ \A d \in Docs, p \in Patches : Valid(d, p) => Apply(d, p) \in Docs
  /\ \A d \in Docs : Updater(d) \in Docs /\ Replace(d) \in Patches
  /\ \A d, e \in Docs : Valid(e, Replace(d)) /\ Apply(e, Replace(d)) = d

ASSUME BoundAssumption == MaxWrites \in Nat /\ MaxFaults \in Nat

VARIABLES
  store,      \* the row of the docs table: [rev, data]
  history,    \* ghost: the committed versions, [data, seen]; revision r is history[r + 1]
  wsClients,  \* clients whose current socket the hub has registered
  up,         \* up[c]: write frames on their way from c's current socket to the hub
  down,       \* down[c]: frames on their way from the hub to c's current socket
  stray,      \* write frames of sockets the client has already let go
  link,       \* link[c]: the state of c's current socket
  rev,        \* rev[c], data[c]: the client's copy of the document
  data,
  retry,      \* retry[c]: connect() is due (at start, or from the reconnect timer)
  closed,     \* closed[c]: close() was called
  writes,     \* counts updates, up to MaxWrites
  faults      \* counts faults, up to MaxFaults

server == <<store, history>>
net == <<wsClients, up, down, stray, link>>
client == <<rev, data, retry, closed>>
vars == <<store, history, wsClients, up, down, stray, link, rev, data, retry, closed, writes, faults>>

-----------------------------------------------------------------------------
(* Frames.  Every frame the hub sends to a subscriber carries a revision. *)

Write == [baseRev : Nat, patch : ClientPatches, seen : Docs]

Snapshot(r, d) == [type |-> "snapshot", rev |-> r, data |-> d]
PatchFrame(r, p) == [type |-> "patch", rev |-> r, patch |-> p]
OkFrame(r) == [type |-> "ok", rev |-> r]
ErrorFrame(r, code) == [type |-> "error", rev |-> r, code |-> code]

Frame ==
  [type : {"snapshot"}, rev : Nat, data : Docs]
    \cup [type : {"patch"}, rev : Nat, patch : Patches]
    \cup [type : {"ok"}, rev : Nat]
    \cup [type : {"error"}, rev : Nat, code : {"rev_mismatch", "patch_apply_failed"}]

InFlight(c) == {up[c][i] : i \in 1 .. Len(up[c])}

-----------------------------------------------------------------------------
(* The hub *)

(* Mutant of Accepts: a write based on any older revision is taken (last writer wins). *)
AcceptsAnyRev(w) == w.baseRev <= store.rev /\ Valid(store.data, w.patch)

(* applyClientWrite: the write is based on the stored revision and applies. *)
Accepts(w) == w.baseRev = store.rev /\ Valid(store.data, w.patch)

(* Mutant of RejectionCode: a code the clients do not know. *)
RejectionCodeUnknown(w) == IF w.baseRev # store.rev THEN "stale" ELSE "patch_apply_failed"

RejectionCode(w) == IF w.baseRev # store.rev THEN "rev_mismatch" ELSE "patch_apply_failed"

(* saveDoc of the next version; `seen` is what its author had before its eyes. *)
Persist(d, seen) ==
  /\ store' = [rev |-> store.rev + 1, data |-> d]
  /\ history' = Append(history, [data |-> d, seen |-> seen])

(* broadcastPatch to every registered socket, then the replies to the sender (safeSocketSend
   drops what goes to a socket that is gone). *)
Broadcast(p) ==
  [c \in Clients |-> IF c \in wsClients THEN Append(down[c], PatchFrame(store.rev + 1, p)) ELSE down[c]]

Reply(queues, c, frame) ==
  [queues EXCEPT ![c] = IF c \in wsClients THEN Append(@, frame) ELSE @]

Resync(queues, c, code) ==
  Reply(Reply(queues, c, ErrorFrame(store.rev, code)), c, Snapshot(store.rev, store.data))

(* Mutant of Accept: the socket is registered, and no snapshot is sent. *)
AcceptWithoutSnapshot(c) ==
  /\ link[c] = "connecting"
  /\ link' = [link EXCEPT ![c] = "open"]
  /\ wsClients' = wsClients \cup {c}
  /\ UNCHANGED <<store, history, up, down, stray, rev, data, retry, closed, writes, faults>>

(* The upgrade of c's socket: the hub registers it and sends the current snapshot. *)
Accept(c) ==
  /\ link[c] = "connecting"
  /\ link' = [link EXCEPT ![c] = "open"]
  /\ wsClients' = wsClients \cup {c}
  /\ down' = [down EXCEPT ![c] = <<Snapshot(store.rev, store.data)>>]
  /\ UNCHANGED <<store, history, up, stray, rev, data, retry, closed, writes, faults>>

(* handleClientMessage for a frame of a registered socket: accepted, rejected, or accepted by
   the rule while the save throws. *)
AcceptWrite(c) ==
  /\ c \in wsClients /\ up[c] # <<>>
  /\ LET w == Head(up[c]) IN
       /\ Accepts(w)
       /\ Persist(Apply(store.data, w.patch), w.seen)
       /\ down' = Reply(Broadcast(w.patch), c, OkFrame(store.rev + 1))
  /\ up' = [up EXCEPT ![c] = Tail(@)]
  /\ UNCHANGED <<wsClients, stray, link, rev, data, retry, closed, writes, faults>>

RejectWrite(c) ==
  /\ c \in wsClients /\ up[c] # <<>>
  /\ LET w == Head(up[c]) IN
       /\ ~Accepts(w)
       /\ down' = Resync(down, c, RejectionCode(w))
  /\ up' = [up EXCEPT ![c] = Tail(@)]
  /\ UNCHANGED <<store, history, wsClients, stray, link, rev, data, retry, closed, writes, faults>>

(* Mutant of SaveFails: the patch is broadcast before the save that fails. *)
SaveFailsAfterBroadcast(c) ==
  /\ c \in wsClients /\ up[c] # <<>>
  /\ faults < MaxFaults
  /\ Accepts(Head(up[c]))
  /\ down' = Resync(Broadcast(Head(up[c]).patch), c, "patch_apply_failed")
  /\ up' = [up EXCEPT ![c] = Tail(@)]
  /\ faults' = faults + 1
  /\ UNCHANGED <<store, history, wsClients, stray, link, rev, data, retry, closed, writes>>

SaveFails(c) ==
  /\ c \in wsClients /\ up[c] # <<>>
  /\ faults < MaxFaults
  /\ Accepts(Head(up[c]))
  /\ down' = Resync(down, c, "patch_apply_failed")
  /\ up' = [up EXCEPT ![c] = Tail(@)]
  /\ faults' = faults + 1
  /\ UNCHANGED <<store, history, wsClients, stray, link, rev, data, retry, closed, writes>>

(* The same handler for a frame whose socket the client gave up: nobody reads the reply. *)
HandleStray(w) ==
  /\ w \in stray
  /\ stray' = stray \ {w}
  /\ \/ /\ Accepts(w)
        /\ Persist(Apply(store.data, w.patch), w.seen)
        /\ down' = Broadcast(w.patch)
     \/ /\ ~Accepts(w)
        /\ UNCHANGED <<store, history, down>>
  /\ UNCHANGED <<wsClients, up, link, rev, data, retry, closed, writes, faults>>

(* commitServerDocUpdate: a server-originated update reaches the subscribers as a full replace. *)
ServerUpdate ==
  /\ writes < MaxWrites
  /\ writes' = writes + 1
  /\ LET next == Updater(store.data) IN
       /\ Persist(next, store.data)
       /\ down' = Broadcast(Replace(next))
  /\ UNCHANGED <<wsClients, up, stray, link, rev, data, retry, closed, faults>>

-----------------------------------------------------------------------------
(* Connections *)

(* A connection breaks.  What the hub had not read yet arrives or is lost; what the hub had sent
   is delivered until the client notices (CloseEvent), the rest is lost. *)
Break(c) ==
  /\ c \in wsClients
  /\ faults < MaxFaults
  /\ faults' = faults + 1
  /\ wsClients' = wsClients \ {c}
  /\ \E S \in SUBSET InFlight(c) : stray' = stray \cup S
  /\ up' = [up EXCEPT ![c] = <<>>]
  /\ UNCHANGED <<store, history, down, link, rev, data, retry, closed, writes>>

(* The server process dies and comes back on the same SQLite file: no socket survives, frames
   not yet handled are gone, frames already sent may still arrive. *)
LoseSockets ==
  /\ faults < MaxFaults
  /\ faults' = faults + 1
  /\ wsClients' = {}
  /\ up' = [c \in Clients |-> <<>>]
  /\ stray' = {}
  /\ UNCHANGED <<down, link, rev, data, retry, closed, writes>>

ServerCrash == LoseSockets /\ UNCHANGED server

(* It dies after saveDoc and before broadcastPatch. *)
CrashAfterSave(c) ==
  /\ c \in wsClients /\ up[c] # <<>>
  /\ Accepts(Head(up[c]))
  /\ Persist(Apply(store.data, Head(up[c]).patch), Head(up[c]).seen)
  /\ LoseSockets

-----------------------------------------------------------------------------
(* The client *)

(* connect(), at start or when the reconnect timer fires. *)
Connect(c) ==
  /\ retry[c] /\ ~closed[c]
  /\ retry' = [retry EXCEPT ![c] = FALSE]
  /\ link' = [link EXCEPT ![c] = "connecting"]
  /\ UNCHANGED <<store, history, wsClients, up, down, stray, rev, data, closed, writes, faults>>

(* Mutant of LetGo: no reconnect is scheduled. *)
LetGoForGood(c) ==
  /\ link' = [link EXCEPT ![c] = "none"]
  /\ wsClients' = wsClients \ {c}
  /\ up' = [up EXCEPT ![c] = <<>>]
  /\ down' = [down EXCEPT ![c] = <<>>]
  /\ \E S \in SUBSET InFlight(c) : stray' = stray \cup S
  /\ UNCHANGED retry

(* The socket's "close" event: the client lets it go and schedules a reconnect. *)
LetGo(c) ==
  /\ link' = [link EXCEPT ![c] = "none"]
  /\ retry' = [retry EXCEPT ![c] = TRUE]
  /\ wsClients' = wsClients \ {c}
  /\ up' = [up EXCEPT ![c] = <<>>]
  /\ down' = [down EXCEPT ![c] = <<>>]
  /\ \E S \in SUBSET InFlight(c) : stray' = stray \cup S

CloseEvent(c) ==
  /\ \/ link[c] = "closing"
     \/ link[c] = "open" /\ c \notin wsClients
  /\ LetGo(c)
  /\ UNCHANGED <<store, history, rev, data, closed, writes, faults>>

ConnectFails(c) ==
  /\ link[c] = "connecting"
  /\ faults < MaxFaults
  /\ faults' = faults + 1
  /\ LetGo(c)
  /\ UNCHANGED <<store, history, rev, data, closed, writes>>

(* The "message" handler. *)
TakeSnapshot(c, f) ==
  /\ f.type = "snapshot"
  /\ rev' = [rev EXCEPT ![c] = f.rev]
  /\ data' = [data EXCEPT ![c] = f.data]
  /\ UNCHANGED link

TakePatch(c, f) ==
  /\ f.type = "patch"
  /\ IF data[c] = NoDoc
     THEN UNCHANGED <<rev, data>>
     ELSE /\ rev' = [rev EXCEPT ![c] = f.rev]
          /\ data' = [data EXCEPT ![c] = Apply(data[c], f.patch)]
  /\ UNCHANGED link

TakeError(c, f) ==
  /\ f.type = "error"
  /\ link' = IF f.code = "rev_mismatch" THEN [link EXCEPT ![c] = "closing"] ELSE link
  /\ UNCHANGED <<rev, data>>

TakeOk(c, f) == f.type = "ok" /\ UNCHANGED <<link, rev, data>>

Deliver(c) ==
  /\ link[c] \in {"open", "closing"} /\ down[c] # <<>>
  /\ LET f == Head(down[c]) IN TakeSnapshot(c, f) \/ TakePatch(c, f) \/ TakeError(c, f) \/ TakeOk(c, f)
  /\ down' = [down EXCEPT ![c] = Tail(@)]
  /\ UNCHANGED <<store, history, wsClients, up, stray, retry, closed, writes, faults>>

(* update(): the patch is computed from the local copy and sent with its revision.  On a
   connection that broke unnoticed the frame is lost, and update() still returns true. *)
Update(c, p) ==
  /\ link[c] = "open" /\ data[c] # NoDoc /\ Valid(data[c], p)
  /\ writes < MaxWrites
  /\ writes' = writes + 1
  /\ up' = IF c \in wsClients
           THEN [up EXCEPT ![c] = Append(@, [baseRev |-> rev[c], patch |-> p, seen |-> data[c]])]
           ELSE up
  /\ UNCHANGED <<store, history, wsClients, down, stray, link, rev, data, retry, closed, faults>>

(* close(): what was sent before is still on its way. *)
Close(c) ==
  /\ ~closed[c]
  /\ closed' = [closed EXCEPT ![c] = TRUE]
  /\ retry' = [retry EXCEPT ![c] = FALSE]
  /\ link' = [link EXCEPT ![c] = "none"]
  /\ wsClients' = wsClients \ {c}
  /\ up' = [up EXCEPT ![c] = <<>>]
  /\ down' = [down EXCEPT ![c] = <<>>]
  /\ \E S \in SUBSET InFlight(c) : stray' = stray \cup S
  /\ UNCHANGED <<store, history, rev, data, writes, faults>>

-----------------------------------------------------------------------------
Init ==
  /\ store = [rev |-> 0, data |-> InitDoc]
  /\ history = <<[data |-> InitDoc, seen |-> InitDoc]>>
  /\ wsClients = {}
  /\ up = [c \in Clients |-> <<>>]
  /\ down = [c \in Clients |-> <<>>]
  /\ stray = {}
  /\ link = [c \in Clients |-> "none"]
  /\ rev = [c \in Clients |-> 0]
  /\ data = [c \in Clients |-> NoDoc]
  /\ retry = [c \in Clients |-> TRUE]
  /\ closed = [c \in Clients |-> FALSE]
  /\ writes = 0
  /\ faults = 0

Next ==
  \/ \E c \in Clients :
       \/ Accept(c) \/ AcceptWrite(c) \/ RejectWrite(c) \/ SaveFails(c)
       \/ Break(c) \/ CrashAfterSave(c)
       \/ Connect(c) \/ CloseEvent(c) \/ ConnectFails(c) \/ Deliver(c) \/ Close(c)
       \/ \E p \in ClientPatches : Update(c, p)
  \/ \E w \in stray : HandleStray(w)
  \/ ServerUpdate
  \/ ServerCrash

(* The event loops run: a due timer fires, a received frame is handled, a close is noticed, a
   connect that is not refused is accepted.  Updates, faults and close() may never happen. *)
Fairness ==
  \A c \in Clients :
    /\ WF_vars(Connect(c))
    /\ WF_vars(Accept(c))
    /\ WF_vars(Deliver(c))
    /\ WF_vars(CloseEvent(c))

Spec == Init /\ [][Next]_vars
FairSpec == Spec /\ Fairness

-----------------------------------------------------------------------------
(* Type invariant. *)
TypeOK ==
  /\ store \in [rev : Nat, data : Docs]
  /\ history \in Seq([data : Docs, seen : Docs])
  /\ wsClients \subseteq Clients
  /\ up \in [Clients -> Seq(Write)]
  /\ down \in [Clients -> Seq(Frame)]
  /\ stray \subseteq Write
  /\ link \in [Clients -> {"none", "connecting", "open", "closing"}]
  /\ rev \in [Clients -> Nat]
  /\ data \in [Clients -> Docs \cup {NoDoc}]
  /\ retry \in [Clients -> BOOLEAN]
  /\ closed \in [Clients -> BOOLEAN]
  /\ writes \in 0 .. MaxWrites
  /\ faults \in 0 .. MaxFaults

(* Optimistic concurrency loses no update: whoever wrote a version had the version it replaces
   before its eyes, across reconnects, restarts, failed saves and late frames of old sockets
   (the rev check of applyClientWrite together with the client's bookkeeping of rev and data). *)
NoLostUpdate ==
  \A i \in 2 .. Len(history) : history[i].seen = history[i - 1].data

(* A client can always apply the patch it is about to handle: it never meets the patch of a
   version it has no base for, on which applyPatch would throw inside the message handler. *)
BroadcastApplies ==
  \A c \in Clients :
    (link[c] \in {"open", "closing"} /\ down[c] # <<>> /\ Head(down[c]).type = "patch")
      => /\ data[c] # NoDoc
         /\ rev[c] + 1 = Head(down[c]).rev
         /\ Valid(data[c], Head(down[c]).patch)

(* The layer implements a linear document history: what a client shows is a committed version,
   and it never goes back, not even by reconnecting to a restarted server. *)
History ==
  INSTANCE DocHistory WITH
    history <- [i \in 1 .. Len(history) |-> history[i].data],
    view <- [c \in Clients |-> IF data[c] = NoDoc THEN {} ELSE {[rev |-> rev[c], data |-> data[c]]}]

LinearHistory == History!Spec

(* A client that is not closed ends up with the stored document once updates and faults cease,
   whatever was rejected, lost or restarted before. *)
Converges ==
  <>[](\A c \in Clients : closed[c] \/ (data[c] = store.data /\ rev[c] = store.rev))
=============================================================================
