-------------------------- MODULE RealtimeDocProofs --------------------------
(***************************************************************************)
(* Proofs about RealtimeDoc: for every set of clients, every document type *)
(* and patch semantics, and every number of updates and faults, no update  *)
(* is lost, a client can apply every broadcast it handles, and the layer   *)
(* implements the linear history of DocHistory.                            *)
(***************************************************************************)
EXTENDS RealtimeDoc, TLAPS

(* The document at a committed revision of history h. *)
DocAt(h, r) == h[r + 1].data

(* What a frame says about the history.  Every frame names a committed revision. *)
FrameTrue(h, f) ==
  /\ f.rev < Len(h)
  /\ f.type = "snapshot" => f.data = DocAt(h, f.rev)
  /\ f.type = "patch" =>
       /\ f.rev >= 1
       /\ Valid(DocAt(h, f.rev - 1), f.patch)
       /\ Apply(DocAt(h, f.rev - 1), f.patch) = DocAt(h, f.rev)

(* A write frame names the revision its author saw. *)
WriteTrue(h, w) == w.baseRev < Len(h) /\ w.seen = DocAt(h, w.baseRev)

(* Frame f comes next on a socket whose reader is at revision r: a patch leads to r + 1, every
   other frame is about r itself. *)
Follows(r, f) == f.rev = IF f.type = "patch" THEN r + 1 ELSE r

(* The frames of a socket follow each other without a gap, ... *)
Chained(q) == \A i \in 1 .. Len(q) - 1 : Follows(q[i].rev, q[i + 1])

(* ... the first one continues the client's copy (revision r, document d) or is the snapshot of a
   new socket, ... *)
HeadOK(q, d, r) ==
  q # <<>> => \/ d # NoDoc /\ Follows(r, q[1])
              \/ q[1].type = "snapshot" /\ (d # NoDoc => r <= q[1].rev)

(* ... and the last one, on a registered socket, leads to the stored revision s. *)
TailOK(q, d, r, s) ==
  IF q = <<>> THEN d # NoDoc /\ r = s ELSE q[Len(q)].rev = s

-----------------------------------------------------------------------------
(* The inductive invariant.  NoLostUpdate needs that a write which names the stored revision was
   computed from the stored document (WritesInv), which needs that a client's copy is the version
   its revision names (CopyInv), which needs that the frames under way take the copy from version
   to version (FramesInv, HeadInv, TailInv). *)

StoreInv ==
  /\ Len(history) = store.rev + 1
  /\ DocAt(history, store.rev) = store.data
  /\ NoLostUpdate

WritesInv ==
  /\ \A w \in stray : WriteTrue(history, w)
  /\ \A c \in Clients : \A i \in 1 .. Len(up[c]) : WriteTrue(history, up[c][i])

CopyInv ==
  \A c \in Clients :
    data[c] # NoDoc => rev[c] < Len(history) /\ data[c] = DocAt(history, rev[c])

FramesInv ==
  \A c \in Clients :
    /\ \A i \in 1 .. Len(down[c]) : FrameTrue(history, down[c][i])
    /\ Chained(down[c])

HeadInv == \A c \in Clients : HeadOK(down[c], data[c], rev[c])

TailInv ==
  \A c \in Clients :
    /\ c \in wsClients => TailOK(down[c], data[c], rev[c], store.rev)
    /\ link[c] \notin {"open", "closing"} => c \notin wsClients /\ down[c] = <<>>

(* A reconnect is due only while there is no socket. *)
RetryInv == \A c \in Clients : retry[c] => link[c] = "none"

Coherent == StoreInv /\ WritesInv /\ CopyInv /\ FramesInv /\ HeadInv /\ TailInv /\ RetryInv

-----------------------------------------------------------------------------
(* Type correctness *)

(* The frames the hub builds from its store are frames. *)
LEMMA FrameTypes ==
  ASSUME TypeOK, NEW r \in Nat
  PROVE  /\ \A d \in Docs : Snapshot(r, d) \in Frame
         /\ \A p \in Patches : PatchFrame(r, p) \in Frame
         /\ OkFrame(r) \in Frame
         /\ \A code \in {"rev_mismatch", "patch_apply_failed"} : ErrorFrame(r, code) \in Frame
  BY DEF Snapshot, PatchFrame, OkFrame, ErrorFrame, Frame

(* Broadcast keeps the queues typed. *)
LEMMA BroadcastType ==
  ASSUME TypeOK, NEW p \in Patches
  PROVE  Broadcast(p) \in [Clients -> Seq(Frame)]
<1>1. store.rev + 1 \in Nat
  BY DEF TypeOK
<1>2. PatchFrame(store.rev + 1, p) \in Frame
  BY <1>1, FrameTypes
<1> QED
  BY <1>2 DEF Broadcast, TypeOK

(* A reply keeps the queues typed. *)
LEMMA ReplyType ==
  ASSUME NEW q \in [Clients -> Seq(Frame)], NEW c \in Clients, NEW f \in Frame
  PROVE  Reply(q, c, f) \in [Clients -> Seq(Frame)]
  BY DEF Reply

(* So does the resync that follows a rejection. *)
LEMMA ResyncType ==
  ASSUME TypeOK, NEW c \in Clients, NEW code \in {"rev_mismatch", "patch_apply_failed"}
  PROVE  Resync(down, c, code) \in [Clients -> Seq(Frame)]
<1>1. store.rev \in Nat /\ store.data \in Docs /\ down \in [Clients -> Seq(Frame)]
  BY DEF TypeOK
<1>2. ErrorFrame(store.rev, code) \in Frame /\ Snapshot(store.rev, store.data) \in Frame
  BY <1>1, FrameTypes
<1> QED
  BY <1>1, <1>2, ReplyType DEF Resync

(* A save keeps store and history typed. *)
LEMMA PersistType ==
  ASSUME TypeOK, NEW d \in Docs, NEW seen \in Docs, Persist(d, seen)
  PROVE  /\ store' \in [rev : Nat, data : Docs]
         /\ history' \in Seq([data : Docs, seen : Docs])
  BY DEF TypeOK, Persist

(* The next write of a socket is a write, and the rest of them are too. *)
LEMMA HeadOfUp ==
  ASSUME TypeOK, NEW c \in Clients, up[c] # <<>>
  PROVE  /\ Head(up[c]) \in Write
         /\ Tail(up[c]) \in Seq(Write)
         /\ Head(up[c]) = up[c][1]
         /\ 1 \in 1 .. Len(up[c])
  BY DEF TypeOK

(* What a connection that is let go leaves behind are writes. *)
LEMMA InFlightType ==
  ASSUME TypeOK, NEW c \in Clients
  PROVE  InFlight(c) \subseteq Write
  BY DEF TypeOK, InFlight

(* An accepted write yields a document. *)
LEMMA AcceptedType ==
  ASSUME TypeOK, NEW w \in Write, Accepts(w)
  PROVE  Apply(store.data, w.patch) \in Docs /\ w.patch \in Patches /\ w.seen \in Docs
  BY DocAssumption, PatchAssumption DEF TypeOK, Accepts, Write

(* The initial state is typed. *)
LEMMA TypeInit == Init => TypeOK
  BY DocAssumption, BoundAssumption DEF Init, TypeOK

(* Every step keeps the types; that a handled patch applies is what keeps a client's copy a document. *)
LEMMA TypeStep == TypeOK /\ BroadcastApplies /\ [Next]_vars => TypeOK'
<1> SUFFICES ASSUME TypeOK, BroadcastApplies, [Next]_vars PROVE TypeOK'
  OBVIOUS
<1> USE BoundAssumption
<1>1. ASSUME NEW c \in Clients, Accept(c) PROVE TypeOK'
  <2>1. Snapshot(store.rev, store.data) \in Frame
    BY FrameTypes DEF TypeOK
  <2> QED
    BY <1>1, <2>1 DEF Accept, TypeOK
<1>2. ASSUME NEW c \in Clients, AcceptWrite(c) PROVE TypeOK'
  <2> DEFINE w == Head(up[c])
  <2>1. w \in Write /\ Tail(up[c]) \in Seq(Write)
    BY <1>2, HeadOfUp DEF AcceptWrite
  <2>2. Apply(store.data, w.patch) \in Docs /\ w.patch \in Patches /\ w.seen \in Docs
    BY <1>2, <2>1, AcceptedType DEF AcceptWrite
  <2>3. store' \in [rev : Nat, data : Docs] /\ history' \in Seq([data : Docs, seen : Docs])
    BY <1>2, <2>2, PersistType DEF AcceptWrite
  <2>4. OkFrame(store.rev + 1) \in Frame
    BY FrameTypes DEF TypeOK
  <2>5. down' \in [Clients -> Seq(Frame)]
    BY <1>2, <2>2, <2>4, BroadcastType, ReplyType DEF AcceptWrite
  <2> QED
    BY <1>2, <2>1, <2>3, <2>5 DEF AcceptWrite, TypeOK
<1>3. ASSUME NEW c \in Clients, RejectWrite(c) PROVE TypeOK'
  <2>1. Head(up[c]) \in Write /\ Tail(up[c]) \in Seq(Write)
    BY <1>3, HeadOfUp DEF RejectWrite
  <2>2. down' \in [Clients -> Seq(Frame)]
    BY <1>3, ResyncType DEF RejectWrite, RejectionCode
  <2> QED
    BY <1>3, <2>1, <2>2 DEF RejectWrite, TypeOK
<1>4. ASSUME NEW c \in Clients, SaveFails(c) PROVE TypeOK'
  <2>1. Tail(up[c]) \in Seq(Write)
    BY <1>4, HeadOfUp DEF SaveFails
  <2>2. down' \in [Clients -> Seq(Frame)]
    BY <1>4, ResyncType DEF SaveFails
  <2> QED
    BY <1>4, <2>1, <2>2 DEF SaveFails, TypeOK
<1>5. ASSUME NEW c \in Clients, Break(c) PROVE TypeOK'
  BY <1>5, InFlightType DEF Break, TypeOK
<1>6. ASSUME NEW c \in Clients, CrashAfterSave(c) PROVE TypeOK'
  <2> DEFINE w == Head(up[c])
  <2>1. w \in Write
    BY <1>6, HeadOfUp DEF CrashAfterSave
  <2>2. store' \in [rev : Nat, data : Docs] /\ history' \in Seq([data : Docs, seen : Docs])
    BY <1>6, <2>1, AcceptedType, PersistType DEF CrashAfterSave
  <2> QED
    BY <1>6, <2>2 DEF CrashAfterSave, LoseSockets, TypeOK
<1>7. ASSUME NEW c \in Clients, Connect(c) PROVE TypeOK'
  BY <1>7 DEF Connect, TypeOK
<1>8. ASSUME NEW c \in Clients, CloseEvent(c) PROVE TypeOK'
  BY <1>8, InFlightType DEF CloseEvent, LetGo, TypeOK
<1>9. ASSUME NEW c \in Clients, ConnectFails(c) PROVE TypeOK'
  BY <1>9, InFlightType DEF ConnectFails, LetGo, TypeOK
<1>10. ASSUME NEW c \in Clients, Deliver(c) PROVE TypeOK'
  <2> DEFINE f == Head(down[c])
  <2>1. f \in Frame /\ Tail(down[c]) \in Seq(Frame)
    BY <1>10 DEF Deliver, TypeOK
  <2>2. CASE TakeSnapshot(c, f)
    BY <1>10, <2>1, <2>2 DEF Deliver, TakeSnapshot, TypeOK, Frame
  <2>3. CASE TakePatch(c, f)
    <3>1. f.rev \in Nat /\ f.patch \in Patches
      BY <2>1, <2>3 DEF TakePatch, Frame
    <3>2. CASE data[c] = NoDoc
      BY <1>10, <2>1, <2>3, <3>2 DEF Deliver, TakePatch, TypeOK
    <3>3. CASE data[c] # NoDoc
      <4>1. Apply(data[c], f.patch) \in Docs
        BY <1>10, <2>3, <3>1, <3>3, PatchAssumption DEF Deliver, TakePatch, BroadcastApplies, TypeOK
      <4> QED
        BY <1>10, <2>1, <2>3, <3>1, <3>3, <4>1 DEF Deliver, TakePatch, TypeOK
    <3> QED
      BY <3>2, <3>3
  <2>4. CASE TakeError(c, f)
    BY <1>10, <2>1, <2>4 DEF Deliver, TakeError, TypeOK, Frame
  <2>5. CASE TakeOk(c, f)
    BY <1>10, <2>1, <2>5 DEF Deliver, TakeOk, TypeOK
  <2> QED
    BY <1>10, <2>2, <2>3, <2>4, <2>5 DEF Deliver
<1>11. ASSUME NEW c \in Clients, Close(c) PROVE TypeOK'
  BY <1>11, InFlightType DEF Close, TypeOK
<1>12. ASSUME NEW c \in Clients, NEW p \in ClientPatches, Update(c, p) PROVE TypeOK'
  <2> DEFINE w == [baseRev |-> rev[c], patch |-> p, seen |-> data[c]]
  <2>1. w \in Write
    BY <1>12 DEF Update, TypeOK, Write
  <2>2. up' \in [Clients -> Seq(Write)]
    BY <1>12, <2>1 DEF Update, TypeOK
  <2> QED
    BY <1>12, <2>2 DEF Update, TypeOK
<1>13. ASSUME NEW w \in stray, HandleStray(w) PROVE TypeOK'
  <2>1. w \in Write
    BY DEF TypeOK
  <2>2. CASE Accepts(w)
    <3>1. /\ store' \in [rev : Nat, data : Docs] /\ history' \in Seq([data : Docs, seen : Docs])
          /\ down' \in [Clients -> Seq(Frame)]
      BY <1>13, <2>1, <2>2, AcceptedType, PersistType, BroadcastType DEF HandleStray
    <3> QED
      BY <1>13, <3>1 DEF HandleStray, TypeOK
  <2>3. CASE ~Accepts(w)
    BY <1>13, <2>3 DEF HandleStray, TypeOK
  <2> QED
    BY <2>2, <2>3
<1>14. CASE ServerUpdate
  <2>1. Updater(store.data) \in Docs /\ store.data \in Docs /\ Replace(Updater(store.data)) \in Patches
    BY PatchAssumption DEF TypeOK
  <2>2. /\ store' \in [rev : Nat, data : Docs] /\ history' \in Seq([data : Docs, seen : Docs])
        /\ down' \in [Clients -> Seq(Frame)]
    BY <1>14, <2>1, PersistType, BroadcastType DEF ServerUpdate
  <2> QED
    BY <1>14, <2>2 DEF ServerUpdate, TypeOK
<1>15. CASE ServerCrash
  BY <1>15 DEF ServerCrash, LoseSockets, server, TypeOK
<1>16. CASE UNCHANGED vars
  BY <1>16 DEF vars, TypeOK
<1> QED
  BY <1>1, <1>2, <1>3, <1>4, <1>5, <1>6, <1>7, <1>8, <1>9, <1>10, <1>11, <1>12, <1>13, <1>14, <1>15,
     <1>16 DEF Next

-----------------------------------------------------------------------------
(* Lemmas about histories and frame queues *)

Entry == [data : Docs, seen : Docs]

(* A commit leaves the versions before it alone. *)
LEMMA HistoryGrows ==
  ASSUME NEW h \in Seq(Entry), NEW e \in Entry
  PROVE  /\ Len(Append(h, e)) = Len(h) + 1
         /\ \A i \in 1 .. Len(h) : Append(h, e)[i] = h[i]
         /\ Append(h, e)[Len(h) + 1] = e
  OBVIOUS

(* A frame that describes a version of the history still does after a commit. *)
LEMMA FrameStaysTrue ==
  ASSUME NEW h \in Seq(Entry), NEW e \in Entry, NEW f \in Frame, FrameTrue(h, f)
  PROVE  FrameTrue(Append(h, e), f)
<1>1. f.rev \in Nat /\ f.rev < Len(h)
  BY DEF Frame, FrameTrue
<1>2. DocAt(Append(h, e), f.rev) = DocAt(h, f.rev)
  BY <1>1, HistoryGrows DEF DocAt
<1>3. f.rev >= 1 => DocAt(Append(h, e), f.rev - 1) = DocAt(h, f.rev - 1)
  BY <1>1, HistoryGrows DEF DocAt
<1> QED
  BY <1>1, <1>2, <1>3, HistoryGrows DEF FrameTrue

(* So does a write. *)
LEMMA WriteStaysTrue ==
  ASSUME NEW h \in Seq(Entry), NEW e \in Entry, NEW w \in Write, WriteTrue(h, w)
  PROVE  WriteTrue(Append(h, e), w)
<1>1. w.baseRev \in Nat /\ w.baseRev < Len(h)
  BY DEF Write, WriteTrue
<1>2. DocAt(Append(h, e), w.baseRev) = DocAt(h, w.baseRev)
  BY <1>1, HistoryGrows DEF DocAt
<1> QED
  BY <1>1, <1>2, HistoryGrows DEF WriteTrue

(* A frame about the stored revision, or the patch to the next one, may be sent at any time. *)
LEMMA Push ==
  ASSUME NEW q \in Seq(Frame), NEW f \in Frame, NEW d, NEW r \in Nat, NEW s \in Nat,
         Chained(q), HeadOK(q, d, r), TailOK(q, d, r, s), Follows(s, f)
  PROVE  /\ Append(q, f) \in Seq(Frame)
         /\ Chained(Append(q, f))
         /\ HeadOK(Append(q, f), d, r)
         /\ TailOK(Append(q, f), d, r, f.rev)
<1>1. /\ Len(Append(q, f)) = Len(q) + 1
      /\ \A i \in 1 .. Len(q) : Append(q, f)[i] = q[i]
      /\ Append(q, f)[Len(q) + 1] = f
      /\ Append(q, f) # <<>>
  OBVIOUS
<1>2. q = <<>> <=> Len(q) = 0
  OBVIOUS
<1>3. Chained(Append(q, f))
  <2> SUFFICES ASSUME NEW i \in 1 .. Len(q)
               PROVE  Follows(Append(q, f)[i].rev, Append(q, f)[i + 1])
    BY <1>1 DEF Chained
  <2>1. CASE i = Len(q)
    BY <2>1, <1>1, <1>2 DEF TailOK
  <2>2. CASE i # Len(q)
    BY <2>2, <1>1 DEF Chained
  <2> QED
    BY <2>1, <2>2
<1>4. HeadOK(Append(q, f), d, r)
  <2>1. CASE q = <<>>
    BY <2>1, <1>1, <1>2 DEF HeadOK, TailOK
  <2>2. CASE q # <<>>
    BY <2>2, <1>1, <1>2 DEF HeadOK
  <2> QED
    BY <2>1, <2>2
<1>5. TailOK(Append(q, f), d, r, f.rev)
  BY <1>1 DEF TailOK
<1> QED
  BY <1>3, <1>4, <1>5

(* Handling a frame leaves a chained queue whose head follows the handled frame. *)
LEMMA TailOfQueue ==
  ASSUME NEW q \in Seq(Frame), q # <<>>, Chained(q)
  PROVE  /\ Tail(q) \in Seq(Frame) /\ Len(Tail(q)) = Len(q) - 1
         /\ \A i \in 1 .. Len(Tail(q)) : Tail(q)[i] = q[i + 1]
         /\ Chained(Tail(q))
         /\ Tail(q) # <<>> => Follows(q[1].rev, Tail(q)[1])
<1>1. /\ Tail(q) \in Seq(Frame) /\ Len(Tail(q)) = Len(q) - 1
      /\ \A i \in 1 .. Len(Tail(q)) : Tail(q)[i] = q[i + 1]
  OBVIOUS
<1>2. Chained(Tail(q))
  BY <1>1 DEF Chained
<1>3. Tail(q) # <<>> => Follows(q[1].rev, Tail(q)[1])
  BY <1>1 DEF Chained
<1> QED
  BY <1>1, <1>2, <1>3

-----------------------------------------------------------------------------
(* What the hub's steps do to the store and to the queues *)

(* The author of an accepted write saw the stored document: the revision check implies it. *)
LEMMA SeenIsStored ==
  ASSUME TypeOK, Coherent, NEW w \in Write, WriteTrue(history, w), Accepts(w)
  PROVE  w.seen = store.data
  BY DEF Coherent, StoreInv, WriteTrue, Accepts

(* What a save of a write whose author saw the stored document does to store and history. *)
LEMMA Persisted ==
  ASSUME TypeOK, StoreInv, NEW d \in Docs, Persist(d, store.data)
  PROVE  /\ StoreInv'
         /\ [data |-> d, seen |-> store.data] \in Entry
         /\ history \in Seq(Entry)
         /\ history' = Append(history, [data |-> d, seen |-> store.data])
         /\ store.rev \in Nat /\ store'.rev = store.rev + 1
         /\ DocAt(history', store.rev) = store.data
         /\ DocAt(history', store.rev + 1) = d
<1> DEFINE e == [data |-> d, seen |-> store.data]
<1>1. /\ e \in Entry /\ history \in Seq(Entry) /\ history' = Append(history, e)
      /\ store.rev \in Nat /\ store' = [rev |-> store.rev + 1, data |-> d]
  BY DEF TypeOK, Persist, Entry
<1>2. /\ Len(history') = Len(history) + 1
      /\ \A i \in 1 .. Len(history) : history'[i] = history[i]
      /\ history'[Len(history) + 1] = e
  BY <1>1, HistoryGrows
<1>3. Len(history) = store.rev + 1 /\ history[store.rev + 1].data = store.data
  BY DEF StoreInv, DocAt
<1>4. DocAt(history', store.rev) = store.data /\ DocAt(history', store.rev + 1) = d
  BY <1>1, <1>2, <1>3 DEF DocAt
<1>5. NoLostUpdate'
  <2> SUFFICES ASSUME NEW i \in 2 .. Len(history')
               PROVE  history'[i].seen = history'[i - 1].data
    BY DEF NoLostUpdate
  <2>1. CASE i \in 2 .. Len(history)
    <3>1. history[i].seen = history[i - 1].data
      BY <2>1 DEF StoreInv, NoLostUpdate
    <3> QED
      BY <2>1, <3>1, <1>2
  <2>2. CASE i = Len(history) + 1
    BY <2>2, <1>1, <1>2, <1>3
  <2> QED
    BY <2>1, <2>2, <1>1, <1>2
<1>6. StoreInv'
  BY <1>1, <1>2, <1>3, <1>4, <1>5 DEF StoreInv
<1> QED
  BY <1>1, <1>4, <1>6

(* A commit leaves the writes on their way true, ... *)
LEMMA WritesStayTrue ==
  ASSUME TypeOK, Coherent, NEW d \in Docs, Persist(d, store.data)
  PROVE  /\ \A w \in stray : WriteTrue(history', w)
         /\ \A c \in Clients : \A i \in 1 .. Len(up[c]) : WriteTrue(history', up[c][i])
<1>1. \A w \in Write : WriteTrue(history, w) => WriteTrue(history', w)
  BY Persisted, WriteStaysTrue DEF Coherent
<1>2. stray \subseteq Write /\ \A c \in Clients : \A i \in 1 .. Len(up[c]) : up[c][i] \in Write
  BY DEF TypeOK
<1> QED
  BY <1>1, <1>2 DEF Coherent, WritesInv

(* ... and the copies of the clients. *)
LEMMA CopiesStayTrue ==
  ASSUME TypeOK, Coherent, NEW d \in Docs, Persist(d, store.data), UNCHANGED <<rev, data>>
  PROVE  CopyInv'
<1> SUFFICES ASSUME NEW c \in Clients, data[c] # NoDoc
             PROVE  rev[c] < Len(history') /\ data[c] = DocAt(history', rev[c])
  BY DEF CopyInv
<1> DEFINE e == [data |-> d, seen |-> store.data]
<1>1. rev[c] \in Nat /\ rev[c] < Len(history) /\ data[c] = DocAt(history, rev[c])
  BY DEF Coherent, CopyInv, TypeOK
<1>2. e \in Entry /\ history \in Seq(Entry) /\ history' = Append(history, e)
  BY Persisted DEF Coherent
<1>3. DocAt(Append(history, e), rev[c]) = DocAt(history, rev[c]) /\ Len(Append(history, e)) = Len(history) + 1
  BY <1>1, <1>2, HistoryGrows DEF DocAt
<1>4. Len(history) \in Nat
  BY <1>2
<1> HIDE DEF e
<1> QED
  BY <1>1, <1>2, <1>3, <1>4

(* After a commit every registered socket has the patch to the new version as its last frame. *)
LEMMA BroadcastQueue ==
  ASSUME TypeOK, Coherent, NEW p \in Patches, NEW d \in Docs,
         Valid(store.data, p), Apply(store.data, p) = d, Persist(d, store.data),
         NEW c \in Clients
  PROVE  /\ Broadcast(p)[c] \in Seq(Frame)
         /\ \A i \in 1 .. Len(Broadcast(p)[c]) : FrameTrue(history', Broadcast(p)[c][i])
         /\ Chained(Broadcast(p)[c])
         /\ HeadOK(Broadcast(p)[c], data[c], rev[c])
         /\ c \in wsClients => TailOK(Broadcast(p)[c], data[c], rev[c], store.rev + 1)
         /\ c \notin wsClients => Broadcast(p)[c] = down[c]
<1> DEFINE q == down[c]
           f == PatchFrame(store.rev + 1, p)
<1>1. /\ q \in Seq(Frame) /\ f \in Frame /\ rev[c] \in Nat /\ store.rev \in Nat
      /\ f.rev = store.rev + 1 /\ f.type = "patch" /\ f.patch = p
  BY FrameTypes DEF TypeOK, PatchFrame
<1>2. \A i \in 1 .. Len(q) : q[i] \in Frame /\ FrameTrue(history', q[i])
  <2> DEFINE e == [data |-> d, seen |-> store.data]
  <2>1. e \in Entry /\ history \in Seq(Entry) /\ history' = Append(history, e)
    BY Persisted DEF Coherent
  <2>2. \A i \in 1 .. Len(q) : q[i] \in Frame /\ FrameTrue(history, q[i])
    BY <1>1 DEF Coherent, FramesInv
  <2> HIDE DEF e, q
  <2> QED
    BY <2>1, <2>2, FrameStaysTrue
<1>3. FrameTrue(history', f)
  <2>1. /\ DocAt(history', store.rev) = store.data /\ DocAt(history', store.rev + 1) = d
        /\ Len(history') = store.rev + 2
    <3>1. /\ StoreInv' /\ store'.rev = store.rev + 1
          /\ DocAt(history', store.rev) = store.data /\ DocAt(history', store.rev + 1) = d
      BY Persisted DEF Coherent
    <3>2. Len(history') = store'.rev + 1
      BY <3>1 DEF StoreInv
    <3> QED
      BY <1>1, <3>1, <3>2
  <2>2. f.rev - 1 = store.rev
    BY <1>1
  <2> HIDE DEF f
  <2> QED
    BY <1>1, <2>1, <2>2 DEF FrameTrue
<1>4. Chained(q) /\ HeadOK(q, data[c], rev[c])
  BY DEF Coherent, FramesInv, HeadInv
<1>5. CASE c \in wsClients
  <2>1. Broadcast(p)[c] = Append(q, f)
    BY <1>5 DEF Broadcast
  <2>2. TailOK(q, data[c], rev[c], store.rev) /\ Follows(store.rev, f)
    BY <1>1, <1>5 DEF Coherent, TailInv, Follows
  <2>3. /\ Append(q, f) \in Seq(Frame) /\ Chained(Append(q, f))
        /\ HeadOK(Append(q, f), data[c], rev[c])
        /\ TailOK(Append(q, f), data[c], rev[c], store.rev + 1)
    BY <1>1, <1>4, <2>2, Push
  <2>4. \A i \in 1 .. Len(Append(q, f)) : FrameTrue(history', Append(q, f)[i])
    BY <1>1, <1>2, <1>3
  <2> QED
    BY <1>5, <2>1, <2>3, <2>4
<1>6. CASE c \notin wsClients
  BY <1>1, <1>2, <1>4, <1>6 DEF Broadcast
<1> QED
  BY <1>5, <1>6

(* A rejection leaves the socket at the stored revision. *)
LEMMA ResyncQueue ==
  ASSUME TypeOK, Coherent, NEW c \in wsClients, c \in Clients,
         NEW code \in {"rev_mismatch", "patch_apply_failed"}, NEW k \in Clients
  PROVE  /\ \A i \in 1 .. Len(Resync(down, c, code)[k]) : FrameTrue(history, Resync(down, c, code)[k][i])
         /\ Chained(Resync(down, c, code)[k])
         /\ HeadOK(Resync(down, c, code)[k], data[k], rev[k])
         /\ k \in wsClients => TailOK(Resync(down, c, code)[k], data[k], rev[k], store.rev)
         /\ k \notin wsClients => Resync(down, c, code)[k] = down[k]
<1> DEFINE q == down[c]
           e == ErrorFrame(store.rev, code)
           f == Snapshot(store.rev, store.data)
<1>1. /\ down \in [Clients -> Seq(Frame)] /\ q \in Seq(Frame) /\ rev[c] \in Nat
      /\ store.rev \in Nat /\ store.data \in Docs /\ e \in Frame /\ f \in Frame
  BY FrameTypes DEF TypeOK
<1>2. /\ Follows(store.rev, e) /\ Follows(store.rev, f) /\ e.rev = store.rev /\ f.rev = store.rev
      /\ FrameTrue(history, e) /\ FrameTrue(history, f)
  BY <1>1 DEF Follows, FrameTrue, ErrorFrame, Snapshot, Coherent, StoreInv
<1>3. /\ Chained(q) /\ HeadOK(q, data[c], rev[c]) /\ TailOK(q, data[c], rev[c], store.rev)
      /\ \A i \in 1 .. Len(q) : FrameTrue(history, q[i])
  BY DEF Coherent, FramesInv, HeadInv, TailInv
<1>4. CASE k = c
  <2> DEFINE q1 == Append(q, e)
             q2 == Append(q1, f)
  <2>1. Resync(down, c, code)[k] = q2
    BY <1>1, <1>4 DEF Resync, Reply
  <2>2. /\ q1 \in Seq(Frame) /\ Chained(q1) /\ HeadOK(q1, data[c], rev[c])
        /\ TailOK(q1, data[c], rev[c], store.rev)
    BY <1>1, <1>2, <1>3, Push
  <2>3. Chained(q2) /\ HeadOK(q2, data[c], rev[c]) /\ TailOK(q2, data[c], rev[c], store.rev)
    BY <1>1, <1>2, <2>2, Push
  <2>4. \A i \in 1 .. Len(q2) : FrameTrue(history, q2[i])
    <3>1. \A i \in 1 .. Len(q1) : FrameTrue(history, q1[i])
      BY <1>1, <1>2, <1>3
    <3> HIDE DEF q1
    <3> QED
      BY <1>1, <1>2, <2>2, <3>1
  <2> QED
    BY <1>4, <2>1, <2>3, <2>4
<1>5. CASE k # c
  <2>1. Resync(down, c, code)[k] = down[k]
    BY <1>1, <1>5 DEF Resync, Reply
  <2> QED
    BY <2>1 DEF Coherent, FramesInv, HeadInv, TailInv
<1> QED
  BY <1>4, <1>5

-----------------------------------------------------------------------------
(* The invariant is inductive *)

(* The initial state is coherent. *)
LEMMA CoherentInit == Init => Coherent
<1> SUFFICES ASSUME Init PROVE Coherent
  OBVIOUS
<1>1. StoreInv
  BY DEF Init, StoreInv, DocAt, NoLostUpdate
<1>2. WritesInv /\ CopyInv
  BY DEF Init, WritesInv, CopyInv
<1>3. FramesInv /\ HeadInv /\ TailInv
  BY DEF Init, FramesInv, HeadInv, TailInv, Chained, HeadOK
<1>4. RetryInv
  BY DEF Init, RetryInv
<1> QED
  BY <1>1, <1>2, <1>3, <1>4 DEF Coherent

(* A step that only loses connections, frames and writes, or moves writes to the strays. *)
LEMMA LosingStep ==
  ASSUME TypeOK, Coherent, UNCHANGED <<store, history, rev, data>>,
         \A c \in Clients : up'[c] = up[c] \/ up'[c] = <<>>,
         \A c \in Clients : down'[c] = down[c] \/ (down'[c] = <<>> /\ c \notin wsClients'),
         wsClients' \subseteq wsClients,
         \A w \in stray' : w \in stray \/ \E c \in Clients : w \in InFlight(c),
         \A c \in Clients :
           link'[c] \notin {"open", "closing"} => c \notin wsClients' /\ down'[c] = <<>>,
         RetryInv'
  PROVE  Coherent'
<1>1. StoreInv' /\ CopyInv'
  BY DEF Coherent, StoreInv, CopyInv, NoLostUpdate, DocAt
<1>2. WritesInv'
  BY DEF Coherent, WritesInv, InFlight
<1>3. FramesInv'
  <2> SUFFICES ASSUME NEW c \in Clients
               PROVE  /\ \A i \in 1 .. Len(down'[c]) : FrameTrue(history, down'[c][i])
                      /\ Chained(down'[c])
    BY DEF FramesInv
  <2>1. CASE down'[c] = down[c]
    BY <2>1 DEF Coherent, FramesInv
  <2>2. CASE down'[c] = <<>>
    BY <2>2 DEF Chained
  <2> QED
    BY <2>1, <2>2
<1>4. HeadInv'
  BY DEF Coherent, HeadInv, HeadOK
<1>5. TailInv'
  BY DEF Coherent, TailInv
<1> QED
  BY <1>1, <1>2, <1>3, <1>4, <1>5 DEF Coherent

(* A step of the hub on write w that changes the queues to those of Broadcast, after which the
   sender may get an ok frame. *)
LEMMA CommitStep ==
  ASSUME TypeOK, Coherent, NEW p \in Patches, NEW d \in Docs,
         Valid(store.data, p), Apply(store.data, p) = d, Persist(d, store.data),
         UNCHANGED <<wsClients, link, rev, data, retry>>,
         stray' \subseteq stray,
         \A c \in Clients : up'[c] = up[c] \/ (up'[c] = Tail(up[c]) /\ up[c] # <<>>),
         \A c \in Clients :
           \/ down'[c] = Broadcast(p)[c]
           \/ c \in wsClients /\ down'[c] = Append(Broadcast(p)[c], OkFrame(store.rev + 1))
  PROVE  Coherent'
<1>1. StoreInv' /\ store'.rev = store.rev + 1 /\ store.rev \in Nat
  BY Persisted DEF Coherent
<1>2. CopyInv'
  BY CopiesStayTrue
<1>3. WritesInv'
  <2>1. \A w \in stray' : WriteTrue(history', w)
    BY WritesStayTrue
  <2>2. ASSUME NEW c \in Clients, NEW i \in 1 .. Len(up'[c])
        PROVE  WriteTrue(history', up'[c][i])
    <3>1. \A j \in 1 .. Len(up[c]) : WriteTrue(history', up[c][j])
      BY WritesStayTrue
    <3>2. CASE up'[c] = up[c]
      BY <3>1, <3>2
    <3>3. CASE up'[c] = Tail(up[c]) /\ up[c] # <<>>
      <4>1. up[c] \in Seq(Write)
        BY DEF TypeOK
      <4>2. i + 1 \in 1 .. Len(up[c]) /\ up'[c][i] = up[c][i + 1]
        BY <3>3, <4>1
      <4> QED
        BY <3>1, <4>2
    <3> QED
      BY <3>2, <3>3
  <2> QED
    BY <2>1, <2>2 DEF WritesInv
<1>4. ASSUME NEW c \in Clients
      PROVE  /\ \A i \in 1 .. Len(down'[c]) : FrameTrue(history', down'[c][i])
             /\ Chained(down'[c])
             /\ HeadOK(down'[c], data[c], rev[c])
             /\ c \in wsClients => TailOK(down'[c], data[c], rev[c], store.rev + 1)
             /\ c \notin wsClients => down'[c] = down[c]
  <2> DEFINE q == Broadcast(p)[c]
             f == OkFrame(store.rev + 1)
  <2>1. /\ q \in Seq(Frame) /\ Chained(q) /\ HeadOK(q, data[c], rev[c])
        /\ \A i \in 1 .. Len(q) : FrameTrue(history', q[i])
        /\ c \in wsClients => TailOK(q, data[c], rev[c], store.rev + 1)
        /\ c \notin wsClients => q = down[c]
    BY BroadcastQueue
  <2>2. CASE down'[c] = q
    BY <2>1, <2>2
  <2>3. CASE c \in wsClients /\ down'[c] = Append(q, f)
    <3>1. f \in Frame /\ f.rev = store.rev + 1 /\ f.type = "ok" /\ rev[c] \in Nat
      BY <1>1, FrameTypes DEF OkFrame, TypeOK
    <3>2. FrameTrue(history', f)
      BY <1>1, <3>1 DEF FrameTrue, StoreInv
    <3>3. Follows(store.rev + 1, f)
      BY <3>1 DEF Follows
    <3> HIDE DEF f, q
    <3>4. /\ Chained(Append(q, f)) /\ HeadOK(Append(q, f), data[c], rev[c])
          /\ TailOK(Append(q, f), data[c], rev[c], store.rev + 1)
      BY <1>1, <2>1, <2>3, <3>1, <3>3, Push
    <3>5. \A i \in 1 .. Len(Append(q, f)) : FrameTrue(history', Append(q, f)[i])
      BY <2>1, <3>1, <3>2
    <3> QED
      BY <2>3, <3>4, <3>5
  <2> QED
    BY <2>2, <2>3
<1>5. FramesInv' /\ HeadInv'
  BY <1>4 DEF FramesInv, HeadInv
<1>6. TailInv'
  BY <1>1, <1>4 DEF TailInv, Coherent
<1>7. RetryInv'
  BY DEF RetryInv, Coherent
<1> QED
  BY <1>1, <1>2, <1>3, <1>5, <1>6, <1>7 DEF Coherent

(* The writes left when the next one is handled are among those before. *)
LEMMA TailOfWrites ==
  ASSUME NEW q \in Seq(Write), q # <<>>, NEW i \in 1 .. Len(Tail(q))
  PROVE  i + 1 \in 1 .. Len(q) /\ Tail(q)[i] = q[i + 1]
  OBVIOUS

(* A rejected write, or one whose save failed. *)
LEMMA RejectStep ==
  ASSUME TypeOK, Coherent, NEW c \in Clients, c \in wsClients, up[c] # <<>>,
         NEW code \in {"rev_mismatch", "patch_apply_failed"},
         down' = Resync(down, c, code), up' = [up EXCEPT ![c] = Tail(@)],
         UNCHANGED <<store, history, wsClients, stray, link, rev, data, retry>>
  PROVE  Coherent'
<1>1. StoreInv' /\ CopyInv'
  BY DEF Coherent, StoreInv, CopyInv, NoLostUpdate, DocAt
<1>2. WritesInv'
  <2> SUFFICES ASSUME NEW k \in Clients, NEW i \in 1 .. Len(up'[k])
               PROVE  WriteTrue(history, up'[k][i])
    BY DEF Coherent, WritesInv
  <2>1. up[k] \in Seq(Write) /\ \A j \in 1 .. Len(up[k]) : WriteTrue(history, up[k][j])
    BY DEF TypeOK, Coherent, WritesInv
  <2>2. up'[k] = IF k = c THEN Tail(up[k]) ELSE up[k]
    BY DEF TypeOK
  <2>3. CASE k = c
    <3>1. up'[k] = Tail(up[k]) /\ up[k] # <<>>
      BY <2>2, <2>3
    <3>2. i + 1 \in 1 .. Len(up[k]) /\ up'[k][i] = up[k][i + 1]
      BY <2>1, <3>1, TailOfWrites
    <3> QED
      BY <2>1, <3>2
  <2> QED
    BY <2>1, <2>2, <2>3
<1>3. ASSUME NEW k \in Clients
      PROVE  /\ \A i \in 1 .. Len(down'[k]) : FrameTrue(history, down'[k][i])
             /\ Chained(down'[k])
             /\ HeadOK(down'[k], data[k], rev[k])
             /\ k \in wsClients => TailOK(down'[k], data[k], rev[k], store.rev)
             /\ k \notin wsClients => down'[k] = down[k]
  BY ResyncQueue
<1>4. FramesInv' /\ HeadInv'
  BY <1>3 DEF FramesInv, HeadInv
<1>5. TailInv'
  BY <1>3 DEF TailInv, Coherent
<1>6. RetryInv'
  BY DEF RetryInv, Coherent
<1> QED
  BY <1>1, <1>2, <1>4, <1>5, <1>6 DEF Coherent

(* The next frame of an open socket leads the client from its copy to the next one. *)
LEMMA HeadFrame ==
  ASSUME TypeOK, Coherent, NEW c \in Clients, down[c] # <<>>
  PROVE  /\ Head(down[c]) = down[c][1] /\ Head(down[c]) \in Frame
         /\ FrameTrue(history, Head(down[c]))
         /\ \/ data[c] # NoDoc /\ Follows(rev[c], Head(down[c]))
            \/ Head(down[c]).type = "snapshot" /\ (data[c] # NoDoc => rev[c] <= Head(down[c]).rev)
<1>1. down[c] \in Seq(Frame)
  BY DEF TypeOK
<1>2. Head(down[c]) = down[c][1] /\ 1 \in 1 .. Len(down[c]) /\ down[c][1] \in Frame
  BY <1>1
<1> QED
  BY <1>2 DEF Coherent, FramesInv, HeadInv, HeadOK

(* The invariant says what BroadcastApplies asks for: the head of a queue fits the copy. *)
LEMMA CoherentBroadcastApplies == TypeOK /\ Coherent => BroadcastApplies
<1> SUFFICES ASSUME TypeOK, Coherent, NEW c \in Clients, down[c] # <<>>, Head(down[c]).type = "patch"
             PROVE  /\ data[c] # NoDoc
                    /\ rev[c] + 1 = Head(down[c]).rev
                    /\ Valid(data[c], Head(down[c]).patch)
  BY DEF BroadcastApplies
<1> DEFINE f == Head(down[c])
<1>1. data[c] # NoDoc /\ f.rev = rev[c] + 1 /\ FrameTrue(history, f)
  BY HeadFrame DEF Follows
<1>2. rev[c] \in Nat /\ data[c] = DocAt(history, rev[c])
  BY <1>1 DEF Coherent, CopyInv, TypeOK
<1>3. Valid(DocAt(history, f.rev - 1), f.patch) /\ f.rev - 1 = rev[c]
  BY <1>1, <1>2 DEF FrameTrue
<1> QED
  BY <1>1, <1>2, <1>3

(* The client takes a delivered frame to the version the frame names, which is not older than the
   one it shows. *)
LEMMA DeliverMoves ==
  ASSUME TypeOK, Coherent, NEW c \in Clients, Deliver(c), NEW f, f = Head(down[c])
  PROVE  /\ data'[c] # NoDoc /\ rev'[c] = f.rev /\ f.rev \in Nat
         /\ FrameTrue(history, f) /\ data'[c] = DocAt(history, f.rev)
         /\ data[c] # NoDoc => rev[c] <= f.rev
         /\ \A k \in Clients : k # c => rev'[k] = rev[k] /\ data'[k] = data[k]
         /\ \A k \in Clients : link'[k] = link[k] \/ (k = c /\ link'[k] = "closing")
<1>1. /\ down[c] # <<>>
      /\ TakeSnapshot(c, f) \/ TakePatch(c, f) \/ TakeError(c, f) \/ TakeOk(c, f)
  BY DEF Deliver
<1>2. /\ f \in Frame /\ FrameTrue(history, f)
      /\ \/ data[c] # NoDoc /\ Follows(rev[c], f)
         \/ f.type = "snapshot" /\ (data[c] # NoDoc => rev[c] <= f.rev)
  BY <1>1, HeadFrame
<1>3. f.rev \in Nat
  BY <1>2 DEF Frame
<1>4. CASE TakeSnapshot(c, f)
  <2>1. f.data \in Docs /\ f.data = DocAt(history, f.rev)
    BY <1>2, <1>4 DEF TakeSnapshot, Frame, FrameTrue
  <2> QED
    BY <1>2, <1>3, <1>4, <2>1, DocAssumption DEF Follows, TakeSnapshot, TypeOK
<1>5. CASE TakePatch(c, f)
  <2>1. /\ data[c] # NoDoc /\ rev[c] + 1 = f.rev /\ rev[c] \in Nat
        /\ data[c] = DocAt(history, rev[c]) /\ data[c] \in Docs
    BY <1>2, <1>5 DEF TakePatch, Follows, Coherent, CopyInv, TypeOK
  <2>2. /\ Valid(DocAt(history, f.rev - 1), f.patch) /\ f.rev - 1 = rev[c] /\ f.patch \in Patches
        /\ Apply(DocAt(history, f.rev - 1), f.patch) = DocAt(history, f.rev)
    BY <1>2, <1>5, <2>1 DEF FrameTrue, TakePatch, Frame
  <2>3. Apply(data[c], f.patch) = DocAt(history, f.rev) /\ Apply(data[c], f.patch) \in Docs
    BY <2>1, <2>2, PatchAssumption
  <2> QED
    BY <1>2, <1>3, <1>5, <2>1, <2>3, DocAssumption DEF TakePatch, TypeOK
<1>6. CASE TakeError(c, f) \/ TakeOk(c, f)
  <2>1. data[c] # NoDoc /\ f.rev = rev[c] /\ UNCHANGED <<rev, data>>
    BY <1>2, <1>6 DEF TakeError, TakeOk, Follows
  <2>2. data[c] = DocAt(history, rev[c])
    BY <2>1 DEF Coherent, CopyInv
  <2> QED
    BY <1>2, <1>3, <1>6, <2>1, <2>2 DEF TakeError, TakeOk, TypeOK
<1> QED
  BY <1>1, <1>4, <1>5, <1>6

(* A delivered frame. *)
LEMMA DeliverStep ==
  ASSUME TypeOK, Coherent, NEW c \in Clients, Deliver(c)
  PROVE  Coherent'
<1> DEFINE q == down[c]
           f == Head(down[c])
<1>1. /\ UNCHANGED <<store, history, wsClients, up, stray, retry>>
      /\ down' = [down EXCEPT ![c] = Tail(@)]
      /\ link[c] \in {"open", "closing"} /\ q # <<>> /\ q \in Seq(Frame)
      /\ TakeSnapshot(c, f) \/ TakePatch(c, f) \/ TakeError(c, f) \/ TakeOk(c, f)
  BY DEF Deliver, TypeOK
<1>2. /\ f = q[1] /\ f \in Frame /\ FrameTrue(history, f)
      /\ \/ data[c] # NoDoc /\ Follows(rev[c], f)
         \/ f.type = "snapshot" /\ (data[c] # NoDoc => rev[c] <= f.rev)
  BY <1>1, HeadFrame
<1>3. /\ Tail(q) \in Seq(Frame) /\ Len(Tail(q)) = Len(q) - 1
      /\ \A i \in 1 .. Len(Tail(q)) : Tail(q)[i] = q[i + 1]
      /\ Chained(Tail(q)) /\ (Tail(q) # <<>> => Follows(f.rev, Tail(q)[1]))
  <2>1. Chained(q)
    BY DEF Coherent, FramesInv
  <2> QED
    BY <1>1, <1>2, <2>1, TailOfQueue
<1>4. /\ data'[c] # NoDoc /\ rev'[c] = f.rev /\ f.rev \in Nat
      /\ data'[c] = DocAt(history, f.rev)
      /\ \A k \in Clients : k # c => rev'[k] = rev[k] /\ data'[k] = data[k]
      /\ \A k \in Clients : link'[k] = link[k] \/ (k = c /\ link'[k] = "closing")
  BY DeliverMoves
<1>5. down'[c] = Tail(q) /\ \A k \in Clients : k # c => down'[k] = down[k]
  BY <1>1 DEF TypeOK
<1> HIDE DEF q, f
<1>6. StoreInv' /\ WritesInv'
  BY <1>1 DEF Coherent, StoreInv, WritesInv, NoLostUpdate, DocAt
<1>7. CopyInv'
  BY <1>1, <1>2, <1>4 DEF Coherent, CopyInv, FrameTrue
<1>8. FramesInv'
  <2>1. \A i \in 1 .. Len(Tail(q)) : FrameTrue(history, Tail(q)[i])
    <3>1. \A i \in 1 .. Len(q) : FrameTrue(history, q[i])
      BY DEF Coherent, FramesInv, q
    <3> QED
      BY <1>1, <1>3, <3>1
  <2> QED
    BY <1>1, <1>3, <1>5, <2>1 DEF Coherent, FramesInv
<1>9. HeadInv'
  BY <1>3, <1>4, <1>5 DEF Coherent, HeadInv, HeadOK
<1>10. TailInv'
  <2>1. ASSUME c \in wsClients PROVE TailOK(Tail(q), data'[c], rev'[c], store.rev)
    <3>1. q[Len(q)].rev = store.rev
      BY <1>1, <2>1 DEF Coherent, TailInv, TailOK, q
    <3>2. CASE Tail(q) = <<>>
      <4>1. Len(q) = 1
        BY <1>1, <1>3, <3>2
      <4> QED
        BY <1>2, <1>4, <3>1, <3>2, <4>1 DEF TailOK
    <3>3. CASE Tail(q) # <<>>
      <4>1. Len(Tail(q)) \in 1 .. Len(Tail(q)) /\ Len(Tail(q)) + 1 = Len(q)
        BY <1>1, <1>3, <3>3
      <4>2. Tail(q)[Len(Tail(q))] = q[Len(q)]
        BY <1>3, <4>1
      <4> QED
        BY <3>1, <3>3, <4>2 DEF TailOK
    <3> QED
      BY <3>2, <3>3
  <2>2. ASSUME NEW k \in Clients
        PROVE  /\ k \in wsClients => TailOK(down'[k], data'[k], rev'[k], store.rev)
               /\ link'[k] \notin {"open", "closing"} => k \notin wsClients /\ down'[k] = <<>>
    <3>1. CASE k = c
      BY <1>1, <1>4, <1>5, <2>1, <3>1
    <3>2. CASE k # c
      BY <1>4, <1>5, <3>2 DEF Coherent, TailInv
    <3> QED
      BY <3>1, <3>2
  <2> QED
    BY <1>1, <2>2 DEF TailInv
<1>11. RetryInv'
  BY <1>1, <1>4 DEF Coherent, RetryInv
<1> QED
  BY <1>6, <1>7, <1>8, <1>9, <1>10, <1>11 DEF Coherent

(* The client lets its socket go. *)
LEMMA LetGoStep ==
  ASSUME TypeOK, Coherent, NEW c \in Clients, NEW due \in BOOLEAN,
         UNCHANGED <<store, history, rev, data>>,
         link' = [link EXCEPT ![c] = "none"], retry' = [retry EXCEPT ![c] = due],
         wsClients' = wsClients \ {c},
         up' = [up EXCEPT ![c] = <<>>], down' = [down EXCEPT ![c] = <<>>],
         \E S \in SUBSET InFlight(c) : stray' = stray \cup S
  PROVE  Coherent'
<1>1. /\ \A k \in Clients : up'[k] = up[k] \/ up'[k] = <<>>
      /\ down'[c] = <<>> /\ link'[c] = "none"
      /\ \A k \in Clients : k # c => down'[k] = down[k] /\ link'[k] = link[k] /\ retry'[k] = retry[k]
      /\ \A w \in stray' : w \in stray \/ \E k \in Clients : w \in InFlight(k)
  BY DEF TypeOK
<1>2. RetryInv'
  BY <1>1 DEF Coherent, RetryInv
<1>3. \A k \in Clients :
        /\ link'[k] \notin {"open", "closing"} => k \notin wsClients' /\ down'[k] = <<>>
        /\ down'[k] = down[k] \/ (down'[k] = <<>> /\ k \notin wsClients')
  <2> TAKE k \in Clients
  <2>1. CASE k = c
    BY <1>1, <2>1
  <2>2. CASE k # c
    BY <1>1, <2>2 DEF Coherent, TailInv
  <2> QED
    BY <2>1, <2>2
<1> QED
  BY <1>1, <1>2, <1>3, LosingStep

(* Every step keeps the invariant. *)
LEMMA CoherentStep == TypeOK /\ TypeOK' /\ Coherent /\ [Next]_vars => Coherent'
<1> SUFFICES ASSUME TypeOK, TypeOK', Coherent, [Next]_vars PROVE Coherent'
  OBVIOUS
<1>1. ASSUME NEW c \in Clients, Accept(c) PROVE Coherent'
  <2> DEFINE f == Snapshot(store.rev, store.data)
  <2>1. /\ link[c] = "connecting" /\ wsClients' = wsClients \cup {c}
        /\ UNCHANGED <<store, history, up, stray, rev, data, retry>>
        /\ down'[c] = <<f>> /\ link'[c] = "open"
        /\ \A k \in Clients : k # c => down'[k] = down[k] /\ link'[k] = link[k]
    BY <1>1 DEF Accept, TypeOK
  <2>2. f.type = "snapshot" /\ f.rev = store.rev /\ FrameTrue(history, f)
    BY DEF Snapshot, FrameTrue, Coherent, StoreInv, TypeOK
  <2>3. data[c] # NoDoc => rev[c] <= f.rev
    BY <2>2 DEF Coherent, CopyInv, StoreInv, TypeOK
  <2> HIDE DEF f
  <2>4. StoreInv' /\ WritesInv' /\ CopyInv'
    BY <2>1 DEF Coherent, StoreInv, WritesInv, CopyInv, NoLostUpdate, DocAt
  <2>5. /\ \A i \in 1 .. Len(<<f>>) : FrameTrue(history, <<f>>[i])
        /\ Chained(<<f>>) /\ HeadOK(<<f>>, data[c], rev[c])
        /\ TailOK(<<f>>, data[c], rev[c], store.rev)
    BY <2>2, <2>3 DEF Chained, HeadOK, TailOK
  <2>6. FramesInv' /\ HeadInv'
    BY <2>1, <2>5 DEF Coherent, FramesInv, HeadInv
  <2>7. TailInv'
    BY <2>1, <2>5 DEF Coherent, TailInv
  <2>8. RetryInv'
    BY <2>1 DEF Coherent, RetryInv
  <2> QED
    BY <2>4, <2>6, <2>7, <2>8 DEF Coherent
<1>2. ASSUME NEW c \in Clients, AcceptWrite(c) PROVE Coherent'
  <2> DEFINE w == Head(up[c])
             d == Apply(store.data, w.patch)
  <2>1. c \in wsClients /\ up[c] # <<>> /\ Accepts(w) /\ Persist(d, w.seen)
    BY <1>2 DEF AcceptWrite
  <2>2. w \in Write /\ WriteTrue(history, w)
    BY <2>1, HeadOfUp DEF Coherent, WritesInv
  <2>3. w.seen = store.data /\ d \in Docs /\ w.patch \in Patches /\ Valid(store.data, w.patch)
    BY <2>1, <2>2, SeenIsStored, AcceptedType DEF Accepts
  <2>4. /\ Persist(d, store.data)
        /\ UNCHANGED <<wsClients, link, rev, data, retry, stray>>
        /\ up' = [up EXCEPT ![c] = Tail(@)]
    BY <1>2, <2>1, <2>3 DEF AcceptWrite
  <2>a. \A k \in Clients : up'[k] = up[k] \/ (up'[k] = Tail(up[k]) /\ up[k] # <<>>)
    BY <2>1, <2>4 DEF TypeOK
  <2>5. \A k \in Clients :
          \/ down'[k] = Broadcast(w.patch)[k]
          \/ k \in wsClients /\ down'[k] = Append(Broadcast(w.patch)[k], OkFrame(store.rev + 1))
    <3>1. down' = Reply(Broadcast(w.patch), c, OkFrame(store.rev + 1))
      BY <1>2 DEF AcceptWrite
    <3>2. Broadcast(w.patch) \in [Clients -> Seq(Frame)]
      BY <2>3, BroadcastType
    <3> QED
      BY <2>1, <3>1, <3>2 DEF Reply
  <2> HIDE DEF w, d
  <2>6. d = Apply(store.data, w.patch)
    BY DEF d
  <2> QED
    BY <2>3, <2>4, <2>a, <2>5, <2>6, CommitStep
<1>3. ASSUME NEW c \in Clients, RejectWrite(c) PROVE Coherent'
  <2>1. RejectionCode(Head(up[c])) \in {"rev_mismatch", "patch_apply_failed"}
    BY DEF RejectionCode
  <2> QED
    BY <1>3, <2>1, RejectStep DEF RejectWrite
<1>4. ASSUME NEW c \in Clients, SaveFails(c) PROVE Coherent'
  BY <1>4, RejectStep DEF SaveFails
<1>5. ASSUME NEW c \in Clients, Break(c) PROVE Coherent'
  <2>1. /\ UNCHANGED <<store, history, down, link, rev, data, retry>> /\ wsClients' = wsClients \ {c}
        /\ \A k \in Clients : up'[k] = up[k] \/ up'[k] = <<>>
        /\ \A w \in stray' : w \in stray \/ \E k \in Clients : w \in InFlight(k)
    BY <1>5 DEF Break, TypeOK
  <2>2. /\ RetryInv'
        /\ \A k \in Clients :
             /\ link'[k] \notin {"open", "closing"} => k \notin wsClients' /\ down'[k] = <<>>
             /\ up'[k] = up[k] \/ up'[k] = <<>>
             /\ down'[k] = down[k]
    BY <2>1 DEF Coherent, RetryInv, TailInv
  <2> QED
    BY <2>1, <2>2, LosingStep
<1>6. ASSUME NEW c \in Clients, CrashAfterSave(c) PROVE Coherent'
  <2> DEFINE w == Head(up[c])
             d == Apply(store.data, w.patch)
  <2>1. c \in wsClients /\ up[c] # <<>> /\ Accepts(w) /\ Persist(d, w.seen)
    BY <1>6 DEF CrashAfterSave
  <2>2. w \in Write /\ WriteTrue(history, w)
    BY <2>1, HeadOfUp DEF Coherent, WritesInv
  <2>3. w.seen = store.data /\ d \in Docs
    BY <2>1, <2>2, SeenIsStored, AcceptedType
  <2>4. /\ Persist(d, store.data) /\ UNCHANGED <<down, link, rev, data, retry>>
        /\ wsClients' = {} /\ stray' = {} /\ \A k \in Clients : up'[k] = <<>>
    BY <1>6, <2>1, <2>3 DEF CrashAfterSave, LoseSockets
  <2> HIDE DEF w, d
  <2>5. StoreInv' /\ CopyInv'
    BY <2>3, <2>4, Persisted, CopiesStayTrue DEF Coherent
  <2>6. WritesInv'
    BY <2>4 DEF WritesInv
  <2>7. FramesInv'
    <3>1. \A f \in Frame : FrameTrue(history, f) => FrameTrue(history', f)
      BY <2>3, <2>4, Persisted, FrameStaysTrue DEF Coherent
    <3>2. ASSUME NEW k \in Clients
          PROVE  down[k] \in Seq(Frame)
      BY DEF TypeOK
    <3>3. \A k \in Clients : \A i \in 1 .. Len(down[k]) : down[k][i] \in Frame
      BY <3>2
    <3> QED
      BY <2>4, <3>1, <3>3 DEF Coherent, FramesInv
  <2>8. HeadInv' /\ TailInv' /\ RetryInv'
    BY <2>4 DEF Coherent, HeadInv, TailInv, RetryInv
  <2> QED
    BY <2>5, <2>6, <2>7, <2>8 DEF Coherent
<1>7. ASSUME NEW c \in Clients, Connect(c) PROVE Coherent'
  <2>1. /\ UNCHANGED <<store, history, wsClients, up, down, stray, rev, data>>
        /\ retry[c] /\ link[c] = "none" /\ link'[c] = "connecting" /\ ~retry'[c]
        /\ \A k \in Clients : k # c => retry'[k] = retry[k] /\ link'[k] = link[k]
    BY <1>7 DEF Connect, TypeOK, Coherent, RetryInv
  <2>2. /\ RetryInv'
        /\ \A k \in Clients :
             /\ link'[k] \notin {"open", "closing"} => k \notin wsClients' /\ down'[k] = <<>>
             /\ up'[k] = up[k] \/ up'[k] = <<>>
             /\ down'[k] = down[k]
    BY <2>1 DEF Coherent, RetryInv, TailInv
  <2> QED
    BY <2>1, <2>2, LosingStep
<1>8. ASSUME NEW c \in Clients, CloseEvent(c) PROVE Coherent'
  BY <1>8, LetGoStep DEF CloseEvent, LetGo
<1>9. ASSUME NEW c \in Clients, ConnectFails(c) PROVE Coherent'
  BY <1>9, LetGoStep DEF ConnectFails, LetGo
<1>10. ASSUME NEW c \in Clients, Deliver(c) PROVE Coherent'
  BY <1>10, DeliverStep
<1>11. ASSUME NEW c \in Clients, Close(c) PROVE Coherent'
  BY <1>11, LetGoStep DEF Close
<1>12. ASSUME NEW c \in Clients, NEW p \in ClientPatches, Update(c, p) PROVE Coherent'
  <2> DEFINE w == [baseRev |-> rev[c], patch |-> p, seen |-> data[c]]
  <2>1. /\ UNCHANGED <<store, history, wsClients, down, stray, link, rev, data, retry>>
        /\ up' = up \/ up' = [up EXCEPT ![c] = Append(@, w)]
    BY <1>12 DEF Update
  <2>2. WriteTrue(history, w)
    BY <1>12 DEF Update, Coherent, CopyInv, WriteTrue
  <2> HIDE DEF w
  <2>3. WritesInv'
    <3> SUFFICES ASSUME NEW k \in Clients, NEW i \in 1 .. Len(up'[k])
                 PROVE  WriteTrue(history, up'[k][i])
      BY <2>1 DEF Coherent, WritesInv
    <3>1. up[k] \in Seq(Write) /\ \A j \in 1 .. Len(up[k]) : WriteTrue(history, up[k][j])
      BY DEF TypeOK, Coherent, WritesInv
    <3>2. up'[k] = up[k] \/ up'[k] = Append(up[k], w)
      BY <2>1 DEF TypeOK
    <3> QED
      BY <2>2, <3>1, <3>2
  <2> QED
    BY <2>1, <2>3 DEF Coherent, StoreInv, CopyInv, NoLostUpdate, DocAt, FramesInv, HeadInv, TailInv, RetryInv
<1>13. ASSUME NEW w \in stray, HandleStray(w) PROVE Coherent'
  <2> DEFINE d == Apply(store.data, w.patch)
  <2>1. w \in Write /\ WriteTrue(history, w) /\ stray' \subseteq stray
    BY <1>13 DEF HandleStray, TypeOK, Coherent, WritesInv
  <2>2. CASE Accepts(w)
    <3>1. w.seen = store.data /\ d \in Docs /\ w.patch \in Patches /\ Valid(store.data, w.patch)
      BY <2>1, <2>2, SeenIsStored, AcceptedType DEF Accepts
    <3>2. /\ Persist(d, store.data) /\ down' = Broadcast(w.patch)
          /\ UNCHANGED <<wsClients, up, link, rev, data, retry>>
      BY <1>13, <2>2, <3>1 DEF HandleStray
    <3> HIDE DEF d
    <3>3. d = Apply(store.data, w.patch)
      BY DEF d
    <3>4. \A k \in Clients : up'[k] = up[k] /\ down'[k] = Broadcast(w.patch)[k]
      BY <3>2
    <3> QED
      BY <2>1, <3>1, <3>2, <3>3, <3>4, CommitStep
  <2>3. CASE ~Accepts(w)
    <3>1. UNCHANGED <<store, history, wsClients, up, down, link, rev, data, retry>>
      BY <1>13, <2>3 DEF HandleStray
    <3>2. /\ RetryInv'
          /\ \A k \in Clients :
               /\ link'[k] \notin {"open", "closing"} => k \notin wsClients' /\ down'[k] = <<>>
               /\ up'[k] = up[k] /\ down'[k] = down[k]
      BY <3>1 DEF Coherent, RetryInv, TailInv
    <3> QED
      BY <2>1, <3>1, <3>2, LosingStep
  <2> QED
    BY <2>2, <2>3
<1>14. CASE ServerUpdate
  <2> DEFINE d == Updater(store.data)
             p == Replace(d)
  <2>1. store.data \in Docs /\ d \in Docs /\ p \in Patches
    BY PatchAssumption DEF TypeOK
  <2>2. Valid(store.data, p) /\ Apply(store.data, p) = d
    BY <2>1, PatchAssumption
  <2>3. /\ Persist(d, store.data) /\ down' = Broadcast(p)
        /\ UNCHANGED <<wsClients, up, stray, link, rev, data, retry>>
    BY <1>14 DEF ServerUpdate
  <2> HIDE DEF d, p
  <2>4. \A k \in Clients : up'[k] = up[k] /\ down'[k] = Broadcast(p)[k]
    BY <2>3
  <2> QED
    BY <2>1, <2>2, <2>3, <2>4, CommitStep
<1>15. CASE ServerCrash
  <2>1. /\ UNCHANGED <<store, history, down, link, rev, data, retry>> /\ wsClients' = {}
        /\ stray' = {} /\ \A k \in Clients : up'[k] = <<>>
    BY <1>15 DEF ServerCrash, LoseSockets, server
  <2>2. /\ RetryInv'
        /\ \A k \in Clients :
             /\ link'[k] \notin {"open", "closing"} => k \notin wsClients' /\ down'[k] = <<>>
             /\ up'[k] = up[k] \/ up'[k] = <<>>
             /\ down'[k] = down[k]
    BY <2>1 DEF Coherent, RetryInv, TailInv
  <2> QED
    BY <2>1, <2>2, LosingStep
<1>16. CASE UNCHANGED vars
  BY <1>16 DEF vars, Coherent, StoreInv, WritesInv, CopyInv, NoLostUpdate, DocAt, FramesInv, HeadInv,
               TailInv, RetryInv
<1> QED
  BY <1>1, <1>2, <1>3, <1>4, <1>5, <1>6, <1>7, <1>8, <1>9, <1>10, <1>11, <1>12, <1>13, <1>14, <1>15,
     <1>16 DEF Next

-----------------------------------------------------------------------------
(* The theorems *)

(* Types and coherence together are inductive. *)
LEMMA Invariant == Spec => [](TypeOK /\ Coherent)
<1>1. Init => TypeOK /\ Coherent
  BY TypeInit, CoherentInit
<1>2. TypeOK /\ Coherent /\ [Next]_vars => (TypeOK /\ Coherent)'
  BY TypeStep, CoherentStep, CoherentBroadcastApplies
<1> QED
  BY <1>1, <1>2, PTL DEF Spec

(* Every variable keeps its type: in particular applyPatch is never asked for a patch that does not
   apply, so every stored and every shown document is one. *)
THEOREM TypeCorrect == Spec => []TypeOK
  BY Invariant, PTL

(* No update is lost: every committed version was written by someone who had the version before
   it in view, whatever frames, connections, saves and server processes were lost meanwhile. *)
THEOREM NoUpdateLost == Spec => []NoLostUpdate
<1>1. TypeOK /\ Coherent => NoLostUpdate
  BY DEF Coherent, StoreInv
<1> QED
  BY <1>1, Invariant, PTL

(* The message handler of a client never meets a patch it cannot apply. *)
THEOREM EveryBroadcastApplies == Spec => []BroadcastApplies
  BY Invariant, CoherentBroadcastApplies, PTL

-----------------------------------------------------------------------------
(* The refinement: a step commits one version, moves one client to a committed version, or changes
   nothing the abstract specification sees. *)

(* A step that handles no frame leaves every copy alone and commits one version at most. *)
LEMMA CommitOrQuiet ==
  ASSUME TypeOK, [Next]_vars, \A c \in Clients : ~Deliver(c)
  PROVE  /\ UNCHANGED <<rev, data>>
         /\ UNCHANGED history \/ \E e \in Entry : history' = Append(history, e)
<1>1. ASSUME NEW d \in Docs, NEW seen \in Docs, Persist(d, seen)
      PROVE  \E e \in Entry : history' = Append(history, e)
  BY <1>1 DEF Persist, Entry
<1>2. ASSUME NEW c \in Clients, AcceptWrite(c) \/ CrashAfterSave(c)
      PROVE  UNCHANGED <<rev, data>> /\ \E e \in Entry : history' = Append(history, e)
  <2>1. /\ UNCHANGED <<rev, data>> /\ up[c] # <<>> /\ Accepts(Head(up[c]))
        /\ Persist(Apply(store.data, Head(up[c]).patch), Head(up[c]).seen)
    BY <1>2 DEF AcceptWrite, CrashAfterSave, LoseSockets
  <2> QED
    BY <1>1, <2>1, HeadOfUp, AcceptedType
<1>3. ASSUME NEW w \in stray, HandleStray(w)
      PROVE  /\ UNCHANGED <<rev, data>>
             /\ UNCHANGED history \/ \E e \in Entry : history' = Append(history, e)
  <2>1. CASE Accepts(w)
    <3>1. w \in Write /\ Persist(Apply(store.data, w.patch), w.seen) /\ UNCHANGED <<rev, data>>
      BY <1>3, <2>1 DEF HandleStray, TypeOK
    <3> QED
      BY <1>1, <2>1, <3>1, AcceptedType
  <2>2. CASE ~Accepts(w)
    BY <1>3, <2>2 DEF HandleStray
  <2> QED
    BY <2>1, <2>2
<1>4. CASE ServerUpdate
  <2>1. /\ UNCHANGED <<rev, data>> /\ Persist(Updater(store.data), store.data)
        /\ Updater(store.data) \in Docs /\ store.data \in Docs
    BY <1>4, PatchAssumption DEF ServerUpdate, TypeOK
  <2> QED
    BY <1>1, <2>1
<1>5. ASSUME NEW c \in Clients,
             \/ Accept(c) \/ RejectWrite(c) \/ SaveFails(c) \/ Break(c) \/ Connect(c)
             \/ CloseEvent(c) \/ ConnectFails(c) \/ Close(c)
             \/ \E p \in ClientPatches : Update(c, p)
      PROVE  UNCHANGED <<history, rev, data>>
  BY <1>5 DEF Accept, RejectWrite, SaveFails, Break, Connect, CloseEvent, ConnectFails, Close, Update
<1>6. CASE ServerCrash \/ UNCHANGED vars
  BY <1>6 DEF ServerCrash, LoseSockets, server, vars
<1> QED
  BY <1>2, <1>3, <1>4, <1>5, <1>6 DEF Next

(* The layer implements the linear document history of DocHistory. *)
THEOREM Implements == Spec => LinearHistory
<1> DEFINE H == [i \in 1 .. Len(history) |-> history[i].data]
           V == [c \in Clients |->
                   IF data[c] = NoDoc THEN {} ELSE {[rev |-> rev[c], data |-> data[c]]}]
<1>1. Init => History!Init
  <2> SUFFICES ASSUME Init PROVE H = <<InitDoc>> /\ V = [c \in Clients |-> {}]
    BY DEF History!Init
  <2>1. history = <<[data |-> InitDoc, seen |-> InitDoc]>>
    BY DEF Init
  <2>2. H = <<InitDoc>>
    BY <2>1
  <2> QED
    BY <2>2 DEF Init
<1>2. TypeOK /\ Coherent /\ [Next]_vars => [History!Next]_(History!vars)
  <2> SUFFICES ASSUME TypeOK, Coherent, [Next]_vars
               PROVE  History!Next \/ (H' = H /\ V' = V)
    BY DEF History!vars
  <2>1. CASE \A c \in Clients : ~Deliver(c)
    <3>1. V' = V
      BY <2>1, CommitOrQuiet
    <3>2. CASE UNCHANGED history
      BY <3>1, <3>2
    <3>3. CASE \E e \in Entry : history' = Append(history, e)
      <4>1. PICK e \in Entry : history' = Append(history, e)
        BY <3>3
      <4>2. history \in Seq(Entry) /\ e.data \in Docs
        BY DEF TypeOK, Entry
      <4>3. H' = Append(H, e.data)
        BY <4>1, <4>2
      <4> QED
        BY <3>1, <4>2, <4>3 DEF History!Next, History!Commit
    <3> QED
      BY <2>1, <3>2, <3>3, CommitOrQuiet
  <2>2. CASE \E c \in Clients : Deliver(c)
    <3>1. PICK c \in Clients : Deliver(c)
      BY <2>2
    <3> DEFINE f == Head(down[c])
               r == f.rev
    <3>2. /\ data'[c] # NoDoc /\ rev'[c] = r /\ r \in Nat /\ r < Len(history)
          /\ data'[c] = history[r + 1].data
          /\ data[c] # NoDoc => rev[c] <= r
          /\ \A k \in Clients : k # c => rev'[k] = rev[k] /\ data'[k] = data[k]
      BY <3>1, DeliverMoves DEF FrameTrue, DocAt
    <3>3. history' = history /\ Len(history) \in Nat
      BY <3>1 DEF Deliver, TypeOK
    <3> HIDE DEF f
    <3>4. r \in 0 .. Len(H) - 1 /\ r + 1 \in 1 .. Len(history) /\ H' = H
      BY <3>2, <3>3
    <3>5. V' = [V EXCEPT ![c] = {[rev |-> r, data |-> H[r + 1]]}]
      BY <3>2, <3>4
    <3>6. \A v \in V[c] : v.rev <= r
      BY <3>2
    <3> QED
      BY <3>4, <3>5, <3>6 DEF History!Next, History!Observe, History!Version
  <2> QED
    BY <2>1, <2>2
<1> QED
  BY <1>1, <1>2, Invariant, PTL DEF Spec, LinearHistory, History!Spec
=============================================================================
