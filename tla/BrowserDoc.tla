----------------------------- MODULE BrowserDoc -----------------------------
(***************************************************************************)
(* useRealtimeDoc: a page of a browser application that shows a document   *)
(* of the hub and writes to it.  The page may turn to another document     *)
(* while it stays open; its socket breaks and, in the LiveTracking         *)
(* application only, is opened again after a pause.                        *)
(*                                                                         *)
(* The copy a message describes is at hand in two places: the refs, which  *)
(* update() reads, and the state React renders.  A snapshot changes the    *)
(* refs at once, a patch only in the updater React runs later.             *)
(*                                                                         *)
(* Left out: the status and error texts, messages that are no JSON, and    *)
(* what documents contain: a copy is the document and revision it is of.   *)
(***************************************************************************)
EXTENDS Integers, Sequences

CONSTANTS
  Docs, NoDoc,
  MaxRev,      \* bound: revisions of a document
  MaxTurns,    \* bound: changes of the document shown
  MaxOutages,  \* bound: refused and broken connections, failed saves
  MaxUpdates   \* bound: changes made on the page

VARIABLES
  docRev,      \* document -> stored revision
  reconnects,  \* is this the hook of the LiveTracking application?
  docId,       \* the document the page is to show
  link,        \* its socket: "none", "connecting", "open", "broken" or "closed"
  timer,       \* reconnectTimer
  frames,      \* messages on their way to the page
  writes,      \* writes on their way to the hub
  refs,        \* dataRef and revRef: a copy
  data,        \* the copy React shows
  rendered,    \* the copy it will show once it has run the updaters that wait
  patched,     \* is a patch among them?
  synced,      \* ghost: has this socket delivered its snapshot?
  turns, outages, updates

pageVars == <<docRev, reconnects, docId, link, timer, frames, writes, refs, data, rendered, patched, synced,
              turns, outages, updates>>

Copy(d, r) == [doc |-> d, rev |-> r]
NoCopy == Copy(NoDoc, 0)
Torn == Copy(NoDoc, -1) \* a patch was applied to another version than it was made for

Outage == outages < MaxOutages /\ outages' = outages + 1

(* fast-json-patch, in the setData updater: without a copy the patch is dropped. *)
Patched(copy, f) ==
  IF copy = NoCopy THEN copy
  ELSE IF copy = Copy(f.doc, f.rev - 1) THEN Copy(f.doc, f.rev) ELSE Torn

(* React runs the updaters: what they make of the state depends on nothing else, and only patches move
   the refs when they are run. *)
Settle ==
  /\ data' = rendered /\ refs' = (IF patched THEN rendered ELSE refs)
  /\ patched' = FALSE /\ UNCHANGED rendered

(* The effect: its clean-up closes the old socket, then a new one is opened.  Its writes are
   still read by the hub, but nobody hears the answer. *)
OpenSocket ==
  /\ link' = "connecting" /\ timer' = FALSE /\ frames' = <<>> /\ synced' = FALSE
  /\ writes' = [i \in DOMAIN writes |-> [writes[i] EXCEPT !.heard = FALSE]]

-----------------------------------------------------------------------------
(* The page is given another document, or none. *)
Turn(d) ==
  /\ turns < MaxTurns /\ turns' = turns + 1
  /\ d # docId
  /\ docId' = d
  /\ OpenSocket /\ Settle
  /\ UNCHANGED <<docRev, reconnects, outages, updates>>

TurnAway ==
  /\ turns < MaxTurns /\ turns' = turns + 1
  /\ docId # NoDoc
  /\ docId' = NoDoc
  /\ link' = "none" /\ timer' = FALSE /\ frames' = <<>> /\ synced' = FALSE
  /\ writes' = [i \in DOMAIN writes |-> [writes[i] EXCEPT !.heard = FALSE]]
  /\ data' = NoCopy /\ refs' = NoCopy /\ rendered' = NoCopy /\ patched' = FALSE
  /\ UNCHANGED <<docRev, reconnects, outages, updates>>

(* The hub registers the socket and sends the document. *)
Opened ==
  /\ link = "connecting"
  /\ link' = "open"
  /\ frames' = <<[type |-> "snapshot", doc |-> docId, rev |-> docRev[docId]]>>
  /\ UNCHANGED <<docRev, reconnects, docId, timer, writes, refs, data, rendered, patched, synced, turns, outages, updates>>

(* onclose, of a broken connection or of one that was refused. *)
Closed ==
  /\ \/ link = "broken" /\ UNCHANGED outages
     \/ link = "connecting" /\ Outage
  /\ link' = "closed" /\ timer' = reconnects
  /\ UNCHANGED <<docRev, reconnects, docId, frames, writes, refs, data, rendered, patched, synced, turns, updates>>

Break ==
  /\ link = "open" /\ Outage
  /\ link' = "broken" /\ frames' = <<>>
  /\ \E n \in 0 .. Len(writes) : writes' = SubSeq(writes, 1, n)
  /\ UNCHANGED <<docRev, reconnects, docId, timer, refs, data, rendered, patched, synced, turns, updates>>

ReconnectTimer ==
  /\ timer
  /\ OpenSocket /\ Settle
  /\ UNCHANGED <<docRev, reconnects, docId, turns, outages, updates>>

(* onmessage *)
ReceiveSnapshot ==
  /\ link = "open" /\ frames # <<>> /\ Head(frames).type = "snapshot"
  /\ refs' = Copy(Head(frames).doc, Head(frames).rev)
  /\ rendered' = refs'
  /\ synced' = TRUE
  /\ frames' = Tail(frames)
  /\ UNCHANGED <<docRev, reconnects, docId, link, timer, writes, data, patched, turns, outages, updates>>

ReceivePatch ==
  /\ link = "open" /\ frames # <<>> /\ Head(frames).type = "patch"
  /\ rendered' = Patched(rendered, Head(frames)) /\ patched' = TRUE
  /\ frames' = Tail(frames)
  /\ UNCHANGED <<docRev, reconnects, docId, link, timer, writes, refs, data, synced, turns, outages, updates>>

ReceiveMismatch ==
  /\ link = "open" /\ frames # <<>> /\ Head(frames).type = "rev_mismatch"
  /\ OpenSocket /\ Settle
  /\ UNCHANGED <<docRev, reconnects, docId, turns, outages, updates>>

Render ==
  /\ rendered # data \/ patched
  /\ Settle
  /\ UNCHANGED <<docRev, reconnects, docId, link, timer, frames, writes, synced, turns, outages, updates>>

-----------------------------------------------------------------------------
(* Mutant of Update: the change is computed from what is shown, not from what the refs hold. *)
UpdateShown ==
  /\ data # NoCopy /\ link \in {"open", "broken"}
  /\ updates < MaxUpdates /\ updates' = updates + 1
  /\ writes' = IF link = "broken" THEN writes
               ELSE Append(writes, [doc |-> docId, base |-> refs.rev, on |-> data,
                                    ready |-> synced, heard |-> TRUE])
  /\ UNCHANGED <<docRev, reconnects, docId, link, timer, frames, refs, data, rendered, patched, synced, turns, outages>>

(* update(): on a broken connection the write goes nowhere, on any other but an open one nothing
   is sent. *)
Update ==
  /\ refs # NoCopy /\ link \in {"open", "broken"}
  /\ updates < MaxUpdates /\ updates' = updates + 1
  /\ writes' = IF link = "broken" THEN writes
               ELSE Append(writes, [doc |-> docId, base |-> refs.rev, on |-> refs,
                                    ready |-> synced, heard |-> TRUE])
  /\ UNCHANGED <<docRev, reconnects, docId, link, timer, frames, refs, data, rendered, patched, synced, turns, outages>>

(* A version is committed and broadcast. *)
Commit(d) ==
  /\ docRev[d] < MaxRev
  /\ docRev' = [docRev EXCEPT ![d] = @ + 1]
  /\ frames' = IF link = "open" /\ docId = d
               THEN Append(frames, [type |-> "patch", doc |-> d, rev |-> docRev[d] + 1]) ELSE frames

(* The hub handles a write: accepted, refused for its revision, or its save fails. *)
HandleWrite ==
  /\ writes # <<>>
  /\ LET w == Head(writes) IN
       \/ w.base = docRev[w.doc] /\ Commit(w.doc) /\ UNCHANGED outages
       \/ /\ w.base # docRev[w.doc]
          /\ frames' = IF w.heard /\ link = "open"
                       THEN Append(frames, [type |-> "rev_mismatch"]) ELSE frames
          /\ UNCHANGED <<docRev, outages>>
       \/ w.base = docRev[w.doc] /\ Outage /\ UNCHANGED <<docRev, frames>>
  /\ writes' = Tail(writes)
  /\ UNCHANGED <<reconnects, docId, link, timer, refs, data, rendered, patched, synced, turns, updates>>

(* Somebody else writes. *)
OtherWrite(d) ==
  /\ Commit(d)
  /\ UNCHANGED <<reconnects, docId, link, timer, writes, refs, data, rendered, patched, synced, turns, outages, updates>>

Init ==
  /\ docRev = [d \in Docs |-> 1]
  /\ reconnects \in BOOLEAN
  /\ docId = NoDoc /\ link = "none" /\ timer = FALSE /\ frames = <<>> /\ writes = <<>>
  /\ refs = NoCopy /\ data = NoCopy /\ rendered = NoCopy /\ patched = FALSE /\ synced = FALSE
  /\ turns = 0 /\ outages = 0 /\ updates = 0

Next ==
  \/ \E d \in Docs : Turn(d) \/ OtherWrite(d)
  \/ TurnAway \/ Opened \/ Closed \/ Break \/ ReconnectTimer
  \/ ReceiveSnapshot \/ ReceivePatch \/ ReceiveMismatch \/ Render
  \/ Update \/ HandleWrite

Spec == Init /\ [][Next]_pageVars

-----------------------------------------------------------------------------
Committed == {NoCopy} \cup {Copy(d, r) : d \in Docs, r \in 1 .. MaxRev}

(* The variables have their types. *)
TypeOK ==
  /\ docRev \in [Docs -> 1 .. MaxRev]
  /\ reconnects \in BOOLEAN /\ timer \in BOOLEAN /\ patched \in BOOLEAN /\ synced \in BOOLEAN
  /\ docId \in Docs \cup {NoDoc}
  /\ link \in {"none", "connecting", "open", "broken", "closed"}
  /\ turns \in 0 .. MaxTurns /\ outages \in 0 .. MaxOutages /\ updates \in 0 .. MaxUpdates
  /\ {refs, data, rendered} \subseteq Committed \cup {Torn}

(* What the page shows and what it computes a change from are committed versions, whatever
   documents it has turned to, and a change is sent with the revision of the copy it was computed
   from; once the socket has delivered its snapshot that is a copy of the document written to. *)
CopyTrue ==
  /\ {data, refs} \subseteq Committed
  /\ data.rev <= IF data = NoCopy THEN 0 ELSE docRev[data.doc]
  /\ \A i \in DOMAIN writes :
       /\ writes[i].base = writes[i].on.rev
       /\ writes[i].ready => writes[i].on.doc = writes[i].doc

(* A page of the LiveTracking application ends up with the present version of its document,
   whatever broke or was refused before. *)
PageRecovers ==
  <>[](reconnects /\ docId # NoDoc => data = Copy(docId, docRev[docId]))
=============================================================================
