----------------------------- MODULE PassingFeed -----------------------------
(***************************************************************************)
(* A consumer's view on the passing store: the stream of the server        *)
(* (WS /timing/passings/stream) and the worker's TimingPassingFeed, which  *)
(* keeps the passings of some decoders after a store seq in memory.        *)
(*                                                                         *)
(* While the stream is open passings are uploaded and deleted, the         *)
(* consumer selects other decoders, the connection breaks and the server   *)
(* restarts, also between an insert and its event.                         *)
(***************************************************************************)
EXTENDS PassingStore

CONSTANTS
  Decoders,
  DecoderOf,    \* the decoder of a passing
  Batches,      \* what one upload may contain: sequences of passings
  StreamPage,   \* STREAM_PAGE, the catch-up page size
  NoKey,        \* `key === null`: no selection, no stream
  MaxUploads,   \* bound: uploads
  MaxConfigs,   \* bound: configure() calls with a new selection
  MaxFaults     \* bound: broken connections, refused connects, restarts, deletions

VARIABLES
  subscribed,  \* the server forwards store events to the feed's current socket
  lastSent,    \* the highest seq it has sent there
  wire,        \* messages on their way to the feed's current socket
  ws,          \* the feed's socket: none, connecting, open
  key,         \* the selection [ids, since], or NoKey
  items,       \* the passings in memory, as rows of the store
  live,        \* isLive: the catch-up is done
  retry,       \* the reconnect timer is set
  closed,      \* close() was called
  shown,       \* ghost: items and live at the last onChange()
  uploads, configs, faults  \* counters of the bounds

connection == <<subscribed, lastSent, wire, ws>>
feed == <<key, items, live, retry, closed, shown>>
bounds == <<uploads, configs, faults>>
vars == <<table, lastSeq, subscribed, lastSent, wire, ws, key, items, live, retry, closed, shown,
          uploads, configs, faults>>

Key == [ids : SUBSET Decoders \ {{}}, since : Nat]

Message ==
  [type : {"passings"}, rows : SUBSET Row]
    \cup [type : {"live"}] \cup [type : {"deleted"}]

PassingsMessage(rows) == [type |-> "passings", rows |-> rows]
LiveMessage == [type |-> "live"]
DeletedMessage == [type |-> "deleted"]

(* The rows of t a selection asks for. *)
Selected(t, k) == {r \in t : DecoderOf[r.passing] \in k.ids /\ r.seq > k.since}

Highest(rows, low) ==
  IF rows = {} THEN low ELSE CHOOSE n \in {r.seq : r \in rows} : \A r \in rows : r.seq <= n

Fault == faults < MaxFaults /\ faults' = faults + 1

-----------------------------------------------------------------------------
(* The server *)

(* The catch-up loop: the selected rows in seq order, a page per message, then `live`. *)
Rank(r, rows) == Cardinality({s \in rows : s.seq <= r.seq})

Pages(rows) ==
  [i \in 1 .. (Cardinality(rows) + StreamPage - 1) \div StreamPage |->
     PassingsMessage({r \in rows : Rank(r, rows) > (i - 1) * StreamPage /\ Rank(r, rows) <= i * StreamPage})]

(* Mutant of CatchUp: only the first page is sent. *)
CatchUpOnePage(k) ==
  LET pages == Pages(Selected(table, k)) IN [i \in DOMAIN pages \cap {1} |-> pages[i]] \o <<LiveMessage>>

CatchUp(k) == Pages(Selected(table, k)) \o <<LiveMessage>>

(* The stream route: subscribe to the store and catch up, in one turn of the event loop. *)
AcceptStream ==
  /\ ws = "connecting"
  /\ ws' = "open"
  /\ subscribed' = TRUE
  /\ lastSent' = Highest(Selected(table, key), key.since)
  /\ wire' = CatchUp(key)
  /\ UNCHANGED <<storeVars, feed, bounds>>

(* The store's "inserted" event reaches the stream: what is new and wanted is sent. *)
ForwardInserted(rows) ==
  LET fresh == {r \in Selected(rows, key) : r.seq > lastSent}
  IN IF subscribed /\ fresh # {}
     THEN wire' = Append(wire, PassingsMessage(fresh)) /\ lastSent' = Highest(fresh, lastSent)
     ELSE UNCHANGED <<wire, lastSent>>

Upload(batch) ==
  /\ uploads < MaxUploads
  /\ uploads' = uploads + 1
  /\ Insert(batch)
  /\ ForwardInserted(NewRows(batch))
  /\ UNCHANGED <<subscribed, ws, feed, configs, faults>>

ForwardDeleted(rows) == wire' = IF subscribed THEN Append(wire, DeletedMessage) ELSE wire

(* POST /timing/passings/delete; an event only if rows were deleted. *)
DeletePassings(rows) ==
  /\ Fault
  /\ rows # {}
  /\ Delete(rows)
  /\ ForwardDeleted(rows)
  /\ UNCHANGED <<subscribed, lastSent, ws, feed, uploads, configs>>

(* The connection breaks, or the server restarts: the subscription is gone.  Messages already sent
   may still arrive until the feed notices. *)
Break ==
  /\ Fault
  /\ subscribed
  /\ subscribed' = FALSE
  /\ UNCHANGED <<storeVars, lastSent, wire, ws, feed, uploads, configs>>

(* The server dies between the commit of an upload and its event. *)
CrashAfterInsert(batch) ==
  /\ Fault
  /\ uploads < MaxUploads
  /\ uploads' = uploads + 1
  /\ Insert(batch)
  /\ subscribed' = FALSE
  /\ UNCHANGED <<lastSent, wire, ws, feed, configs>>

-----------------------------------------------------------------------------
(* The feed *)

OnChange(rows, l) == shown' = [items |-> rows, live |-> l]

(* disconnect(): no timer and no current socket any more; what was on its way goes nowhere. *)
Disconnect(next) ==
  /\ retry' = FALSE
  /\ ws' = next
  /\ subscribed' = FALSE
  /\ wire' = <<>>
  /\ UNCHANGED lastSent

(* reopen(), with selection k. *)
Reopen(k) ==
  /\ Disconnect(IF k # NoKey /\ ~closed THEN "connecting" ELSE "none")
  /\ items' = {}
  /\ live' = FALSE
  /\ OnChange({}, FALSE)

Configure(k) ==
  /\ k # key
  /\ configs < MaxConfigs
  /\ configs' = configs + 1
  /\ key' = k
  /\ Reopen(k)
  /\ UNCHANGED <<storeVars, closed, uploads, faults>>

Close ==
  /\ ~closed
  /\ closed' = TRUE
  /\ key' = NoKey
  /\ Disconnect("none")
  /\ UNCHANGED <<storeVars, items, live, shown, bounds>>

(* The "message" handler. *)
TakePassings(m) ==
  LET fresh == {r \in m.rows : r.seq > Highest(items, key.since)}
  IN /\ m.type = "passings"
     /\ items' = items \cup fresh
     /\ IF live /\ fresh # {} THEN OnChange(items', TRUE) ELSE UNCHANGED shown
     /\ wire' = Tail(wire)
     /\ UNCHANGED <<live, subscribed, lastSent, ws, retry>>

TakeLive(m) ==
  /\ m.type = "live"
  /\ live' = TRUE
  /\ OnChange(items, TRUE)
  /\ wire' = Tail(wire)
  /\ UNCHANGED <<items, subscribed, lastSent, ws, retry>>

TakeDeleted(m) == m.type = "deleted" /\ Reopen(key)

Deliver ==
  /\ ws = "open" /\ wire # <<>>
  /\ LET m == Head(wire) IN TakePassings(m) \/ TakeLive(m) \/ TakeDeleted(m)
  /\ UNCHANGED <<storeVars, key, closed, bounds>>

(* Mutant of SocketGone: no reconnect timer. *)
SocketGoneForGood ==
  /\ ws' = "none"
  /\ wire' = <<>>
  /\ UNCHANGED <<retry, subscribed, lastSent>>

(* The socket's "close" event. *)
SocketGone ==
  /\ ws' = "none"
  /\ wire' = <<>>
  /\ retry' = TRUE
  /\ UNCHANGED <<subscribed, lastSent>>

CloseEvent ==
  /\ ws = "open" /\ ~subscribed
  /\ SocketGone
  /\ UNCHANGED <<storeVars, key, items, live, closed, shown, bounds>>

ConnectFails ==
  /\ Fault
  /\ ws = "connecting"
  /\ SocketGone
  /\ UNCHANGED <<storeVars, key, items, live, closed, shown, uploads, configs>>

(* The reconnect timer fires. *)
Retry ==
  /\ retry
  /\ Reopen(key)
  /\ UNCHANGED <<storeVars, key, closed, bounds>>

-----------------------------------------------------------------------------
Init ==
  /\ StoreInit
  /\ subscribed = FALSE /\ lastSent = 0 /\ wire = <<>> /\ ws = "none"
  /\ key = NoKey /\ items = {} /\ live = FALSE /\ retry = FALSE /\ closed = FALSE
  /\ shown = [items |-> {}, live |-> FALSE]
  /\ uploads = 0 /\ configs = 0 /\ faults = 0

Next ==
  \/ \E batch \in Batches : Upload(batch) \/ CrashAfterInsert(batch)
  \/ \E rows \in SUBSET table : DeletePassings(rows)
  \/ \E ids \in SUBSET Decoders \ {{}}, since \in 0 .. lastSeq : Configure([ids |-> ids, since |-> since])
  \/ Configure(NoKey)
  \/ Close
  \/ AcceptStream \/ Break \/ ConnectFails
  \/ Deliver \/ CloseEvent \/ Retry

(* The event loops run: sockets open, messages arrive, a lost connection is noticed, timers fire. *)
Fairness == WF_vars(AcceptStream) /\ WF_vars(Deliver) /\ WF_vars(CloseEvent) /\ WF_vars(Retry)

Spec == Init /\ [][Next]_vars
FairSpec == Spec /\ Fairness

-----------------------------------------------------------------------------
(* Type invariant. *)
TypeOK ==
  /\ StoreTypeOK
  /\ subscribed \in BOOLEAN /\ lastSent \in Nat /\ wire \in Seq(Message)
  /\ ws \in {"none", "connecting", "open"}
  /\ subscribed => ws = "open"
  /\ ws # "none" => key # NoKey /\ ~retry
  /\ key \in Key \cup {NoKey}
  /\ items \subseteq Row /\ live \in BOOLEAN /\ retry \in BOOLEAN /\ closed \in BOOLEAN
  /\ shown \in [items : SUBSET Row, live : BOOLEAN]
  /\ uploads \in 0 .. MaxUploads /\ configs \in 0 .. MaxConfigs /\ faults \in 0 .. MaxFaults

OnWire(type) == {i \in 1 .. Len(wire) : wire[i].type = type}

(* Catch-up and live stream fit together: on a standing connection the passings in memory and those
   on the wire are the selected passings of the store, and the feed counts as live as soon as it
   has read the catch-up, unless the news of a deletion is on its way; and the consumer was told of
   everything a live feed holds: it never computes results from a list that changed since its last
   onChange(). *)
FeedReflectsStore ==
  /\ (subscribed /\ OnWire("deleted") = {})
       => /\ items \cup UNION {wire[i].rows : i \in OnWire("passings")} = Selected(table, key)
          /\ live \/ OnWire("live") # {}
  /\ live => shown = [items |-> items, live |-> TRUE]

(* Whatever broke, restarted or was deleted, the feed ends up live with exactly the selected
   passings of the store; only a feed without a selection does not. *)
FeedSettled == key = NoKey \/ closed \/ (live /\ items = Selected(table, key))
FeedConverges == <>[]FeedSettled
=============================================================================
