-------------------------- MODULE ResultsProjection --------------------------
(***************************************************************************)
(* From the documents to the live results: the worker follows the setup of *)
(* its session and the participant pools of that setup, reads the passings *)
(* of the measurement window through its feed and writes the projection of *)
(* all of them to the results document, 250 ms after the last change.      *)
(*                                                                         *)
(* Meanwhile a page activates another setup.  It writes two documents, the *)
(* session only if the revision it has seen is still the present one.      *)
(*                                                                         *)
(* Left out: how results are computed (LiveResults), how commands reach    *)
(* the worker (SessionCommands), how a feed catches up (PassingFeed), the  *)
(* decoder side of syncAdapterLifecycle (DecoderConnections) and warnings. *)
(* Every setup has enabled timing points, of decoders of its own.          *)
(***************************************************************************)
EXTENDS Naturals, Functions

CONSTANTS
  Setups, Pools,
  Absent,      \* `null`
  MaxSeq,      \* bound: passings stored
  MaxMoves     \* bound: edits, activations, commands, reopened feeds, lost writes

VARIABLES
  session,        \* the session document: rev, setup, running and the measurement window
  activeSetupId,  \* of the connection document
  activePools,    \* setup -> activeParticipantPoolIds of its document
  poolRev,        \* pool -> revision of its document
  lastStored,     \* seq of the last passing in the store
  pageSession,    \* the page's copy of the session
  activations,    \* its writes to the session, under way
  workerSession,  \* the worker's copy, or Absent
  setupClient,    \* its setup client: document and copy, or Absent
  poolClients,    \* its pool clients: pool -> copy
  passingFeed,    \* its feed: key, isLive and the seq of the last passing
  runtimeLoaded,  \* is there a copy of the runtime document?
  resultsTimer,
  results,        \* the results document, or Absent
  moves

projectionVars == <<session, activeSetupId, activePools, poolRev, lastStored, pageSession, activations,
                    workerSession, setupClient, poolClients, passingFeed, runtimeLoaded, resultsTimer,
                    results, moves>>
storedDocs == <<activePools, poolRev, lastStored>>
workerVars == <<workerSession, setupClient, poolClients, passingFeed, runtimeLoaded, resultsTimer>>

NoFeed == [key |-> Absent, isLive |-> FALSE, last |-> 0]

Move == moves < MaxMoves /\ moves' = moves + 1

InWindow(last, s) ==
  IF s.from = Absent THEN {}
  ELSE {seq \in s.from + 1 .. last : s.to = Absent \/ seq <= s.to}

-----------------------------------------------------------------------------
(* The page. *)

PageHears ==
  /\ pageSession # session
  /\ pageSession' = session
  /\ UNCHANGED <<session, activeSetupId, storedDocs, activations, workerVars, results, moves>>

(* activate(): both documents are written, none knows of the other. *)
activate(setup) ==
  /\ Move
  /\ ~pageSession.running
  /\ activeSetupId' = setup
  /\ activations' = IF pageSession.setup = setup THEN activations
                    ELSE activations \cup {[baseRev |-> pageSession.rev, setup |-> setup]}
  /\ UNCHANGED <<session, storedDocs, pageSession, workerVars, results>>

(* The hub applies a write to the revision it was made for, and rejects any other. *)
Activated(w) ==
  /\ activations' = activations \ {w}
  /\ session' = IF w.baseRev = session.rev THEN [session EXCEPT !.rev = @ + 1, !.setup = w.setup] ELSE session
  /\ UNCHANGED <<activeSetupId, storedDocs, pageSession, workerVars, results, moves>>

EditSetup(setup, pools) ==
  /\ Move
  /\ pools # activePools[setup]
  /\ activePools' = [activePools EXCEPT ![setup] = pools]
  /\ UNCHANGED <<session, activeSetupId, poolRev, lastStored, pageSession, activations, workerVars, results>>

EditPool(pool) ==
  /\ Move
  /\ poolRev' = [poolRev EXCEPT ![pool] = @ + 1]
  /\ UNCHANGED <<session, activeSetupId, activePools, lastStored, pageSession, activations, workerVars, results>>

(* A command of the operator, executed by the worker: start, stop or reset. *)
Measure(running, from, to) ==
  /\ Move
  /\ workerSession = session
  /\ session' = [session EXCEPT !.rev = @ + 1, !.running = running, !.from = from, !.to = to]
  /\ UNCHANGED <<activeSetupId, storedDocs, pageSession, activations, workerVars, results>>

Start == ~session.running /\ Measure(TRUE, lastStored, Absent)
Stop == session.running /\ Measure(FALSE, session.from, lastStored)
Reset == session.from # Absent /\ Measure(session.running, IF session.running THEN lastStored ELSE Absent, Absent)

PassingStored ==
  /\ lastStored < MaxSeq
  /\ lastStored' = lastStored + 1
  /\ UNCHANGED <<session, activeSetupId, activePools, poolRev, pageSession, activations, workerVars, results, moves>>

-----------------------------------------------------------------------------
(* What the worker hears; each sets the timer of the projection, anew if it is set. *)

Unchanged == UNCHANGED <<session, activeSetupId, storedDocs, pageSession, activations, results>>

SessionData ==
  /\ workerSession # session
  /\ workerSession' = session /\ resultsTimer' = TRUE
  /\ Unchanged /\ UNCHANGED <<setupClient, poolClients, passingFeed, runtimeLoaded, moves>>

SetupData ==
  /\ setupClient.doc # Absent
  /\ setupClient.copy # activePools[setupClient.doc]
  /\ setupClient' = [setupClient EXCEPT !.copy = activePools[setupClient.doc]] /\ resultsTimer' = TRUE
  /\ Unchanged /\ UNCHANGED <<workerSession, poolClients, passingFeed, runtimeLoaded, moves>>

PoolData(pool) ==
  /\ pool \in DOMAIN poolClients /\ poolClients[pool] # poolRev[pool]
  /\ poolClients' = [poolClients EXCEPT ![pool] = poolRev[pool]] /\ resultsTimer' = TRUE
  /\ Unchanged /\ UNCHANGED <<workerSession, setupClient, passingFeed, runtimeLoaded, moves>>

(* The snapshot of the runtime document, or the confirmation of a heartbeat. *)
RuntimeData ==
  /\ runtimeLoaded' = TRUE /\ resultsTimer' = TRUE
  /\ Unchanged /\ UNCHANGED <<workerSession, setupClient, poolClients, passingFeed, moves>>

(* The feed has caught up, or hears of a passing. *)
FeedChange ==
  /\ passingFeed.key # Absent
  /\ ~passingFeed.isLive \/ passingFeed.last # lastStored
  /\ passingFeed' = [passingFeed EXCEPT !.isLive = TRUE, !.last = lastStored] /\ resultsTimer' = TRUE
  /\ Unchanged /\ UNCHANGED <<workerSession, setupClient, poolClients, runtimeLoaded, moves>>

(* It loses its stream, or passings were deleted, and begins again. *)
FeedReopens ==
  /\ Move
  /\ passingFeed.key # Absent
  /\ passingFeed' = [NoFeed EXCEPT !.key = passingFeed.key] /\ resultsTimer' = TRUE
  /\ Unchanged /\ UNCHANGED <<workerSession, setupClient, poolClients, runtimeLoaded>>

-----------------------------------------------------------------------------
(* updateResultsProjection *)

(* Another setup than before: its document is subscribed, its copy comes later. *)
ensureSetupClient ==
  IF setupClient.doc = workerSession.setup THEN setupClient
  ELSE [doc |-> workerSession.setup, copy |-> Absent]

(* The setup is ensured ahead of the projection, too. *)
syncAdapterLifecycle ==
  /\ workerSession # Absent /\ setupClient # ensureSetupClient
  /\ setupClient' = ensureSetupClient
  /\ Unchanged /\ UNCHANGED <<workerSession, poolClients, passingFeed, runtimeLoaded, resultsTimer, moves>>

(* Clients of pools no longer active are closed, those of new ones have no copy yet. *)
ensurePoolClients ==
  [pool \in setupClient.copy |-> IF pool \in DOMAIN poolClients THEN poolClients[pool] ELSE Absent]

configured ==
  LET key == IF workerSession.from = Absent THEN Absent
             ELSE [setup |-> setupClient.doc, since |-> workerSession.from]
  IN IF key = passingFeed.key THEN passingFeed ELSE [NoFeed EXCEPT !.key = key]

Projected(feed) ==
  [setup |-> setupClient.doc, from |-> workerSession.from, athletes |-> poolClients,
   passings |-> InWindow(feed.last, workerSession)]

(* Mutant of CanProject: results are written while the feed catches up, too. *)
CanProjectCatchingUp(feed) == workerSession.from = Absent \/ feed.key # Absent

CanProject(feed) == workerSession.from = Absent \/ feed.isLive

(* The setup, the runtime document or a pool is not there yet: what comes sets the timer again. *)
ProjectLater ==
  /\ resultsTimer /\ resultsTimer' = FALSE
  /\ workerSession # Absent
  /\ setupClient' = ensureSetupClient
  /\ \/ /\ ensureSetupClient.copy = Absent \/ ~runtimeLoaded
        /\ UNCHANGED poolClients
     \/ /\ ensureSetupClient.copy # Absent /\ runtimeLoaded
        /\ Absent \in Range(ensurePoolClients)
        /\ poolClients' = ensurePoolClients
  /\ Unchanged /\ UNCHANGED <<workerSession, passingFeed, runtimeLoaded, moves>>

(* Everything is there.  A feed that is configured anew calls back, which sets the timer. *)
Project ==
  /\ resultsTimer
  /\ workerSession # Absent /\ runtimeLoaded
  /\ setupClient = ensureSetupClient /\ setupClient.copy # Absent
  /\ Absent \notin Range(ensurePoolClients)
  /\ poolClients' = ensurePoolClients
  /\ passingFeed' = configured /\ resultsTimer' = (configured # passingFeed)
  /\ \/ /\ CanProject(configured)
        /\ \/ results' = [Projected(configured) EXCEPT !.athletes = poolClients'] /\ UNCHANGED moves
           \/ UNCHANGED results /\ Move \* the write is lost or rejected
     \/ ~CanProject(configured) /\ UNCHANGED <<results, moves>>
  /\ UNCHANGED <<session, activeSetupId, storedDocs, pageSession, activations,
                 workerSession, setupClient, runtimeLoaded>>

(* Before the session is there nothing happens. *)
ProjectNothing ==
  /\ resultsTimer /\ resultsTimer' = FALSE
  /\ workerSession = Absent
  /\ Unchanged /\ UNCHANGED <<workerSession, setupClient, poolClients, passingFeed, runtimeLoaded, moves>>

-----------------------------------------------------------------------------
Init ==
  /\ \E setup \in Setups :
       /\ session = [rev |-> 0, setup |-> setup, running |-> FALSE, from |-> Absent, to |-> Absent]
       /\ activeSetupId = setup
  /\ activePools = [setup \in Setups |-> Pools] /\ poolRev = [pool \in Pools |-> 0] /\ lastStored = 0
  /\ pageSession = session /\ activations = {}
  /\ workerSession = Absent /\ setupClient = [doc |-> Absent, copy |-> Absent] /\ poolClients = [pool \in {} |-> 0]
  /\ passingFeed = NoFeed /\ runtimeLoaded = FALSE /\ resultsTimer = TRUE
  /\ results = Absent /\ moves = 0

Next ==
  \/ PageHears
  \/ \E setup \in Setups : activate(setup)
  \/ \E w \in activations : Activated(w)
  \/ \E setup \in Setups, pools \in SUBSET Pools : EditSetup(setup, pools)
  \/ \E pool \in Pools : EditPool(pool)
  \/ Start \/ Stop \/ Reset
  \/ PassingStored
  \/ SessionData \/ SetupData \/ RuntimeData \/ FeedChange \/ FeedReopens
  \/ \E pool \in Pools : PoolData(pool)
  \/ syncAdapterLifecycle
  \/ ProjectLater \/ Project \/ ProjectNothing

(* A projection is made, and written. *)
Projection == ProjectLater \/ ProjectNothing \/ (Project /\ moves' = moves)

Spec == Init /\ [][Next]_projectionVars

-----------------------------------------------------------------------------
Copies == [rev : 0 .. MaxMoves, setup : Setups, running : BOOLEAN,
           from : 0 .. MaxSeq \cup {Absent}, to : 0 .. MaxSeq \cup {Absent}]

TypeOK ==
  /\ session \in Copies /\ pageSession \in Copies /\ workerSession \in Copies \cup {Absent}
  /\ activeSetupId \in Setups /\ activePools \in [Setups -> SUBSET Pools]
  /\ poolRev \in [Pools -> 0 .. MaxMoves] /\ lastStored \in 0 .. MaxSeq
  /\ activations \subseteq [baseRev : 0 .. MaxMoves, setup : Setups]
  /\ setupClient.doc \in Setups \cup {Absent} /\ setupClient.copy \in SUBSET Pools \cup {Absent}
  /\ DOMAIN poolClients \subseteq Pools /\ Range(poolClients) \subseteq 0 .. MaxMoves \cup {Absent}
  /\ passingFeed.isLive \in BOOLEAN /\ passingFeed.last \in 0 .. MaxSeq
  /\ runtimeLoaded \in BOOLEAN /\ resultsTimer \in BOOLEAN /\ moves \in 0 .. MaxMoves

(* The setup of a running measurement stays, though the page that activates another may not have
   heard of the start; and results never lose passings of their window, also while the feed begins
   again. *)
MeasurementStays ==
  /\ session.running => session'.setup = session.setup
  /\ results # Absent /\ results'.setup = results.setup /\ results'.from = results.from =>
       results.passings \cap InWindow(lastStored, session) \subseteq results'.passings

(* The results are the projection of the present documents and passings. *)
ResultsPresent ==
  /\ results # Absent
  /\ results = [setup |-> session.setup, from |-> session.from,
                athletes |-> [pool \in activePools[session.setup] |-> poolRev[pool]],
                passings |-> InWindow(lastStored, session)]
=============================================================================
