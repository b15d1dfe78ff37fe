----------------------------- MODULE P3TestClient -----------------------------
(***************************************************************************)
(* The P3 test client of the server: one TCP connection to a decoder and   *)
(* one search for decoders, both run from the test page.  A connection     *)
(* that is given up still reports when its socket has closed, by then      *)
(* often to a service that already uses the next one.                      *)
(*                                                                         *)
(* Left out: the history of events, the records as the page shows them and *)
(* what a decoder answers or a search finds; an invalid host, port or      *)
(* request is refused before anything happens.                             *)
(***************************************************************************)
EXTENDS Naturals

CONSTANTS
  NoConnection,    \* `null`
  MaxConnections,  \* bound: connections made
  MaxSearches      \* bound: searches started

VARIABLES
  connection,      \* the one the service uses, or NoConnection
  conns,           \* connection -> _state of the object and what became of its socket
  tcpStatus,       \* connection.status of the state told to the page
  bytesSent,       \* has anything been sent on the connection last asked for?
  searchStatus,    \* discovery.status
  inFlight,        \* discoveryInFlight
  searches

clientVars == <<connection, conns, tcpStatus, bytesSent, searchStatus, inFlight, searches>>
searchVars == <<searchStatus, inFlight, searches>>

Ids == 1 .. MaxConnections
Unused == [state |-> "disconnected", sock |-> "none"]

\* a socket: "opening", "open", "failed" after its error, "destroyed" by the client, "closed"

-----------------------------------------------------------------------------
(* P3DecoderConnection.disconnect(): the socket is destroyed and the callback told at once. *)
TornDown(c) == [conns EXCEPT ![c] = [state |-> "disconnected", sock |-> "destroyed"]]

connect ==
  \E c \in Ids :
    /\ conns[c].sock = "none" /\ \A d \in 1 .. c - 1 : conns[d].sock # "none"
    /\ conns' = [IF connection = NoConnection THEN conns ELSE TornDown(connection)
                 EXCEPT ![c] = [state |-> "connecting", sock |-> "opening"]]
    /\ connection' = c /\ tcpStatus' = "connecting" /\ bytesSent' = FALSE
    /\ UNCHANGED searchVars

disconnect ==
  /\ tcpStatus' = "disconnected"
  /\ connection' = NoConnection
  /\ conns' = IF connection = NoConnection THEN conns ELSE TornDown(connection)
  /\ UNCHANGED <<bytesSent, searchVars>>

sendRequest ==
  /\ connection # NoConnection /\ conns[connection].state = "connected"
  /\ bytesSent' = TRUE
  /\ UNCHANGED <<connection, conns, tcpStatus, searchVars>>

(* connect() resolves: nobody asks whether the service still uses this connection. *)
Connected(c) ==
  /\ conns[c].sock = "opening"
  /\ conns' = [conns EXCEPT ![c] = [state |-> "connected", sock |-> "open"]]
  /\ tcpStatus' = "connected"
  /\ UNCHANGED <<connection, bytesSent, searchVars>>

SocketError(c) ==
  /\ conns[c].sock \in {"opening", "open"}
  /\ conns' = [conns EXCEPT ![c].sock = "failed"]
  /\ tcpStatus' = "error"
  /\ UNCHANGED <<connection, bytesSent, searchVars>>

(* "close": of a failed or destroyed socket, or by the decoder. *)
SocketClose(c) ==
  /\ conns[c].sock \in {"open", "failed", "destroyed"}
  /\ conns' = [conns EXCEPT ![c] = [state |-> "disconnected", sock |-> "closed"]]
  /\ connection' = NoConnection /\ tcpStatus' = "disconnected"
  /\ UNCHANGED <<bytesSent, searchVars>>

-----------------------------------------------------------------------------
startDiscovery ==
  /\ searches < MaxSearches /\ searches' = searches + 1
  /\ ~inFlight
  /\ inFlight' = TRUE /\ searchStatus' = "running"
  /\ UNCHANGED <<connection, conns, tcpStatus, bytesSent>>

(* The UDP socket is closed, after its time or with an error. *)
DiscoveryEnds(outcome) ==
  /\ inFlight
  /\ inFlight' = FALSE /\ searchStatus' = outcome
  /\ UNCHANGED <<connection, conns, tcpStatus, bytesSent, searches>>

-----------------------------------------------------------------------------
Init ==
  /\ connection = NoConnection /\ conns = [c \in Ids |-> Unused]
  /\ tcpStatus = "disconnected" /\ bytesSent = FALSE
  /\ searchStatus = "idle" /\ inFlight = FALSE /\ searches = 0

Next ==
  \/ connect \/ disconnect \/ sendRequest
  \/ \E c \in Ids : Connected(c) \/ SocketError(c) \/ SocketClose(c)
  \/ startDiscovery
  \/ \E outcome \in {"completed", "error"} : DiscoveryEnds(outcome)

Spec == Init /\ [][Next]_clientVars

-----------------------------------------------------------------------------
TypeOK ==
  /\ connection \in Ids \cup {NoConnection}
  /\ conns \in [Ids -> [state : {"disconnected", "connecting", "connected"},
                        sock : {"none", "opening", "open", "failed", "destroyed", "closed"}]]
  /\ tcpStatus \in {"disconnected", "connecting", "connected", "error"} /\ bytesSent \in BOOLEAN
  /\ searchStatus \in {"idle", "running", "completed", "error"} /\ inFlight \in BOOLEAN

(* The page is told "connected" only while a connection is open; the one the service uses has not
   ended; and a search is told to run as long as no other can be started. *)
ClientTruthful ==
  /\ tcpStatus = "connected" => \E c \in Ids : conns[c].sock = "open"
  /\ connection # NoConnection => conns[connection].sock \in {"opening", "open", "failed"}
  /\ inFlight <=> searchStatus = "running"
=============================================================================
