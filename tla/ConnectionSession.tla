-------------------------- MODULE ConnectionSession --------------------------
(***************************************************************************)
(* One Connection and everything that can happen to it: its owner starts   *)
(* it, polls it with datagrams (any datagram at all: the peer, the network *)
(* and strangers are not modelled here, only what they can send) and       *)
(* disconnects it; time passes; IStateManager accepts or refuses.          *)
(*                                                                         *)
(* mode is Connection::Mode.  A client owner (NetworkManagerClientGuts)    *)
(* may Start its connection again and Disconnect it whenever it likes; a   *)
(* server owner (NetworkManagerServerGuts) starts each connection once and *)
(* disconnects it only once it is connected.                               *)
(***************************************************************************)
EXTENDS Connection

CONSTANTS
  Datagram,     \* the datagrams that may arrive, NoPacket among them
  MaxSessions   \* bound: how often a client may Start

ASSUME SessionAssumption ==
  /\ Datagram \subseteq Packet
  /\ NoPacket \in Datagram
  /\ MaxSessions \in Nat \ {0}

VARIABLES
  mode,        \* "Server" or "Client", never changes
  conn,        \* the Connection
  registered,  \* handles of this connection IStateManager considers connected
  sessions,    \* how often Start was called
  joins,       \* history: successful IStateManager::Connect calls since Start
  answers,     \* history: datagrams returned while Listening, since Start
  requests,    \* history: requests sent in this phase of the handshake
  elapsed      \* history: ticks since the first request of this phase

vars == <<mode, conn, registered, sessions, joins, answers, requests, elapsed>>

MaxElapsed == (RetryPeriod + 1) * HandshakeRetries

Init ==
  /\ mode \in {"Server", "Client"}
  /\ conn = NewConnection
  /\ registered = {}
  /\ sessions = 0
  /\ joins = 0
  /\ answers = 0
  /\ requests = 0
  /\ elapsed = 0

Start ==
  /\ \/ /\ mode = "Server"
        /\ conn.state = "Idle"
        /\ \E key \in Key : conn' = StartServer(conn, key)
     \/ /\ mode = "Client"
        /\ sessions < MaxSessions
        /\ conn' = StartClient(conn)
  /\ sessions' = sessions + 1
  /\ joins' = 0
  /\ answers' = 0
  /\ requests' = 0
  /\ elapsed' = 0
  /\ UNCHANGED <<mode, registered>>

(* One call of Process.  A state manager that accepts returns a handle     *)
(* nobody else holds.                                                      *)
Receive(p) ==
  \E h \in (StateHandle \ registered) \cup {NoHandle} :
    LET r        == Process(conn, p, h)
        accepted == r.asked /\ h # NoHandle
        parsed   == Parse(conn, p, h).c.state
        asking   == r.c.state \in Phase /\ r.out # NoPacket
        moved    == parsed # conn.state
    IN  /\ r.asked \/ h = NoHandle
        /\ conn' = r.c
        /\ registered' = IF accepted THEN registered \cup {h} ELSE registered
        /\ joins' = IF accepted THEN joins + 1 ELSE joins
        /\ answers' =
             IF conn.state = "Listening" /\ r.out # NoPacket
             THEN answers + 1 ELSE answers
        /\ requests' = (IF moved THEN 0 ELSE requests)
                         + (IF asking THEN 1 ELSE 0)
        /\ elapsed' = IF moved THEN 0 ELSE elapsed
        /\ UNCHANGED <<mode, sessions>>

ReceiveAny == \E p \in Datagram : Receive(p)

(* Polling with an empty buffer, as PrivateSendState does every frame.     *)
Poll == Receive(NoPacket)

DisconnectCall ==
  /\ mode = "Client" \/ IsConnected(conn)
  /\ conn' = DisconnectBecause(conn, "Local")
  /\ registered' = registered \ DisconnectedHandles(conn)
  /\ requests' = 0
  /\ elapsed' = 0
  /\ UNCHANGED <<mode, sessions, joins, answers>>

(* The owner takes the delta that was received.                            *)
TakeLast ==
  /\ IsConnected(conn)
  /\ conn' = Taken(conn)
  /\ UNCHANGED <<mode, registered, sessions, joins, answers, requests,
                 elapsed>>

Tick ==
  /\ conn' = Age(conn)
  /\ elapsed' = IF requests > 0 /\ elapsed < MaxElapsed
                THEN elapsed + 1 ELSE elapsed
  /\ UNCHANGED <<mode, registered, sessions, joins, answers, requests>>

Next == Start \/ ReceiveAny \/ DisconnectCall \/ TakeLast \/ Tick

Spec == Init /\ [][Next]_vars

(* The game loop keeps polling and the clock keeps running.                *)
FairSpec == Spec /\ WF_vars(Poll) /\ WF_vars(Tick)

-----------------------------------------------------------------------------
(* Every variable has its type; myPacketCount never passes FloodTrigger.   *)
TypeOK ==
  /\ mode \in {"Server", "Client"}
  /\ conn \in ConnectionType
  /\ registered \subseteq StateHandle
  /\ sessions \in Nat
  /\ joins \in Nat
  /\ answers \in Nat
  /\ requests \in Nat
  /\ elapsed \in 0 .. MaxElapsed

(* However often a client repeats Connect, because the answer was lost or  *)
(* the request was duplicated, the game state is told of one player per    *)
(* session (Connection.cpp:315-318, the test of myStateHandle).            *)
JoinsOnce == joins <= 1

(* A connection that counts as connected has a client handle: the branch   *)
(* "Connection with no ClientId, wtf?" of NetworkManagerServerGuts.cpp:318 *)
(* is never taken, and *id in the client's DeltaSend is never empty.       *)
ConnectedHasHandle == IsConnected(conn) => conn.handle # NoHandle

(* Strangers cannot make a server that is waiting for a client send more   *)
(* than FloodTrigger datagrams, whatever mix of Challenge, good and bad    *)
(* Connect they use ("Deal with floods by not sending the response.").     *)
AnswersBounded == answers <= FloodTrigger

(* Nobody can end a session from outside without having seen a key: a      *)
(* client that has not been given one, or a stranger with a nil key,       *)
(* matches nothing (Connection.cpp:554-571).                               *)
RemoteFailureIsKeyed ==
  HasFailed(conn) /\ conn.reason = "Remote" => conn.key \in Key

(* A client gives up only after it has sent the first request and all its  *)
(* retries of the phase it is in, each more than a retry period after the  *)
(* one before; a phase that succeeds late does not eat into the next.      *)
GivesUpAfterRetries ==
  HasFailed(conn) /\ conn.reason \in {"TimeoutChallenging", "TimeoutConnecting"}
    => requests = HandshakeRetries + 1 /\ elapsed = MaxElapsed

(* A handshake ends: connected, failed, or given up by its owner, even if  *)
(* strangers keep a listening server busy for as long as they like.        *)
HandshakeEnds ==
  conn.state \in Phase \cup {"Listening"}
    ~> conn.state \notin Phase \cup {"Listening"}

=============================================================================
