---------------------------- MODULE ClientServer ----------------------------
(***************************************************************************)
(* A server (NetworkManagerServerGuts) and the clients that talk to it     *)
(* (NetworkManagerClientGuts), over a network that may lose, delay,        *)
(* reorder and, where the fault model says so, duplicate datagrams.        *)
(*                                                                         *)
(* Each program runs the loop of the tests and of GameInABoxServer: it     *)
(* calls ProcessIncomming, then SendState, and begins again.  A call of    *)
(* ProcessIncomming is one action per datagram that Receive returned and   *)
(* one for the work after the loop over them, so it takes any number of    *)
(* datagrams, in any order; turn says where in its loop a program is.      *)
(* SendState is one action.  Between calls a client may Connect and        *)
(* Disconnect and the game behind an IStateManager may drop a player.      *)
(*                                                                         *)
(* CanReceive and CanSend throttle: what they suppress is a datagram that  *)
(* is not processed or not sent, which the network's losses include.       *)
(* IStateManager::Connect is taken to return a handle that nobody else     *)
(* has; handles are named after the key of the connection they are for.    *)
(* The payload of deltas, their sequences and acks are DeltaStream's       *)
(* subject: here a delta is sent with some sequence of SendSeq.            *)
(***************************************************************************)
EXTENDS Connection, Functions

CONSTANTS
  Client,       \* the client programs
  Address,      \* endpoints (ip and port) the server sees
  Home(_),      \* the endpoint a client sends from at first
  Host(_),      \* the ip of an endpoint
  SendSeq,      \* sequences IStateManager::DeltaCreate returns
  MayRefuse,    \* BOOLEAN: a state manager may refuse a player
  MayDrop,      \* BOOLEAN: the game on the server may drop a player
  BindMayFail,  \* BOOLEAN: reopening a client's socket may fail
  MaxSessions,  \* bound: Connect calls of each client
  Faults        \* the fault models: a behaviour has one of them

(* Whether datagrams may be delivered twice, whether a client or its game  *)
(* may end a session by itself, and bounds on how often the server         *)
(* restarts and a client's port changes.                                   *)
FaultModel ==
  [duplicates : BOOLEAN, quits : BOOLEAN, restarts : Nat, rebinds : Nat]

ASSUME ClientServerAssumption ==
  /\ SendSeq \subseteq Sequence
  /\ MayRefuse \in BOOLEAN
  /\ MayDrop \in BOOLEAN
  /\ BindMayFail \in BOOLEAN
  /\ MaxSessions \in Nat
  /\ Faults \subseteq FaultModel
  /\ \A a \in Client : Home(a) \in Address
  /\ Key \subseteq StateHandle
  /\ 0 \in ConnectionId

VARIABLES
  client,    \* the manager of each client program
  nat,       \* the endpoint each client's datagrams come from
  server,    \* myAddressToState: known addresses to connections
  turn,      \* where in its loop the server is
  players,   \* handles the server's state manager holds connected
  joined,    \* history: every handle it ever gave out
  drawn,     \* keys GetNetworkKeyRandom has returned: they do not repeat
  toServer,  \* datagrams on their way to the server
  toClient,  \* datagrams on their way to clients
  sessions,  \* Connect calls so far
  faults     \* what may still go wrong

serverVars == <<server, turn, players, joined, drawn>>
clientVars == <<client, nat, sessions>>
vars == <<serverVars, clientVars, toServer, toClient, faults>>

(* Before ProcessIncomming, inside its loop, before SendState.             *)
Turns == {"process", "receiving", "send"}

(* A datagram and the client endpoint at its other end.                    *)
Datagram(a, p) == [address |-> a, packet |-> p]
Datagrams(a, packets) == { Datagram(a, p) : p \in packets \ {NoPacket} }

(* The members of a client manager, what its own state manager knows       *)
(* (local) and where in its loop the program is.                           *)
NewClient ==
  [conn |-> NewConnection, enabled |-> TRUE, processed |-> 0, local |-> {},
   turn |-> "process"]

NewEntry(key) ==
  [conn |-> StartServer(NewConnection, key), lastAcked |-> 0]

(* What IStateManager::Connect may return for a connection.                *)
Offers(c) == IF MayRefuse THEN {c.key, NoHandle} ELSE {c.key}

Given(call, h) == IF call.asked /\ h # NoHandle THEN {h} ELSE {}

Init ==
  /\ client = [a \in Client |-> NewClient]
  /\ nat = [a \in Client |-> Home(a)]
  /\ server = << >>
  /\ turn = "process"
  /\ players = {}
  /\ joined = {}
  /\ drawn = {}
  /\ toServer = {}
  /\ toClient = {}
  /\ sessions = [a \in Client |-> 0]
  /\ faults \in Faults

(* A datagram is taken from the network, which may hold another copy.      *)
TakeFrom(network, m) ==
  IF faults.duplicates THEN {network, network \ {m}} ELSE {network \ {m}}

-----------------------------------------------------------------------------
(* The client.  Results are the manager k afterwards and what it sent.     *)

Sends(k, packets) == [k |-> k, out |-> IF k.enabled THEN packets ELSE {}]

(* Fail: a connected client says goodbye and closes its socket, any other  *)
(* only marks its connection as disconnecting.                             *)
ClientFail(k, reason) ==
  LET gone == [k EXCEPT !.conn = DisconnectBecause(k.conn, reason),
                        !.local = @ \ DisconnectedHandles(k.conn)]
      last == Process(gone.conn, NoPacket, NoHandle)
  IN  IF IsConnected(k.conn)
      THEN [k   |-> [gone EXCEPT !.conn = last.c, !.enabled = FALSE],
            out |-> Sends(gone, {last.out}).out]
      ELSE [k |-> gone, out |-> {}]

(* DeltaReceive                                                            *)
DeltaReceive(k) ==
  LET delta == k.conn.last
  IN  [k EXCEPT !.conn = Taken(@),
                !.processed = IF IsDelta(delta) /\ Greater(delta.seq, @)
                              THEN delta.seq ELSE @]

(* PrivateProcessIncomming after its loop.                                 *)
ClientSettled(k) ==
  CASE IsConnected(k.conn) -> Sends(DeltaReceive(k), {})
    [] HasFailed(k.conn)   -> ClientFail(k, k.conn.reason)
    [] OTHER               -> Sends(k, {})

(* PrivateSendState with the sequence DeltaCreate returns.                 *)
ClientSendState(k, seq) ==
  LET poll == Process(k.conn, NoPacket, NoHandle)
  IN  CASE IsConnected(k.conn) /\ k.conn.handle \in k.local
             -> Sends(k, { Delta(seq, k.processed, 0, d) : d \in Payload })
        [] IsConnected(k.conn) /\ k.conn.handle \notin k.local
             -> ClientFail(k, "Local")
        [] ~IsConnected(k.conn) /\ k.enabled
             -> Sends([k EXCEPT !.conn = poll.c], {poll.out})
        [] OTHER
             -> Sends(k, {})

ClientBecomes(a, r, next) ==
  /\ client' = [client EXCEPT ![a] = [r.k EXCEPT !.turn = next]]
  /\ toServer' = toServer \cup Datagrams(nat[a], r.out)

(* Whether the socket is open after INetworkProvider::Reset, which closes  *)
(* it and opens another.                                                   *)
ResetOutcomes == IF BindMayFail THEN BOOLEAN ELSE {TRUE}

(* Connect: network.Reset reopens the socket (what it drops with the old   *)
(* one the network may as well have lost), then the first SendState.       *)
ClientConnect(a) ==
  /\ client[a].turn # "receiving"
  /\ sessions[a] < MaxSessions
  /\ \E open \in ResetOutcomes, seq \in SendSeq :
       LET k == [client[a] EXCEPT !.enabled = open, !.processed = 0,
                                  !.conn = StartClient(@)]
       IN  ClientBecomes(a, ClientSendState(k, seq), client[a].turn)
  /\ sessions' = [sessions EXCEPT ![a] = @ + 1]
  /\ UNCHANGED <<serverVars, nat, toClient, faults>>

ClientDisconnect(a) ==
  /\ faults.quits
  /\ client[a].turn # "receiving"
  /\ ClientBecomes(a, ClientFail(client[a], "Local"), client[a].turn)
  /\ UNCHANGED <<serverVars, nat, sessions, toClient, faults>>

(* One datagram in the loop of PrivateProcessIncomming; a closed socket    *)
(* receives nothing.                                                       *)
ClientReceive(a, m) ==
  /\ client[a].turn # "send"
  /\ client[a].enabled
  /\ m.address = nat[a]
  /\ \E h \in Offers(client[a].conn) :
       LET call == Process(client[a].conn, m.packet, h)
           k    == [client[a] EXCEPT !.conn = call.c,
                                     !.local = @ \cup Given(call, h)]
       IN  ClientBecomes(a, Sends(k, {call.out}), "receiving")
  /\ toClient' \in TakeFrom(toClient, m)
  /\ UNCHANGED <<serverVars, nat, sessions, faults>>

ClientSettle(a) ==
  /\ client[a].turn # "send"
  /\ ClientBecomes(a, ClientSettled(client[a]), "send")
  /\ UNCHANGED <<serverVars, nat, sessions, toClient, faults>>

ClientSend(a) ==
  /\ client[a].turn = "send"
  /\ \E seq \in SendSeq :
       ClientBecomes(a, ClientSendState(client[a], seq), "process")
  /\ UNCHANGED <<serverVars, nat, sessions, toClient, faults>>

(* The game on the client's side drops the player.                         *)
ClientQuits(a) ==
  /\ faults.quits
  /\ client[a].turn # "receiving"
  /\ client[a].local # {}
  /\ client' = [client EXCEPT ![a].local = {}]
  /\ UNCHANGED <<serverVars, nat, sessions, toServer, toClient, faults>>

-----------------------------------------------------------------------------
(* The server.                                                             *)

(* The map with an entry at a, the others among known as they are.         *)
WithEntry(known, a, entry) ==
  [x \in known \cup {a} |-> IF x = a THEN entry ELSE server[x]]

(* connection.Process for an entry; the answer goes back to its address.   *)
EntryProcess(entries, a, p) ==
  \E h \in Offers(entries[a].conn) :
    LET call == Process(entries[a].conn, p, h)
    IN  /\ server' = [entries EXCEPT ![a].conn = call.c]
        /\ players' = players \cup Given(call, h)
        /\ joined' = joined \cup Given(call, h)
        /\ toClient' = toClient \cup Datagrams(a, {call.out})

(* A datagram from an address the server knows.                            *)
ServerReceiveKnown(m) ==
  /\ m.address \in DOMAIN server
  /\ EntryProcess(server, m.address, m.packet)
  /\ UNCHANGED drawn

(* A datagram that is no delta, from an address nobody has, makes a new    *)
(* connection with a fresh key.  Key bounds how many there can be.         *)
ServerReceiveStranger(m) ==
  /\ m.address \notin DOMAIN server
  /\ ~IsDelta(m.packet)
  /\ \E key \in Key \ drawn :
       /\ key = CHOOSE fresh \in Key : fresh \notin drawn
       /\ EntryProcess(WithEntry(DOMAIN server, m.address, NewEntry(key)),
                       m.address, m.packet)
       /\ drawn' = drawn \cup {key}

(* The addresses whose connection a delta from an unknown address may      *)
(* move: on the same host, with the connection id of the delta.            *)
Movers(m) ==
  { b \in DOMAIN server :
      /\ Host(b) = Host(m.address)
      /\ m.packet.id # NoId
      /\ server[b].conn.id = m.packet.id }

(* Mistake: the old entry is left where it was.                            *)
CopiedTo(a, b) == WithEntry(DOMAIN server, a, server[b])

(* The connection is copied to the new address and the old one erased.     *)
MovedTo(a, b) == WithEntry(DOMAIN server \ {b}, a, server[b])

(* What follows in the code processes the delta with the connection that   *)
(* was just erased, whose members are read after their lifetime: the entry *)
(* that moved does not see the delta, and the erased one answers as it     *)
(* would have, or not at all.                                              *)
ServerReceiveMoved(m) ==
  /\ m.address \notin DOMAIN server
  /\ IsDelta(m.packet)
  /\ \E b \in Movers(m) :
       LET erased == Process(server[b].conn, m.packet, NoHandle)
       IN  /\ server' = MovedTo(m.address, b)
           /\ toClient' \in { toClient \cup Datagrams(m.address, {out}) :
                               out \in {NoPacket, erased.out} }
  /\ UNCHANGED <<players, joined, drawn>>

(* A delta that belongs to no connection is ignored.                       *)
ServerIgnore(m) ==
  /\ m.address \notin DOMAIN server
  /\ IsDelta(m.packet)
  /\ Movers(m) = {}
  /\ UNCHANGED <<server, players, joined, drawn, toClient>>

(* One datagram in the loop of PrivateProcessIncomming.                    *)
ServerReceive(m) ==
  /\ turn # "send"
  /\ turn' = "receiving"
  /\ \/ ServerReceiveKnown(m)
     \/ ServerReceiveStranger(m)
     \/ ServerReceiveMoved(m)
     \/ ServerIgnore(m)
  /\ toServer' \in TakeFrom(toServer, m)
  /\ UNCHANGED <<clientVars, faults>>

(* The delta of a connected client goes to IStateManager::DeltaParse.      *)
ParseLast(entry) ==
  [entry EXCEPT !.conn = Taken(@),
                !.lastAcked = IF IsDelta(entry.conn.last)
                              THEN entry.conn.last.seq ELSE @]

(* PrivateProcessIncomming after its loop: failed connections are dropped, *)
(* the deltas of the connected ones parsed.                                *)
ServerSettle ==
  /\ turn # "send"
  /\ turn' = "send"
  /\ server' = [a \in { b \in DOMAIN server : ~HasFailed(server[b].conn) } |->
                  IF IsConnected(server[a].conn)
                  THEN ParseLast(server[a]) ELSE server[a]]
  /\ UNCHANGED <<clientVars, players, joined, drawn, toServer, toClient, faults>>

(* Mistake: the game is not asked.                                         *)
IsPlayerAnyway(c, playing) == TRUE

(* IStateManager::IsConnected                                              *)
IsPlayer(c, playing) == c.handle \in playing

(* What PrivateSendState does for one entry: a delta for a player, goodbye *)
(* to one the game no longer has, a poll of a connection not connected.    *)
EntrySent(entry, playing, seq) ==
  LET c    == entry.conn
      poll == Process(c, NoPacket, NoHandle)
  IN  CASE IsConnected(c) /\ IsPlayer(c, playing)
             -> [c |-> c,
                 out |-> { Delta(seq, entry.lastAcked, NoId, d) : d \in Payload }]
        [] IsConnected(c) /\ ~IsPlayer(c, playing)
             -> [c |-> DisconnectBecause(c, "Local"), out |-> {}]
        [] OTHER
             -> [c |-> poll.c, out |-> {poll.out}]

(* PrivateSendState on the given entries.                                  *)
SendStateOf(entries, playing, seq) ==
  LET sent == [a \in DOMAIN entries |-> EntrySent(entries[a], playing, seq)]
  IN  /\ server' = [a \in DOMAIN entries |-> [entries[a] EXCEPT !.conn = sent[a].c]]
      /\ toClient' = toClient \cup
           UNION { Datagrams(a, sent[a].out) : a \in DOMAIN entries }

(* Connection::Disconnect also tells the game; it had no such player.      *)
ServerSend ==
  /\ turn = "send"
  /\ turn' = "process"
  /\ \E seq \in SendSeq : SendStateOf(server, players, seq)
  /\ UNCHANGED <<clientVars, players, joined, drawn, toServer, faults>>

(* The game drops a player: PrivateSendState finds it not connected.       *)
ServerDrops(h) ==
  /\ MayDrop
  /\ turn # "receiving"
  /\ players' = players \ {h}
  /\ UNCHANGED <<clientVars, server, turn, joined, drawn, toServer, toClient,
                 faults>>

(* The server is destroyed (Disconnect: connected clients are told that it *)
(* shuts down, by a last SendState) and a new one takes its place, without *)
(* connections and with a game without players.                            *)
ServerRestart ==
  /\ faults.restarts > 0
  /\ turn # "receiving"
  /\ faults' = [faults EXCEPT !.restarts = @ - 1]
  /\ toClient' = toClient \cup
       UNION { Datagrams(a, EntrySent(
                 IF IsConnected(server[a].conn)
                 THEN [server[a] EXCEPT !.conn = DisconnectBecause(@, "Local")]
                 ELSE server[a], {}, 0).out) : a \in DOMAIN server }
  /\ server' = << >>
  /\ players' = {}
  /\ turn' = "process"
  /\ UNCHANGED <<clientVars, joined, drawn, toServer>>

-----------------------------------------------------------------------------
LoseToServer(m) ==
  /\ toServer' = toServer \ {m}
  /\ UNCHANGED <<serverVars, clientVars, toClient, faults>>

LoseToClient(m) ==
  /\ toClient' = toClient \ {m}
  /\ UNCHANGED <<serverVars, clientVars, toServer, faults>>

(* A router in front of the client gives it another port.                  *)
Rebind(a, b) ==
  /\ faults.rebinds > 0
  /\ \A other \in Client : nat[other] # b
  /\ Host(b) = Host(nat[a])
  /\ nat' = [nat EXCEPT ![a] = b]
  /\ faults' = [faults EXCEPT !.rebinds = @ - 1]
  /\ UNCHANGED <<serverVars, client, sessions, toServer, toClient>>

Tick ==
  /\ client' = [a \in Client |-> [client[a] EXCEPT !.conn = Age(@)]]
  /\ server' = [a \in DOMAIN server |-> [server[a] EXCEPT !.conn = Age(@)]]
  /\ UNCHANGED <<turn, players, joined, drawn, nat, sessions, toServer, toClient,
                 faults>>

ClientNext(a) ==
  \/ ClientConnect(a)
  \/ ClientDisconnect(a)
  \/ \E m \in toClient : ClientReceive(a, m)
  \/ ClientSettle(a)
  \/ ClientSend(a)
  \/ ClientQuits(a)

ServerNext ==
  \/ \E m \in toServer : ServerReceive(m)
  \/ ServerSettle
  \/ ServerSend
  \/ \E h \in players : ServerDrops(h)
  \/ ServerRestart

NetworkNext ==
  \/ \E m \in toServer : LoseToServer(m)
  \/ \E m \in toClient : LoseToClient(m)
  \/ \E a \in Client, b \in Address : Rebind(a, b)

Next ==
  \/ \E a \in Client : ClientNext(a)
  \/ ServerNext
  \/ NetworkNext
  \/ Tick

Spec == Init /\ [][Next]_vars

(* Every game loop goes round and the clock keeps running.  Nothing is     *)
(* promised about the network.                                             *)
FairSpec ==
  /\ Spec
  /\ \A a \in Client : WF_vars(ClientSettle(a)) /\ WF_vars(ClientSend(a))
  /\ WF_vars(ServerSettle)
  /\ WF_vars(ServerSend)
  /\ WF_vars(Tick)

-----------------------------------------------------------------------------
EntryType(entry) ==
  /\ entry.conn.state \in States
  /\ entry.conn.key \in Key
  /\ entry.conn.count \in 0 .. FloodTrigger
  /\ entry.conn.age \in 0 .. MaxAge
  /\ entry.conn.handle \in StateHandle \cup {NoHandle}
  /\ entry.lastAcked \in Sequence

(* Every variable has its type, and a server entry is never Idle and never *)
(* in a state of the client's handshake.                                   *)
TypeOK ==
  /\ nat \in [Client -> Address]
  /\ \A a \in Client :
       /\ client[a].conn.state \in States \ {"Listening", "ConnectedToClient"}
       /\ client[a].conn.key \in Keys
       /\ client[a].conn.count \in 0 .. HandshakeRetries + 1
       /\ client[a].conn.age \in 0 .. MaxAge
       /\ client[a].enabled \in BOOLEAN
       /\ client[a].processed \in Sequence
       /\ client[a].local \subseteq StateHandle
       /\ client[a].turn \in Turns
  /\ DOMAIN server \subseteq Address
  /\ \A a \in DOMAIN server :
       /\ EntryType(server[a])
       /\ server[a].conn.state \in {"Listening", "ConnectedToClient",
                                    "Disconnecting", "FailedConnection"}
  /\ turn \in Turns
  /\ players \subseteq joined
  /\ joined \subseteq drawn
  /\ drawn \subseteq Key
  /\ \A m \in toServer \cup toClient :
       m.address \in Address /\ m.packet \in Packet \ {NoPacket}

ClientConnected(a) == client[a].conn.state = "ConnectedToServer"
ServerConnected(a) ==
  /\ nat[a] \in DOMAIN server
  /\ server[nat[a]].conn.state = "ConnectedToClient"

(* A client that believes it is connected is a player the server's game    *)
(* was told about: ConnectResponse carries no key (PacketCommand, not      *)
(* PacketCommandWithKey), so this rests on who can send one, and when.     *)
ConnectedClientIsKnown ==
  \A a \in Client : ClientConnected(a) => client[a].conn.key \in joined

(* When a client is connected and so is the server's connection at its     *)
(* address, both hold the same key, so each can read the other's deltas    *)
(* and believes the other's Disconnect.                                    *)
KeysAgree ==
  \A a \in Client : ClientConnected(a) /\ ServerConnected(a)
                       => client[a].conn.key = server[nat[a]].conn.key

(* Two of the server's connections are never for the same player, however  *)
(* connections move between addresses.                                     *)
PlayersDistinct ==
  \A a, b \in DOMAIN server :
    server[a].conn.handle = server[b].conn.handle
      => a = b \/ server[a].conn.handle = NoHandle

(* However many datagrams are lost, repeated or late, and however often    *)
(* the server times the client's connection out and makes a new one, the   *)
(* game sees at most one player for each time a client called Connect.     *)
OnePlayerPerSession ==
  ExistsInjection(joined, UNION { {a} \X (1 .. sessions[a]) : a \in Client })

(* A handshake ends for the client, in success or failure, whatever the    *)
(* network loses and whether or not the server is there.                   *)
HandshakeResolves ==
  \A a \in Client :
    client[a].conn.state \in {"Challenging", "Connecting"}
      ~> client[a].conn.state \notin {"Challenging", "Connecting"}

(* A connection the server keeps for a client that never becomes connected *)
(* does not stay for ever.                                                 *)
ListeningEnds ==
  \A a \in Address : \A key \in Key :
    LET Waits == /\ a \in DOMAIN server
                 /\ server[a].conn.key = key
                 /\ server[a].conn.state = "Listening"
    IN  Waits ~> ~Waits

(* A player the game drops loses its connection: PrivateSendState finds it *)
(* gone, says Disconnect and the next ProcessIncomming erases the entry.   *)
DroppedPlayersLeave ==
  \A a \in Address : \A h \in StateHandle :
    LET Stays == /\ a \in DOMAIN server
                 /\ server[a].conn.handle = h
                 /\ IsConnected(server[a].conn)
    IN  (Stays /\ h \notin players) ~> ~Stays

(* A client whose port changed goes on: the delta that made the server     *)
(* move its connection is processed by that connection                     *)
(* (NetworkManagerServerGuts.cpp:132, "Process the data.").                *)
MovedDeltaIsRead ==
  [][\A m \in toServer \ toServer' :
       IsDelta(m.packet) /\ m.address \in DOMAIN server' \ DOMAIN server
         => \A b \in Movers(m) :
              b \notin DOMAIN server' /\ IsNewDelta(server[b].conn, m.packet)
                => server'[m.address].conn.received = m.packet.seq]_vars

(* A player whose connection is gone does not stay in the game             *)
(* (NetworkManagerServerGuts.cpp:181, "Disconnections are handled in       *)
(* privatesendstate by testing myStateManager.IsConnected()."): one of the *)
(* two learns from the other that it ended.                                *)
LostPlayersLeave ==
  \A h \in StateHandle :
    LET Kept == \E a \in DOMAIN server : server[a].conn.handle = h
    IN  (h \in players /\ ~Kept) ~> (h \notin players \/ Kept)

=============================================================================
