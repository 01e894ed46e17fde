----------------------------- MODULE DeltaStream -----------------------------
(***************************************************************************)
(* The game data of one connection, both ways: IStateManager::DeltaCreate, *)
(* the distance test, fragmenting, the network, Connection::Process with   *)
(* its fragment buffer, IStateManager::DeltaParse and the sequence it      *)
(* returns, which travels back as an ack and is the base of a later delta. *)
(*                                                                         *)
(* States of the two games are numbered by integers (tick on the server,   *)
(* frame on the client); a datagram carries Wrap of the number.  The       *)
(* payload of a delta is the record [n, base, distance, acked]: the number *)
(* of the state, the number of the state it was coded against, the         *)
(* distance byte of the packet, and the number its ack stands for.         *)
(*                                                                         *)
(* The handshake is over for the client, and the server waits for the      *)
(* first delta: the last states of ClientServer's handshake.  Encryption   *)
(* and Huffman coding only change how a payload looks on the wire.         *)
(***************************************************************************)
EXTENDS Connection, Functions

CONSTANTS
  FirstTick,    \* the server's state when the client connects
  FirstFrame,   \* the client's state then
  MaxFrame,     \* bound: how far the client's game gets
  MaxDistance,  \* PacketDelta::MaximumDeltaDistance(), 255
  MaxInFlight,  \* bound: datagrams on the way, in each direction
  Lifetime,     \* a datagram arrives before Lifetime newer states, or never
  RoundTrip,    \* a state is acked before RoundTrip newer ones
  Streams       \* a behaviour has one of them: into how many datagrams a
                \* delta may be cut (pieces), whether datagrams may repeat
                \* (duplicates), and bounds, on how far the server's game
                \* gets (maxTick) and on the fragment buffer (maxParts)

(* What the payload of a delta can hold, in a stream with these bounds.    *)
Contents(last, lastAcked) ==
  [n : 0 .. last, base : 0 .. last, distance : 0 .. MaxDistance,
   acked : 0 .. lastAcked]

(* Sequences wrap, so the transport works only if nothing is late by half  *)
(* the sequence numbers: 16384 states, thirteen minutes at 20 per second.  *)
(* Nothing in the code ends a connection that is silent for longer, so     *)
(* that it is not is assumed here.                                         *)
ASSUME DeltaStreamAssumption ==
  /\ Key # {} /\ StateHandle # {}
  /\ 0 \in ConnectionId
  /\ FirstTick \in Nat \ {0}
  /\ FirstFrame \in Nat \ {0}
  /\ MaxFrame \in Nat
  /\ FirstFrame <= MaxFrame
  /\ MaxDistance \in Nat
  /\ MaxInFlight \in Nat
  /\ Lifetime \in 1 .. Half
  /\ RoundTrip \in 2 .. Half
  /\ \A s \in Streams :
       /\ s.pieces \subseteq 1 .. MaxPieces
       /\ s.duplicates \in BOOLEAN
       /\ s.maxTick \in Nat
       /\ FirstTick <= s.maxTick
       /\ s.maxParts \in Nat
       /\ Contents(s.maxTick, MaxFrame) \subseteq Payload
       /\ Contents(MaxFrame, s.maxTick) \subseteq Payload

VARIABLES
  stream,    \* which of Streams
  tick,      \* the state of the server's game
  frame,     \* the state of the client's game
  server,    \* [conn, lastAcked], the server's entry for the client
  client,    \* [conn, processed], the client's manager
  sent,      \* the server has sent this tick
  toClient,  \* datagrams on the way
  toServer,
  seen,      \* history: the ticks given to the client's DeltaParse, in order
  heard,     \* history: the frames given to the server's DeltaParse, in order
  arrived,   \* history: the pieces of the newest tick that reached Process
  acked      \* history: the numbers the acks in the two connections stand for

serverVars == <<stream, tick, server, sent, heard>>
clientVars == <<frame, client, seen, arrived>>
vars == <<serverVars, clientVars, toClient, toServer, acked>>

Handle == CHOOSE h \in StateHandle : TRUE
SharedKey == CHOOSE key \in Key : TRUE

(* What DeltaParse makes of bytes that are no delta against a state held.  *)
Garbled == -1

Newest(held, first) == Max(Range(held) \cup {first - 1})

Init ==
  /\ stream \in Streams
  /\ tick = FirstTick
  /\ frame = FirstFrame
  /\ server = [conn |-> [StartServer(NewConnection, SharedKey)
                           EXCEPT !.handle = Handle],
               lastAcked |-> 0]
  /\ client = [conn |-> [StartClient(NewConnection)
                           EXCEPT !.key = SharedKey, !.handle = Handle,
                                  !.state = "ConnectedToServer"],
               processed |-> 0]
  /\ sent = FALSE
  /\ toClient = {}
  /\ toServer = {}
  /\ seen = << >>
  /\ heard = << >>
  /\ arrived = [n |-> FirstTick - 1, indexes |-> {}, last |-> 0]
  /\ acked = [tick |-> FirstTick - 1, frame |-> FirstFrame - 1]

-----------------------------------------------------------------------------
(* The games, behind IStateManager.                                        *)

(* The newest state number, of those up to n, whose sequence is seq.       *)
Recent(n, seq) == n - Minus(Wrap(n), seq)

(* DeltaCreate codes the newest state against the acked one, if that is    *)
(* one the peer can have had, or against nothing, which it says by naming  *)
(* the state itself as the base.                                           *)
Bases(n, ack, first) ==
  IF ack = NoAck
  THEN {n}
  ELSE {n} \cup { base \in {Recent(n, ack)} : base >= first }

(* DeltaParse: the state a delta brings, when its base byte leads to the   *)
(* state it was coded against and the game has it.                         *)
Parsed(delta, held) ==
  IF /\ delta.data # Stitched
     /\ delta.data.n - delta.data.distance = delta.data.base
     /\ delta.data.base \in Range(held) \cup {delta.data.n}
  THEN delta.data.n
  ELSE Garbled

-----------------------------------------------------------------------------
(* Sending.                                                                *)

(* Mistake: the distance is not compared with what its byte can hold.      *)
AnyDistance(distance) == TRUE

(* Too far a base: logged, not sent.                                       *)
Sendable(distance) == distance <= MaxDistance

(* PacketDelta from a Delta; the distance is cut to its byte.              *)
DeltaFor(n, base, ack, acking, id) ==
  Delta(Wrap(n), ack, id,
        [n |-> n, base |-> base, acked |-> acking,
         distance |-> Minus(Wrap(n), Wrap(base)) % (MaxDistance + 1)])

(* DeltaCreate and the packet made of it, or none.                         *)
Deltas(n, ackOfPeer, first, ack, acking, id) ==
  { DeltaFor(n, base, ack, acking, id) :
      base \in { b \in Bases(n, ackOfPeer, first) :
                   Sendable(Minus(Wrap(n), Wrap(b))) } }

(* PrivateSendState of the server, once for each state of its game.        *)
ServerSend ==
  /\ ~sent
  /\ IsConnected(server.conn)
  /\ server.conn.last = NoPacket
  /\ sent' = TRUE
  /\ \E delta \in Deltas(tick, server.conn.ack, FirstTick, server.lastAcked,
                         Newest(heard, FirstFrame), NoId),
        pieces \in stream.pieces :
       toClient' = toClient \cup FragmentPacket(delta, pieces)
  /\ Cardinality(toClient') <= MaxInFlight
  /\ UNCHANGED <<stream, tick, server, heard, clientVars, toServer, acked>>

(* Mistake: what the fragment buffer works on is acked, not what the game  *)
(* has taken.                                                              *)
AckOfFragments(manager) == manager.conn.fragments.current

Ack(manager) == manager.processed

(* PrivateSendState of the client (DeltaSend), and its game's next state.  *)
ClientSend ==
  /\ frame < MaxFrame
  /\ frame + 1 - acked.frame < RoundTrip
  /\ client.conn.last = NoPacket
  /\ frame' = frame + 1
  /\ \E delta \in Deltas(frame', client.conn.ack, FirstFrame, Ack(client),
                         Newest(seen, FirstTick), 0) :
       toServer' = { d \in toServer : frame' - d.data.n < Lifetime } \cup {delta}
  /\ Cardinality(toServer') <= MaxInFlight
  /\ UNCHANGED <<serverVars, client, seen, arrived, toClient, acked>>

(* The server's game moves on; what is too old by now was lost.            *)
NumberOf(p) == IF IsFragment(p) THEN p.whole.data.n ELSE p.data.n

Tick ==
  /\ tick < stream.maxTick
  /\ tick + 1 - acked.tick < RoundTrip
  /\ tick' = tick + 1
  /\ sent' = FALSE
  /\ toClient' = { p \in toClient : tick' - NumberOf(p) < Lifetime }
  /\ UNCHANGED <<stream, server, heard, clientVars, toServer, acked>>

-----------------------------------------------------------------------------
(* Receiving.                                                              *)

TakeFrom(network, p) ==
  IF stream.duplicates THEN {network, network \ {p}} ELSE {network \ {p}}

(* Which pieces of the newest tick that has arrived are there.             *)
Arrive(p) ==
  LET n     == NumberOf(p)
      index == IF IsFragment(p) THEN p.index ELSE 0
      base  == IF n = arrived.n THEN arrived
               ELSE [n |-> n, indexes |-> {}, last |-> Max(stream.pieces)]
  IN  IF n < arrived.n THEN arrived
      ELSE [base EXCEPT !.indexes = @ \cup {index},
                        !.last = IF ~IsFragment(p) \/ p.last THEN index ELSE @]

(* What the ack of a delta stands for; a stitched one has that of its      *)
(* first piece, which says nothing.                                        *)
AckOf(delta, before) == IF delta.data = Stitched THEN before ELSE delta.data.acked

ClientReceive(p) ==
  /\ Len(client.conn.fragments.parts) < stream.maxParts
  /\ client' = [client EXCEPT !.conn = Process(@, p, NoHandle).c]
  /\ arrived' = Arrive(p)
  /\ acked' = IF client'.conn.last # client.conn.last
              THEN [acked EXCEPT !.frame = AckOf(client'.conn.last, @)]
              ELSE acked
  /\ toClient' \in TakeFrom(toClient, p)
  /\ UNCHANGED <<serverVars, frame, seen, toServer>>

(* PrivateProcessIncomming after its loop: DeltaReceive.                   *)
ClientSettle ==
  LET delta == client.conn.last
      wanted == IsDelta(delta) /\ Greater(delta.seq, client.processed)
  IN  /\ delta # NoPacket
      /\ client' = [conn |-> Taken(client.conn),
                    processed |-> IF wanted THEN delta.seq ELSE client.processed]
      /\ seen' = IF wanted THEN Append(seen, Parsed(delta, seen)) ELSE seen
      /\ UNCHANGED <<serverVars, frame, arrived, toClient, toServer, acked>>

ServerReceive(p) ==
  /\ server' = [server EXCEPT !.conn = Process(@, p, NoHandle).c]
  /\ acked' = IF server'.conn.last # server.conn.last
              THEN [acked EXCEPT !.tick = p.data.acked] ELSE acked
  /\ toServer' \in TakeFrom(toServer, p)
  /\ UNCHANGED <<stream, tick, sent, heard, clientVars, toClient>>

(* The same of the server; the sequence is not compared again.             *)
ServerSettle ==
  LET delta == server.conn.last
  IN  /\ IsConnected(server.conn)
      /\ delta # NoPacket
      /\ server' = [conn |-> Taken(server.conn), lastAcked |-> delta.seq]
      /\ heard' = Append(heard, Parsed(delta, heard))
      /\ UNCHANGED <<stream, tick, sent, clientVars, toClient, toServer, acked>>

LoseToClient(p) ==
  /\ toClient' = toClient \ {p}
  /\ UNCHANGED <<serverVars, clientVars, toServer, acked>>

LoseToServer(p) ==
  /\ toServer' = toServer \ {p}
  /\ UNCHANGED <<serverVars, clientVars, toClient, acked>>

Next ==
  \/ Tick
  \/ ServerSend
  \/ ServerSettle
  \/ ClientSend
  \/ ClientSettle
  \/ \E p \in toClient : ClientReceive(p) \/ LoseToClient(p)
  \/ \E p \in toServer : ServerReceive(p) \/ LoseToServer(p)

Spec == Init /\ [][Next]_vars

-----------------------------------------------------------------------------
(* What the code does not ensure, and keeping the promise needs.           *)

(* Before a game has taken a delta it acks the sequence zero, which is     *)
(* nothing's only if no state within the first round trip has it.          *)
ZeroIsOld == \A n \in FirstTick .. FirstTick + RoundTrip - 2 : Wrap(n) # 0

(* A new connection has taken the sequence zero, so that it hears a state  *)
(* of the first round trip only if that is newer than zero.                *)
FirstIsHeard ==
  \A n \in FirstTick .. FirstTick + RoundTrip - 2 : Greater(Wrap(n), 0)

(* The fragment buffer forgets no old pieces while deltas arrive whole, so *)
(* either all deltas are cut, or none, or the sequence does not go half    *)
(* way round.                                                              *)
CutAlike ==
  \A s \in Streams :
    \/ s.maxTick - FirstTick < Half
    \/ 1 \notin s.pieces
    \/ s.pieces = {1}

-----------------------------------------------------------------------------
(* Numbers of states stay in their bounds and nothing is in a connection   *)
(* or on the way that is not a delta or a piece of one; neither connection *)
(* is ever lost to the other's data.                                       *)
TypeOK ==
  /\ tick \in FirstTick .. stream.maxTick
  /\ frame \in FirstFrame .. MaxFrame
  /\ server.conn.state \in {"Listening", "ConnectedToClient"}
  /\ client.conn.state = "ConnectedToServer"
  /\ server.lastAcked \in Sequence
  /\ client.processed \in Sequence
  /\ sent \in BOOLEAN
  /\ \A p \in toServer : p \in DeltaPackets
  /\ \A p \in toClient : p \in DeltaPackets \cup FragmentPackets

Downstream == INSTANCE LatestDelivery
                WITH First <- FirstTick, newest <- tick, held <- seen
Upstream == INSTANCE LatestDelivery
              WITH First <- FirstFrame, newest <- frame, held <- heard

(* The client's game is handed ticks of the server's game, each newer than *)
(* all before, each decoded against a tick it holds, whatever is lost,     *)
(* repeated, reordered or cut in pieces, while sequences wrap.             *)
DownstreamDelivers == Downstream!Spec

(* The same for the client's frames and the server's game.                 *)
UpstreamDelivers == Upstream!Spec

(* The sequence the server's game is told was acked is one the client's    *)
(* game was handed (or none of this connection), and the same upstream:    *)
(* else a delta is coded against a state the other side does not have.     *)
AcksAreTrue ==
  /\ server.conn.ack # NoAck
       => Recent(tick, server.conn.ack) \in Range(seen) \cup 0 .. FirstTick - 1
  /\ client.conn.ack # NoAck
       => Recent(frame, client.conn.ack) \in Range(heard) \cup 0 .. FirstFrame - 1

(* Unless datagrams are repeated: once every piece of the newest tick that *)
(* has arrived at all is there, that tick is what the connection has taken *)
(* ("returns the most recent complete packet",                             *)
(* PacketFragmentManager.hpp:47-48).                                       *)
MostRecentComplete ==
  (/\ ~stream.duplicates
   /\ arrived.n >= FirstTick
   /\ 0 .. arrived.last \subseteq arrived.indexes)
    => client.conn.received = Wrap(arrived.n)

=============================================================================
