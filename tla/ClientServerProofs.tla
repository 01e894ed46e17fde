------------------------- MODULE ClientServerProofs -------------------------
(***************************************************************************)
(* Invariants of a server and its clients, for every number of them, every *)
(* set of keys, every number of retries and every fault model: datagrams   *)
(* lost, repeated and reordered, servers that restart, ports that change.  *)
(***************************************************************************)
EXTENDS ClientServer, ConnectionProofs

(* A client manager between calls.  Sound is about its connection alone;   *)
(* a client has a key exactly from the server's first answer on.           *)
ClientType ==
  [conn : ConnectionType, enabled : BOOLEAN, processed : Sequence,
   local : SUBSET StateHandle, turn : Turns]

ClientOK(k) ==
  /\ k \in ClientType
  /\ Sound(k.conn)
  /\ k.conn.state \in ClientStates
  /\ k.conn.count <= HandshakeRetries + 1
  /\ k.conn.state = "Challenging" => k.conn.key = NilKey
  /\ k.conn.state = "Connecting" => k.conn.key \in Key

(* A server's entry, given the handles the game gave out and the keys that *)
(* were drawn: the only handle it can have is the one named after its key. *)
Entry == [conn : ConnectionType, lastAcked : Sequence]

EntryOK(e, known, keys) ==
  /\ e \in Entry
  /\ Sound(e.conn)
  /\ e.conn.state \in ServerStates
  /\ e.conn.key \in keys
  /\ e.conn.handle \in {NoHandle, e.conn.key}
  /\ e.conn.handle # NoHandle => e.conn.handle \in known

(* A datagram under way.                                                   *)
UnderWay == [address : Address, packet : Packet \ {NoPacket}]

ClientsInv ==
  /\ client \in [Client -> ClientType]
  /\ \A a \in Client : ClientOK(client[a])
  /\ nat \in [Client -> Address]
  /\ sessions \in [Client -> Nat]
  /\ toServer \subseteq UnderWay

ServerInv ==
  /\ server \in [DOMAIN server -> Entry]
  /\ DOMAIN server \subseteq Address
  /\ \A x \in DOMAIN server : EntryOK(server[x], joined, drawn)
  /\ \A x, y \in DOMAIN server :
       server[x].conn.key = server[y].conn.key => x = y
  /\ players \subseteq joined
  /\ joined \subseteq drawn
  /\ drawn \subseteq Key
  /\ turn \in Turns
  /\ toClient \subseteq UnderWay

-----------------------------------------------------------------------------
(* The client manager.                                                     *)

(* Keys name handles, and NoHandle is neither.                             *)
LEMMA KeysAreHandles ==
  /\ Key \subseteq StateHandle
  /\ NoHandle \notin Key
  /\ NilKey \notin Key
  /\ NoHandle \in Handles
  /\ Key \subseteq Handles
BY ConnectionAssumption, ClientServerAssumption, PacketsAssumption DEF Handles

(* What an operation of the manager makes of it and sends: a Connect only  *)
(* with the key it holds.                                                  *)
ClientResult(r) ==
  /\ ClientOK(r.k)
  /\ r.out \subseteq Packet
  /\ \A p \in r.out : p.cmd = "Connect" => p.key \in Key /\ p.key = r.k.conn.key

(* An operation that gives no key and starts and ends no handshake.        *)
Keeps(k, r) ==
  /\ r.k.conn.key = k.conn.key
  /\ r.k.conn.state \in {"Challenging", "ConnectedToServer"}
       => r.k.conn.state = k.conn.state

(* The manager calls Process of its connection.                            *)
LEMMA ClientProcess ==
  ASSUME NEW k, ClientOK(k), NEW p \in Packet,
         NEW h, h \in Handles \/ k.conn.state # "Connecting"
  PROVE  LET call == Process(k.conn, p, h)
             s    == [k EXCEPT !.conn = call.c]
         IN  /\ ClientOK(s)
             /\ s.conn = call.c
             /\ call.out \in Packet
             /\ call.out.cmd = "Connect"
                  => call.out.key \in Key /\ call.out.key = call.c.key
             /\ ClientCalled(k.conn, p, call)
             /\ call.asked => k.conn.state = "Connecting"
<1> DEFINE call == Process(k.conn, p, h)
           s    == [k EXCEPT !.conn = call.c]
<1>1. Sound(k.conn) /\ k.conn.state \in ClientStates /\ k \in ClientType
  BY DEF ClientOK
<1>2. StepOf(k.conn, h, call) \/ StepOf(k.conn, NoHandle, call)
  <2>1. CASE h \in Handles
    BY <1>1, <2>1, ProcessStep
  <2>2. CASE k.conn.state # "Connecting"
    <3>1. k.conn.state \notin {"Connecting", "Listening"}
      BY <1>1, <2>2 DEF ClientStates
    <3>2. call = Process(k.conn, p, NoHandle)
      BY <3>1, OfferUnused
    <3>3. StepOf(k.conn, NoHandle, Process(k.conn, p, NoHandle))
      BY <1>1, KeysAreHandles, ProcessStep
    <3> QED BY <3>2, <3>3
  <2> QED BY <2>1, <2>2
<1>3. ClientCalled(k.conn, p, call)
  <2>1. CASE h \in Handles
    BY <1>1, <2>1, ProcessClientCalled DEF ClientOK
  <2>2. CASE k.conn.state # "Connecting"
    <3>1. k.conn.state \notin {"Connecting", "Listening"}
      BY <1>1, <2>2 DEF ClientStates
    <3>2. call = Process(k.conn, p, NoHandle)
      BY <3>1, OfferUnused
    <3>3. ClientCalled(k.conn, p, Process(k.conn, p, NoHandle))
      BY <1>1, KeysAreHandles, ProcessClientCalled DEF ClientOK
    <3> QED BY <3>2, <3>3
  <2> QED BY <2>1, <2>2
<1>8. call.asked => k.conn.state = "Connecting"
  BY <1>1, OfferUnused DEF ClientStates
<1> HIDE DEF call
<1>4. /\ call.c \in ConnectionType /\ Sound(call.c) /\ call.out \in Packet
  BY <1>2 DEF StepOf, ResultType
<1>5. s \in ClientType /\ s.conn = call.c
  BY <1>1, <1>4 DEF ClientType
<1>6. ClientOK(s)
  BY <1>1, <1>3, <1>4, <1>5 DEF ClientOK, ClientCalled, Phase
<1>7. call.out.cmd = "Connect" => call.out.key \in Key /\ call.out.key = call.c.key
  BY <1>3, <1>5, <1>6 DEF ClientCalled, ClientOK
<1> QED BY <1>3, <1>4, <1>5, <1>6, <1>7, <1>8 DEF call

(* Setting members of the manager that its connection does not see.        *)
LEMMA ClientMembers ==
  ASSUME NEW k, ClientOK(k), NEW enabled \in BOOLEAN, NEW processed \in Sequence,
         NEW local \in SUBSET StateHandle, NEW next \in Turns
  PROVE  /\ ClientOK([k EXCEPT !.enabled = enabled])
         /\ ClientOK([k EXCEPT !.processed = processed])
         /\ ClientOK([k EXCEPT !.local = local])
         /\ ClientOK([k EXCEPT !.turn = next])
         /\ [k EXCEPT !.enabled = enabled].conn = k.conn
         /\ [k EXCEPT !.processed = processed].conn = k.conn
         /\ [k EXCEPT !.local = local].conn = k.conn
         /\ [k EXCEPT !.turn = next].conn = k.conn
BY DEF ClientOK, ClientType

(* Another connection for the manager.                                     *)
LEMMA ClientConnection ==
  ASSUME NEW k, ClientOK(k), NEW c, Sound(c), c.state \in ClientStates,
         c.count <= HandshakeRetries + 1,
         c.state = "Challenging" => c.key = NilKey,
         c.state = "Connecting" => c.key \in Key
  PROVE  /\ ClientOK([k EXCEPT !.conn = c])
         /\ [k EXCEPT !.conn = c].conn = c
BY DEF ClientOK, ClientType, Sound

(* Fail.                                                                   *)
LEMMA ClientFailResult ==
  ASSUME NEW k, ClientOK(k), NEW s \in Reasons, s = "Remote" => k.conn.key \in Key
  PROVE  ClientResult(ClientFail(k, s)) /\ Keeps(k, ClientFail(k, s))
<1> DEFINE d == DisconnectBecause(k.conn, s)
           local == k.local \ DisconnectedHandles(k.conn)
           held == [k EXCEPT !.conn = d]
           gone == [held EXCEPT !.local = local]
           last == Process(gone.conn, NoPacket, NoHandle)
           over == [gone EXCEPT !.conn = last.c]
           shut == [over EXCEPT !.enabled = FALSE]
<1>1. k.conn \in ConnectionType /\ k \in ClientType
  BY DEF ClientOK, ClientType
<1>2. /\ Sound(d) /\ d.state = "Disconnecting" /\ d.key = k.conn.key
      /\ d.count = 0
  BY <1>1, DisconnectSound
<1>3. 0 <= HandshakeRetries + 1
  BY ConnectionAssumption
<1> HIDE DEF d
<1>4. ClientOK(held) /\ held.conn = d
  BY <1>2, <1>3, ClientConnection DEF ClientStates
<1>5. held.local = k.local /\ local \in SUBSET StateHandle
  BY <1>1 DEF ClientType
<1> HIDE DEF held, local
<1>6. ClientOK(gone) /\ gone.conn = d
  BY <1>4, <1>5, ClientMembers DEF ClientOK, ClientType
<1> HIDE DEF gone
<1>7. NoPacket \in Packet /\ NoHandle \in Handles
  BY PacketMembers, KeysAreHandles
<1>8. /\ ClientOK(over) /\ over.conn = last.c /\ last.out \in Packet
      /\ last.out.cmd = "Connect"
           => last.out.key \in Key /\ last.out.key = last.c.key
      /\ ClientCalled(gone.conn, NoPacket, last)
  BY <1>6, <1>7, ClientProcess
<1> HIDE DEF last, over
<1>9. ClientOK(shut) /\ shut.conn = last.c
  BY <1>8, ClientMembers DEF ClientOK, ClientType
<1>10. [k EXCEPT !.conn = d, !.local = @ \ DisconnectedHandles(k.conn)] = gone
  BY <1>1 DEF gone, held, local, ClientType
<1>11. [gone EXCEPT !.conn = last.c, !.enabled = FALSE] = shut
  BY <1>6 DEF shut, over, ClientOK, ClientType
<1> HIDE DEF shut
<1>12. CASE IsConnected(k.conn)
  <2> DEFINE out == Sends(gone, {last.out}).out
  <2>1. ClientFail(k, s) = [k |-> shut, out |-> out]
    BY <1>10, <1>11, <1>12 DEF ClientFail, d, last
  <2>2. out \subseteq {last.out}
    BY DEF Sends
  <2>3. /\ last.c.key = k.conn.key
        /\ last.c.state \notin {"Challenging", "ConnectedToServer"}
    BY <1>2, <1>6, <1>8 DEF ClientCalled, Phase
  <2> HIDE DEF out
  <2> QED BY <2>1, <2>2, <2>3, <1>8, <1>9 DEF ClientResult, Keeps
<1>13. CASE ~IsConnected(k.conn)
  <2>1. ClientFail(k, s) = [k |-> gone, out |-> {}]
    BY <1>10, <1>13 DEF ClientFail, d
  <2> QED BY <2>1, <1>2, <1>6 DEF ClientResult, Keeps
<1> QED BY <1>12, <1>13

(* Sending something, or not because the socket is closed.                 *)
LEMMA SendsResult ==
  ASSUME NEW k, ClientOK(k), NEW out, out \subseteq Packet,
         \A p \in out : p.cmd = "Connect" => p.key \in Key /\ p.key = k.conn.key
  PROVE  ClientResult(Sends(k, out)) /\ Sends(k, out).k = k
BY DEF ClientResult, Sends

(* PrivateProcessIncomming after its loop.                                 *)
LEMMA ClientSettledResult ==
  ASSUME NEW k, ClientOK(k)
  PROVE  ClientResult(ClientSettled(k)) /\ Keeps(k, ClientSettled(k))
<1>1. k \in ClientType /\ Sound(k.conn) /\ k.conn \in ConnectionType
  BY DEF ClientOK, ClientType
<1>2. CASE IsConnected(k.conn)
  <2> DEFINE taken == [k EXCEPT !.conn = Taken(k.conn)]
             delta == k.conn.last
             processed == IF IsDelta(delta) /\ Greater(delta.seq, k.processed)
                          THEN delta.seq ELSE k.processed
             d == [taken EXCEPT !.processed = processed]
  <2>1. /\ Sound(Taken(k.conn)) /\ Taken(k.conn).state = k.conn.state
        /\ Taken(k.conn).count = k.conn.count /\ Taken(k.conn).key = k.conn.key
    BY <1>1, TakenSound
  <2>2. ClientOK(taken) /\ taken.conn = Taken(k.conn)
    BY <2>1, ClientConnection DEF ClientOK
  <2>3. processed \in Sequence
    <3>1. k.processed \in Sequence /\ delta \in DeltaPackets \cup {NoPacket}
      BY <1>1 DEF ClientType, ConnectionType
    <3>2. IsDelta(delta) => delta.seq \in Sequence
      BY <3>1 DEF IsDelta, NoPacket, DeltaPackets
    <3> QED BY <3>1, <3>2
  <2>4. DeltaReceive(k) = d
    BY <1>1 DEF DeltaReceive, ClientType
  <2> HIDE DEF taken, processed
  <2>5. ClientOK(d) /\ d.conn = taken.conn
    BY <2>2, <2>3, ClientMembers DEF ClientOK, ClientType
  <2> HIDE DEF d
  <2>6. ClientResult(Sends(d, {})) /\ Sends(d, {}).k = d
    BY <2>5, SendsResult
  <2>7. ClientSettled(k) = Sends(d, {})
    BY <1>2, <2>4 DEF ClientSettled, IsConnected, HasFailed
  <2> QED BY <2>1, <2>2, <2>5, <2>6, <2>7 DEF Keeps
<1>3. CASE ~IsConnected(k.conn) /\ HasFailed(k.conn)
  <2>1. ClientSettled(k) = ClientFail(k, k.conn.reason)
    BY <1>3 DEF ClientSettled, IsConnected, HasFailed
  <2>2. k.conn.reason \in Reasons /\ (k.conn.reason = "Remote" => k.conn.key \in Key)
    BY <1>1 DEF Sound, ConnectionType
  <2> QED BY <2>1, <2>2, ClientFailResult
<1>4. CASE ~IsConnected(k.conn) /\ ~HasFailed(k.conn)
  <2>1. ClientSettled(k) = Sends(k, {})
    BY <1>4 DEF ClientSettled
  <2> QED BY <2>1, SendsResult DEF Keeps
<1> QED BY <1>2, <1>3, <1>4

(* PrivateSendState.                                                       *)
LEMMA ClientSendStateResult ==
  ASSUME NEW k, ClientOK(k), NEW seq \in SendSeq
  PROVE  /\ ClientResult(ClientSendState(k, seq))
         /\ Keeps(k, ClientSendState(k, seq))
<1>1. k \in ClientType /\ "Local" \in Reasons
  BY DEF ClientOK, Reasons
<1>2. CASE IsConnected(k.conn) /\ k.conn.handle \in k.local
  <2> DEFINE out == { Delta(seq, k.processed, 0, d) : d \in Payload }
  <2>1. \A d \in Payload : Delta(seq, k.processed, 0, d) \in DeltaPackets
    BY <1>1, ClientServerAssumption DEF Delta, DeltaPackets, ClientType
  <2>2. \A p \in out : p \in Packet /\ p.cmd = "Delta"
    BY <2>1 DEF Packet, DeltaPackets
  <2>3. ClientSendState(k, seq) = Sends(k, out)
    BY <1>2 DEF ClientSendState
  <2> HIDE DEF out
  <2> QED BY <2>2, <2>3, SendsResult DEF Keeps
<1>3. CASE IsConnected(k.conn) /\ k.conn.handle \notin k.local
  <2>1. ClientSendState(k, seq) = ClientFail(k, "Local")
    BY <1>3 DEF ClientSendState
  <2> QED BY <1>1, <2>1, ClientFailResult
<1>4. CASE ~IsConnected(k.conn) /\ k.enabled
  <2> DEFINE poll == Process(k.conn, NoPacket, NoHandle)
             polled == [k EXCEPT !.conn = poll.c]
  <2>1. NoPacket \in Packet /\ NoHandle \in Handles
    BY PacketMembers, KeysAreHandles
  <2>2. /\ ClientOK(polled) /\ polled.conn = poll.c /\ poll.out \in Packet
        /\ poll.out.cmd = "Connect"
             => poll.out.key \in Key /\ poll.out.key = poll.c.key
        /\ ClientCalled(k.conn, NoPacket, poll)
    BY <2>1, ClientProcess
  <2>3. ClientSendState(k, seq) = Sends(polled, {poll.out})
    BY <1>4 DEF ClientSendState
  <2> HIDE DEF poll, polled
  <2>4. /\ ClientResult(Sends(polled, {poll.out}))
        /\ Sends(polled, {poll.out}).k = polled
    BY <2>2, SendsResult
  <2>5. /\ poll.c.key = k.conn.key
        /\ poll.c.state \in {"Challenging", "ConnectedToServer"}
             => poll.c.state = k.conn.state
    BY <2>2 DEF ClientCalled, NoPacket
  <2> QED BY <2>2, <2>3, <2>4, <2>5 DEF Keeps
<1>5. CASE ~IsConnected(k.conn) /\ ~k.enabled
  <2>1. ClientSendState(k, seq) = Sends(k, {})
    BY <1>5 DEF ClientSendState
  <2> QED BY <2>1, SendsResult DEF Keeps
<1> QED BY <1>2, <1>3, <1>4, <1>5

-----------------------------------------------------------------------------
(* The actions of a client.                                                *)

(* What one of them can do to the rest: say Connect with the client's key, *)
(* take datagrams; and keep its key, be given one by a ChallengeResponse,  *)
(* be accepted by a ConnectResponse, or begin a session without a key.     *)
ClientEffect(a) ==
  /\ ClientsInv'
  /\ \A b \in Client \ {a} : client'[b] = client[b]
  /\ \A m \in toServer' \ toServer :
       m.packet.cmd = "Connect"
         => /\ m.address = nat[a]
            /\ m.packet.key \in Key
            /\ m.packet.key = client'[a].conn.key
  /\ toClient' \subseteq toClient
  /\ UNCHANGED <<serverVars, nat>>
  /\ \/ /\ sessions' = sessions
        /\ client'[a].conn.key = client[a].conn.key
        /\ client'[a].conn.state \in {"Challenging", "ConnectedToServer"}
             => client'[a].conn.state = client[a].conn.state
     \/ /\ sessions' = sessions
        /\ client[a].conn.state = "Challenging"
        /\ client'[a].conn.state = "Connecting"
        /\ client'[a].conn.key \in Key
     \/ /\ sessions' = sessions
        /\ client'[a].conn.key = client[a].conn.key
        /\ client'[a].conn.state = "ConnectedToServer"
        /\ \E m \in toClient :
             m.address = nat[a] /\ m.packet.cmd = "ConnectResponse"
     \/ /\ sessions[a] < MaxSessions
        /\ sessions' = [sessions EXCEPT ![a] = @ + 1]
        /\ client'[a].conn.key = NilKey
        /\ client'[a].conn.state # "ConnectedToServer"

(* Storing the manager and sending what it says.                           *)
LEMMA ClientBecomesEffect ==
  ASSUME ClientsInv, NEW a \in Client, NEW r, ClientResult(r),
         NEW next \in Turns, ClientBecomes(a, r, next),
         nat' = nat, sessions' \in [Client -> Nat]
  PROVE  /\ ClientsInv'
         /\ \A b \in Client \ {a} : client'[b] = client[b]
         /\ client'[a].conn = r.k.conn
         /\ \A m \in toServer' \ toServer :
              m.packet.cmd = "Connect"
                => /\ m.address = nat[a]
                   /\ m.packet.key \in Key
                   /\ m.packet.key = client'[a].conn.key
<1> DEFINE k == [r.k EXCEPT !.turn = next]
<1>1. ClientOK(k) /\ k.conn = r.k.conn /\ k \in ClientType
  BY ClientMembers DEF ClientResult, ClientOK, ClientType
<1> HIDE DEF k
<1>2. client' = [client EXCEPT ![a] = k]
  BY DEF ClientBecomes, k
<1>3. /\ client' \in [Client -> ClientType] /\ client'[a] = k
      /\ \A b \in Client \ {a} : client'[b] = client[b]
  BY <1>1, <1>2 DEF ClientsInv
<1>4. \A m \in toServer' \ toServer :
        m \in UnderWay /\ m.address = nat[a] /\ m.packet \in r.out
  <2>1. toServer' = toServer \cup Datagrams(nat[a], r.out)
    BY DEF ClientBecomes
  <2>2. nat[a] \in Address
    BY DEF ClientsInv
  <2> QED BY <2>1, <2>2 DEF Datagrams, Datagram, UnderWay, ClientResult
<1>5. ClientsInv'
  BY <1>1, <1>3, <1>4 DEF ClientsInv
<1> QED BY <1>1, <1>3, <1>4, <1>5 DEF ClientResult

(* An operation that keeps key and phase, as an action.                    *)
LEMMA KeepsEffect ==
  ASSUME ClientsInv, NEW a \in Client, NEW k, NEW r, ClientResult(r), Keeps(k, r),
         k.conn.key = client[a].conn.key, k.conn.state = client[a].conn.state,
         NEW next \in Turns, ClientBecomes(a, r, next),
         UNCHANGED <<serverVars, nat, sessions, toClient>>
  PROVE  ClientEffect(a)
<1>1. sessions' \in [Client -> Nat]
  BY DEF ClientsInv
<1>2. /\ ClientsInv'
      /\ \A b \in Client \ {a} : client'[b] = client[b]
      /\ client'[a].conn = r.k.conn
      /\ \A m \in toServer' \ toServer :
           m.packet.cmd = "Connect"
             => /\ m.address = nat[a]
                /\ m.packet.key \in Key
                /\ m.packet.key = client'[a].conn.key
  BY <1>1, ClientBecomesEffect
<1> QED BY <1>2 DEF ClientEffect, Keeps

(* Connect: a new session.                                                 *)
LEMMA ClientConnectEffect ==
  ASSUME ClientsInv, NEW a \in Client, ClientConnect(a)
  PROVE  ClientEffect(a)
<1>1. PICK open \in ResetOutcomes, seq \in SendSeq :
        ClientBecomes(a,
          ClientSendState([client[a] EXCEPT !.enabled = open, !.processed = 0,
                                            !.conn = StartClient(@)], seq),
          client[a].turn)
  BY DEF ClientConnect
<1> DEFINE c == StartClient(client[a].conn)
           started == [client[a] EXCEPT !.conn = c]
           opened == [started EXCEPT !.enabled = open]
           k == [opened EXCEPT !.processed = 0]
           r == ClientSendState(k, seq)
<1>2. /\ ClientOK(client[a]) /\ client[a] \in ClientType
      /\ client[a].conn \in ConnectionType /\ client[a].turn \in Turns
  BY DEF ClientsInv, ClientType
<1>3. /\ Sound(c) /\ c.state = "Challenging" /\ c.key = NilKey /\ c.count = 0
  BY <1>2, StartSound
<1>4. 0 <= HandshakeRetries + 1
  BY ConnectionAssumption
<1>5. k = [client[a] EXCEPT !.enabled = open, !.processed = 0,
                            !.conn = StartClient(@)]
  BY <1>2 DEF ClientType
<1> HIDE DEF c
<1>6. ClientOK(started) /\ started.conn = c
  BY <1>2, <1>3, <1>4, ClientConnection DEF ClientStates
<1>7. open \in BOOLEAN
  BY DEF ResetOutcomes
<1> HIDE DEF started
<1>8. ClientOK(opened) /\ opened.conn = c
  BY <1>6, <1>7, ClientMembers DEF ClientOK, ClientType
<1> HIDE DEF opened
<1>9. ClientOK(k) /\ k.conn = c
  BY <1>8, SequenceHasZero, ClientMembers DEF ClientOK, ClientType
<1>10. ClientBecomes(a, r, client[a].turn)
  BY <1>1, <1>5
<1> HIDE DEF k
<1>11. ClientResult(r) /\ Keeps(k, r)
  BY <1>9, ClientSendStateResult
<1> HIDE DEF r
<1>12. /\ sessions[a] < MaxSessions /\ sessions' = [sessions EXCEPT ![a] = @ + 1]
       /\ sessions' \in [Client -> Nat]
       /\ UNCHANGED <<serverVars, nat, toClient>>
  BY DEF ClientConnect, ClientsInv
<1>13. /\ ClientsInv'
       /\ \A b \in Client \ {a} : client'[b] = client[b]
       /\ client'[a].conn = r.k.conn
       /\ \A m \in toServer' \ toServer :
            m.packet.cmd = "Connect"
              => /\ m.address = nat[a]
                 /\ m.packet.key \in Key
                 /\ m.packet.key = client'[a].conn.key
  BY <1>2, <1>10, <1>11, <1>12, ClientBecomesEffect
<1> QED BY <1>3, <1>9, <1>11, <1>12, <1>13 DEF ClientEffect, Keeps

(* One datagram in the loop of ProcessIncomming.                           *)
LEMMA ClientReceiveEffect ==
  ASSUME ClientsInv, ServerInv, NEW a \in Client, NEW m \in toClient,
         ClientReceive(a, m)
  PROVE  ClientEffect(a)
<1> DEFINE kk == client[a]
<1>1. PICK h \in Offers(kk.conn) :
        LET call == Process(kk.conn, m.packet, h)
            k    == [kk EXCEPT !.conn = call.c, !.local = @ \cup Given(call, h)]
        IN  ClientBecomes(a, Sends(k, {call.out}), "receiving")
  BY DEF ClientReceive
<1> DEFINE call == Process(kk.conn, m.packet, h)
           moved == [kk EXCEPT !.conn = call.c]
           local == kk.local \cup Given(call, h)
           k == [moved EXCEPT !.local = local]
           r == Sends(k, {call.out})
<1>2. /\ ClientOK(kk) /\ kk \in ClientType
  BY DEF ClientsInv
<1>3. m \in UnderWay /\ m.packet \in Packet
  BY DEF ServerInv, UnderWay
<1>4. h \in Handles \/ kk.conn.state # "Connecting"
  BY <1>2, KeysAreHandles DEF Offers, ClientOK
<1>5. ClientBecomes(a, r, "receiving")
  <2>1. k = [kk EXCEPT !.conn = call.c, !.local = @ \cup Given(call, h)]
    BY <1>2 DEF ClientType
  <2> QED BY <1>1, <2>1
<1> HIDE DEF kk
<1>6. /\ ClientOK(moved) /\ moved.conn = call.c /\ call.out \in Packet
      /\ call.out.cmd = "Connect"
           => call.out.key \in Key /\ call.out.key = call.c.key
      /\ ClientCalled(kk.conn, m.packet, call)
      /\ call.asked => kk.conn.state = "Connecting"
  BY <1>2, <1>3, <1>4, ClientProcess
<1> HIDE DEF call
<1>7. local \in SUBSET StateHandle
  BY <1>2, <1>4, <1>6 DEF Given, Handles, ClientType
<1> HIDE DEF moved, local
<1>8. ClientOK(k) /\ k.conn = call.c
  BY <1>6, <1>7, ClientMembers DEF ClientOK, ClientType
<1> HIDE DEF k
<1>9. ClientResult(r) /\ r.k = k
  BY <1>6, <1>8, SendsResult
<1> HIDE DEF r
<1>10. /\ sessions' = sessions /\ sessions' \in [Client -> Nat] /\ nat' = nat
       /\ UNCHANGED <<serverVars, nat>>
       /\ m.address = nat[a]
       /\ toClient' \subseteq toClient
  BY DEF ClientReceive, ClientsInv, TakeFrom
<1>11. /\ ClientsInv'
       /\ \A b \in Client \ {a} : client'[b] = client[b]
       /\ client'[a].conn = r.k.conn
       /\ \A n \in toServer' \ toServer :
            n.packet.cmd = "Connect"
              => /\ n.address = nat[a]
                 /\ n.packet.key \in Key
                 /\ n.packet.key = client'[a].conn.key
  BY <1>5, <1>9, <1>10, ClientBecomesEffect DEF Turns
<1>12. client'[a].conn = call.c
  BY <1>8, <1>9, <1>11
<1> QED BY <1>6, <1>10, <1>11, <1>12 DEF ClientEffect, ClientCalled, kk

(* The other actions keep the key and the phase.                           *)
LEMMA ClientNextEffect ==
  ASSUME ClientsInv, ServerInv, NEW a \in Client, ClientNext(a)
  PROVE  ClientEffect(a)
<1>1. /\ ClientOK(client[a]) /\ client[a] \in ClientType /\ "Local" \in Reasons
      /\ client[a].turn \in Turns
  BY DEF ClientsInv, Reasons, ClientType
<1>2. CASE ClientConnect(a)
  BY <1>2, ClientConnectEffect
<1>3. CASE ClientDisconnect(a)
  <2>1. /\ ClientBecomes(a, ClientFail(client[a], "Local"), client[a].turn)
        /\ UNCHANGED <<serverVars, nat, sessions, toClient>>
    BY <1>3 DEF ClientDisconnect
  <2>2. /\ ClientResult(ClientFail(client[a], "Local"))
        /\ Keeps(client[a], ClientFail(client[a], "Local"))
    BY <1>1, ClientFailResult
  <2> QED BY <1>1, <2>1, <2>2, KeepsEffect
<1>4. CASE \E m \in toClient : ClientReceive(a, m)
  BY <1>4, ClientReceiveEffect
<1>5. CASE ClientSettle(a)
  <2>1. /\ ClientBecomes(a, ClientSettled(client[a]), "send")
        /\ UNCHANGED <<serverVars, nat, sessions, toClient>>
    BY <1>5 DEF ClientSettle
  <2>2. /\ ClientResult(ClientSettled(client[a]))
        /\ Keeps(client[a], ClientSettled(client[a]))
    BY <1>1, ClientSettledResult
  <2> QED BY <2>1, <2>2, KeepsEffect DEF Turns
<1>6. CASE ClientSend(a)
  <2>1. PICK seq \in SendSeq :
          ClientBecomes(a, ClientSendState(client[a], seq), "process")
    BY <1>6 DEF ClientSend
  <2>2. UNCHANGED <<serverVars, nat, sessions, toClient>>
    BY <1>6 DEF ClientSend
  <2>3. /\ ClientResult(ClientSendState(client[a], seq))
        /\ Keeps(client[a], ClientSendState(client[a], seq))
    BY <1>1, ClientSendStateResult
  <2> QED BY <2>1, <2>2, <2>3, KeepsEffect DEF Turns
<1>7. CASE ClientQuits(a)
  <2> DEFINE k == [client[a] EXCEPT !.local = {}]
  <2>1. ClientOK(k) /\ k.conn = client[a].conn /\ k \in ClientType
    BY <1>1, ClientMembers DEF ClientOK, ClientType
  <2>2. /\ client' = [client EXCEPT ![a] = k]
        /\ UNCHANGED <<serverVars, nat, sessions, toServer, toClient>>
    BY <1>7 DEF ClientQuits, ClientsInv
  <2> HIDE DEF k
  <2>3. /\ client' \in [Client -> ClientType] /\ client'[a] = k
        /\ \A b \in Client \ {a} : client'[b] = client[b]
    BY <2>1, <2>2 DEF ClientsInv
  <2>4. ClientsInv'
    BY <2>1, <2>2, <2>3 DEF ClientsInv
  <2> QED BY <2>1, <2>2, <2>3, <2>4 DEF ClientEffect
<1> QED BY <1>2, <1>3, <1>4, <1>5, <1>6, <1>7 DEF ClientNext

-----------------------------------------------------------------------------
(* The server manager.                                                     *)

(* A key that may be admitted at an address: a Connect with it is on its   *)
(* way from the host, or a connection of the host has it and has a handle. *)
Licensed(x, key) ==
  \/ \E y \in DOMAIN server : /\ Host(y) = Host(x)
                              /\ server[y].conn.key = key
                              /\ server[y].conn.handle # NoHandle
  \/ \E m \in toServer : /\ Host(m.address) = Host(x)
                         /\ m.packet.cmd = "Connect"
                         /\ m.packet.key = key

(* What an action of the server can do to the rest: admit licensed keys    *)
(* and say ConnectResponse where one of them is.                           *)
ServerEffect ==
  /\ ServerInv'
  /\ joined \subseteq joined'
  /\ \A key \in joined' \ joined : \E x \in Address : Licensed(x, key)
  /\ \A x \in DOMAIN server' :
       server'[x].conn.handle # NoHandle
         => Licensed(x, server'[x].conn.key)
  /\ \A m \in toClient' \ toClient :
       m.packet.cmd = "ConnectResponse"
         => \E key \in joined' : Licensed(m.address, key)
  /\ toServer' \subseteq toServer
  /\ UNCHANGED clientVars

(* What a call of Process, with handle h on offer, makes of an entry: its  *)
(* key stays, and it takes a handle only from a Connect with that key.     *)
EntryResult(e, p, h, known, keys, call) ==
  /\ EntryOK([e EXCEPT !.conn = call.c], known \cup Given(call, h), keys)
  /\ call.c.key = e.conn.key
  /\ call.out \in Packet
  /\ Given(call, h) \subseteq {e.conn.key}
  /\ call.c.handle # NoHandle \/ Given(call, h) # {}
       => \/ e.conn.handle # NoHandle
          \/ p.cmd = "Connect" /\ p.key = e.conn.key
  /\ call.out.cmd = "ConnectResponse" => call.c.handle # NoHandle

(* An entry calls Process of its connection.                               *)
LEMMA EntryProcessOK ==
  ASSUME NEW known, NEW keys, keys \subseteq Key,
         NEW e, EntryOK(e, known, keys),
         NEW p \in Packet, NEW h, h = e.conn.key \/ h = NoHandle
  PROVE  EntryResult(e, p, h, known, keys, Process(e.conn, p, h))
<1> DEFINE call == Process(e.conn, p, h)
           s    == [e EXCEPT !.conn = call.c]
<1> SUFFICES EntryResult(e, p, h, known, keys, call)
  OBVIOUS
<1>1. /\ Sound(e.conn) /\ e.conn.state \in ServerStates /\ e \in Entry
      /\ e.conn.key \in Key
  BY DEF EntryOK
<1>2. h \in Handles
  BY <1>1, KeysAreHandles
<1>3. StepOf(e.conn, h, call) /\ ServerCalled(e.conn, p, h, call)
  BY <1>1, <1>2, ProcessStep, ProcessServerCalled
<1> HIDE DEF call
<1>4. call.c \in ConnectionType /\ Sound(call.c) /\ call.out \in Packet
  BY <1>3 DEF StepOf, ResultType
<1>5. s \in Entry /\ s.conn = call.c
  BY <1>1, <1>4 DEF Entry
<1> HIDE DEF s
<1>6. CASE call.asked /\ h # NoHandle
  <2>1. /\ Given(call, h) = {h} /\ h = e.conn.key /\ call.c.handle = h
        /\ p.cmd = "Connect" /\ p.key = e.conn.key
    BY <1>3, <1>6 DEF Given, ServerCalled
  <2>2. EntryOK(s, known \cup {h}, keys)
    BY <1>3, <1>4, <1>5, <2>1 DEF EntryOK, ServerCalled
  <2> QED BY <1>3, <1>4, <1>5, <1>6, <2>1, <2>2 DEF ServerCalled, EntryResult, s
<1>7. CASE ~(call.asked /\ h # NoHandle)
  <2>1. Given(call, h) = {} /\ call.c.handle = e.conn.handle
    BY <1>3, <1>7 DEF Given, ServerCalled
  <2>2. EntryOK(s, known, keys)
    BY <1>3, <1>4, <1>5, <2>1 DEF EntryOK, ServerCalled
  <2>3. known \cup Given(call, h) = known
    BY <2>1
  <2> QED BY <1>3, <1>4, <1>5, <1>7, <2>1, <2>2, <2>3 DEF ServerCalled, EntryResult, s
<1> QED BY <1>6, <1>7

(* An entry stays what it is when more players join and keys are drawn.    *)
LEMMA EntryOKMonotone ==
  ASSUME NEW known, NEW keys, NEW e, EntryOK(e, known, keys),
         NEW more, known \subseteq more, NEW further, keys \subseteq further
  PROVE  EntryOK(e, more, further)
BY DEF EntryOK

(* A new connection for a stranger.                                        *)
LEMMA NewEntryOK ==
  ASSUME NEW known, NEW keys, keys \subseteq Key, NEW key \in keys
  PROVE  /\ EntryOK(NewEntry(key), known, keys)
         /\ NewEntry(key).conn.key = key
         /\ NewEntry(key).conn.handle = NoHandle
<1> DEFINE c == StartServer(NewConnection, key)
<1>1. NewConnection \in ConnectionType
  BY NewConnectionType
<1>2. /\ Sound(c) /\ c.handle = NoHandle /\ c.state = "Listening" /\ c.key = key
  BY <1>1, StartSound
<1>3. NewEntry(key) = [conn |-> c, lastAcked |-> 0]
  BY DEF NewEntry
<1> HIDE DEF c
<1>4. NewEntry(key) \in Entry
  BY <1>2, <1>3, SequenceHasZero DEF Entry, Sound
<1> QED BY <1>2, <1>3, <1>4 DEF EntryOK, ServerStates

(* Sending leaves an entry its key and its handle, and says                *)
(* ConnectResponse only for one that has a handle.                         *)
SentResult(e, known, keys, sent) ==
  /\ EntryOK([e EXCEPT !.conn = sent.c], known, keys)
  /\ sent.c.key = e.conn.key
  /\ sent.c.handle = e.conn.handle
  /\ sent.out \subseteq Packet
  /\ \A p \in sent.out : p.cmd = "ConnectResponse" => e.conn.handle # NoHandle

(* What PrivateSendState does for one entry.                               *)
LEMMA EntrySentOK ==
  ASSUME NEW known, NEW keys, keys \subseteq Key,
         NEW e, EntryOK(e, known, keys),
         NEW playing, NEW seq \in Sequence
  PROVE  SentResult(e, known, keys, EntrySent(e, playing, seq))
<1> DEFINE sent == EntrySent(e, playing, seq)
           s    == [e EXCEPT !.conn = sent.c]
<1> SUFFICES SentResult(e, known, keys, sent)
  OBVIOUS
<1>1. e \in Entry /\ e.conn \in ConnectionType /\ "Local" \in Reasons
  BY DEF EntryOK, Entry, Reasons
<1>2. CASE IsConnected(e.conn) /\ IsPlayer(e.conn, playing)
  <2>1. sent = [c |-> e.conn,
                out |-> { Delta(seq, e.lastAcked, NoId, d) : d \in Payload }]
    BY <1>2 DEF EntrySent
  <2>2. \A d \in Payload : Delta(seq, e.lastAcked, NoId, d) \in DeltaPackets
    BY <1>1 DEF Delta, DeltaPackets, Entry
  <2>3. \A p \in sent.out : p \in Packet /\ p.cmd = "Delta"
    BY <2>1, <2>2 DEF Packet, DeltaPackets
  <2>4. s = e /\ sent.c = e.conn
    BY <1>1, <2>1 DEF Entry
  <2> HIDE DEF SentResult, s
  <2> QED BY <2>3, <2>4 DEF SentResult, s
<1>3. CASE IsConnected(e.conn) /\ ~IsPlayer(e.conn, playing)
  <2> DEFINE d == DisconnectBecause(e.conn, "Local")
  <2>1. sent = [c |-> d, out |-> {}]
    BY <1>3 DEF EntrySent
  <2>2. /\ Sound(d) /\ d.state = "Disconnecting" /\ d.handle = e.conn.handle
        /\ d.key = e.conn.key
    BY <1>1, DisconnectSound
  <2> HIDE DEF d
  <2>3. s \in Entry /\ s.conn = d
    BY <1>1, <2>1, <2>2 DEF Entry, Sound
  <2>4. EntryOK(s, known, keys)
    BY <2>2, <2>3 DEF EntryOK, ServerStates
  <2>5. sent.out = {}
    BY <2>1
  <2> HIDE DEF SentResult, s
  <2> QED BY <2>2, <2>3, <2>4, <2>5 DEF SentResult, s
<1>4. CASE ~IsConnected(e.conn)
  <2> DEFINE poll == Process(e.conn, NoPacket, NoHandle)
  <2>1. sent = [c |-> poll.c, out |-> {poll.out}]
    BY <1>4 DEF EntrySent
  <2>2. NoPacket \in Packet /\ NoHandle \in Handles
    BY PacketMembers, KeysAreHandles
  <2>3. /\ Sound(e.conn) /\ e.conn.state \in ServerStates /\ e.conn.key \in Key
    BY DEF EntryOK
  <2>4. StepOf(e.conn, NoHandle, poll) /\ ServerCalled(e.conn, NoPacket, NoHandle, poll)
    BY <2>2, <2>3, ProcessStep, ProcessServerCalled
  <2> HIDE DEF poll
  <2>5. /\ poll.c \in ConnectionType /\ Sound(poll.c) /\ poll.out \in Packet
        /\ poll.c.key = e.conn.key /\ poll.c.handle = e.conn.handle
        /\ poll.c.state \in ServerStates
        /\ poll.out.cmd = "ConnectResponse" => poll.c.handle # NoHandle
    BY <2>4 DEF StepOf, ResultType, ServerCalled
  <2>6. sent.c = poll.c /\ sent.out = {poll.out}
    BY <2>1
  <2> HIDE DEF sent
  <2>7. s \in Entry /\ s.conn = poll.c
    BY <1>1, <2>5, <2>6 DEF Entry
  <2>8. EntryOK(s, known, keys)
    BY <2>5, <2>7 DEF EntryOK
  <2> HIDE DEF s
  <2> QED BY <2>5, <2>6, <2>8 DEF SentResult, s
<1> QED BY <1>2, <1>3, <1>4

-----------------------------------------------------------------------------
(* The actions of the server.                                              *)

(* One entry, of the map that a datagram finds, processes it.              *)
LEMMA EntryProcessEffect ==
  ASSUME ServerInv,
         NEW known, known \subseteq Address, NEW entries \in [known -> Entry],
         NEW keys, keys \subseteq Key, drawn \subseteq keys, drawn' = keys,
         \A x \in known : EntryOK(entries[x], joined, keys),
         \A x, y \in known : entries[x].conn.key = entries[y].conn.key => x = y,
         \A x \in known : entries[x].conn.handle # NoHandle
                            => Licensed(x, entries[x].conn.key),
         NEW m \in toServer, m.packet \in Packet, m.address \in known,
         EntryProcess(entries, m.address, m.packet),
         turn' \in Turns, toServer' \subseteq toServer, UNCHANGED clientVars
  PROVE  ServerEffect
<1> DEFINE a == m.address
           e == entries[a]
<1>1. PICK h \in Offers(e.conn) :
        LET call == Process(e.conn, m.packet, h)
        IN  /\ server' = [entries EXCEPT ![a].conn = call.c]
            /\ players' = players \cup Given(call, h)
            /\ joined' = joined \cup Given(call, h)
            /\ toClient' = toClient \cup Datagrams(a, {call.out})
  BY DEF EntryProcess
<1> DEFINE call == Process(e.conn, m.packet, h)
           s == [e EXCEPT !.conn = call.c]
<1>2. /\ a \in known /\ a \in Address /\ e \in Entry
      /\ EntryOK(e, joined, keys) /\ e.conn.key \in keys
  BY DEF EntryOK
<1>3. h = e.conn.key \/ h = NoHandle
  BY DEF Offers
<1>4. server' = [entries EXCEPT ![a] = s]
  <2>1. server' = [entries EXCEPT ![a].conn = call.c]
    BY <1>1
  <2> DEFINE c == call.c
  <2> HIDE DEF c
  <2>2. [entries EXCEPT ![a].conn = c] = [entries EXCEPT ![a] = [entries[a] EXCEPT !.conn = c]]
    BY <1>2
  <2> QED BY <2>1, <2>2 DEF c
<1> HIDE DEF e
<1>18. EntryResult(e, m.packet, h, joined, keys, call)
  BY <1>2, <1>3, EntryProcessOK
<1> HIDE DEF call
<1>5. /\ EntryOK(s, joined \cup Given(call, h), keys)
      /\ call.c.key = e.conn.key
      /\ call.out \in Packet
      /\ Given(call, h) \subseteq {e.conn.key}
      /\ call.c.handle # NoHandle \/ Given(call, h) # {}
           => \/ e.conn.handle # NoHandle
              \/ m.packet.cmd = "Connect" /\ m.packet.key = e.conn.key
      /\ call.out.cmd = "ConnectResponse" => call.c.handle # NoHandle
  BY <1>18 DEF EntryResult
<1>6. s \in Entry /\ s.conn = call.c
  BY <1>2, <1>5 DEF EntryOK, Entry
<1> HIDE DEF s
<1>7. /\ server' \in [known -> Entry] /\ DOMAIN server' = known
      /\ server'[a] = s
      /\ \A x \in known \ {a} : server'[x] = entries[x]
  BY <1>2, <1>4, <1>6
<1>8. call.c.handle # NoHandle \/ Given(call, h) # {} => Licensed(a, e.conn.key)
  BY <1>2, <1>5 DEF Licensed, e
<1>9. joined \subseteq joined' /\ joined' = joined \cup Given(call, h)
  BY <1>1 DEF call
<1>10. \A x \in known : EntryOK(server'[x], joined', keys)
  BY <1>5, <1>7, <1>9, EntryOKMonotone
<1>11. \A x \in known : server'[x].conn.key = entries[x].conn.key
  BY <1>5, <1>6, <1>7 DEF e
<1>12. /\ players' \subseteq joined' /\ joined' \subseteq keys
  BY <1>1, <1>2, <1>5 DEF ServerInv, call
<1>13. \A n \in toClient' \ toClient :
         n \in UnderWay /\ n.address = a /\ n.packet = call.out
  BY <1>1, <1>2, <1>5 DEF Datagrams, Datagram, UnderWay, call
<1>14. ServerInv'
  BY <1>7, <1>10, <1>11, <1>12, <1>13 DEF ServerInv
<1>15. \A key \in joined' \ joined : \E x \in Address : Licensed(x, key)
  BY <1>2, <1>5, <1>8, <1>9
<1>16. \A x \in DOMAIN server' :
         server'[x].conn.handle # NoHandle => Licensed(x, server'[x].conn.key)
  BY <1>6, <1>7, <1>8, <1>11 DEF e
<1>17. \A n \in toClient' \ toClient :
         n.packet.cmd = "ConnectResponse"
           => \E key \in joined' : Licensed(n.address, key)
  <2>1. call.c.handle # NoHandle => e.conn.key \in joined'
    BY <1>2, <1>5, <1>6, <1>9 DEF EntryOK
  <2> QED BY <1>5, <1>8, <1>13, <2>1
<1> QED BY <1>9, <1>14, <1>15, <1>16, <1>17 DEF ServerEffect

(* An entry that has a handle is its own licence.                          *)
LEMMA OwnLicence ==
  ASSUME NEW x \in DOMAIN server, server[x].conn.handle # NoHandle
  PROVE  Licensed(x, server[x].conn.key)
BY DEF Licensed

(* A datagram from a known address goes to the entry there.                *)
LEMMA ServerReceiveKnownEffect ==
  ASSUME ServerInv, NEW m \in toServer, m.packet \in Packet,
         ServerReceiveKnown(m), turn' \in Turns,
         toServer' \subseteq toServer, UNCHANGED clientVars
  PROVE  ServerEffect
<1>1. /\ m.address \in DOMAIN server
      /\ EntryProcess(server, m.address, m.packet) /\ drawn' = drawn
  BY DEF ServerReceiveKnown
<1>2. /\ DOMAIN server \subseteq Address /\ server \in [DOMAIN server -> Entry]
      /\ drawn \subseteq Key
      /\ \A x \in DOMAIN server : EntryOK(server[x], joined, drawn)
      /\ \A x, y \in DOMAIN server :
           server[x].conn.key = server[y].conn.key => x = y
  BY DEF ServerInv
<1> QED BY <1>1, <1>2, OwnLicence, EntryProcessEffect

(* The key of a new connection is one that no other connection has.        *)
LEMMA ServerReceiveStrangerEffect ==
  ASSUME ServerInv, NEW m \in toServer, m.packet \in Packet, m.address \in Address,
         ServerReceiveStranger(m), turn' \in Turns,
         toServer' \subseteq toServer, UNCHANGED clientVars
  PROVE  ServerEffect
<1>1. PICK key \in Key \ drawn :
        /\ EntryProcess(WithEntry(DOMAIN server, m.address, NewEntry(key)),
                        m.address, m.packet)
        /\ drawn' = drawn \cup {key}
  BY DEF ServerReceiveStranger
<1> DEFINE a == m.address
           known == DOMAIN server \cup {a}
           keys == drawn \cup {key}
           new == NewEntry(key)
           entries == WithEntry(DOMAIN server, a, new)
<1>2. /\ a \notin DOMAIN server /\ drawn \subseteq keys /\ keys \subseteq Key
      /\ known \subseteq Address
  BY DEF ServerInv, ServerReceiveStranger
<1>3. /\ EntryOK(new, joined, keys) /\ new.conn.key = key
      /\ new.conn.handle = NoHandle /\ new \in Entry
  BY <1>2, NewEntryOK DEF EntryOK
<1> HIDE DEF new
<1>4. /\ entries \in [known -> Entry] /\ entries[a] = new
      /\ \A x \in DOMAIN server : entries[x] = server[x]
  BY <1>2, <1>3 DEF WithEntry, ServerInv
<1> HIDE DEF entries
<1>5. \A x \in DOMAIN server :
        EntryOK(server[x], joined, drawn) /\ server[x].conn.key \in drawn
  BY DEF ServerInv, EntryOK
<1>6. \A x \in known : EntryOK(entries[x], joined, keys)
  BY <1>2, <1>3, <1>4, <1>5, EntryOKMonotone
<1>7. \A x, y \in known : entries[x].conn.key = entries[y].conn.key => x = y
  BY <1>1, <1>3, <1>4, <1>5 DEF ServerInv
<1>8. \A x \in known : entries[x].conn.handle # NoHandle
                           => Licensed(x, entries[x].conn.key)
  BY <1>3, <1>4, OwnLicence
<1>9. EntryProcess(entries, m.address, m.packet) /\ drawn' = keys
  BY <1>1 DEF entries, new
<1>10. m.address \in known
  OBVIOUS
<1> HIDE DEF known, keys
<1> QED BY <1>2, <1>4, <1>6, <1>7, <1>8, <1>9, <1>10, EntryProcessEffect

(* A connection that moves takes its key and its handle along.             *)
LEMMA ServerReceiveMovedEffect ==
  ASSUME ServerInv, NEW m \in toServer, m.packet \in Packet, m.address \in Address,
         ServerReceiveMoved(m), turn' \in Turns,
         toServer' \subseteq toServer, UNCHANGED clientVars
  PROVE  ServerEffect
<1> DEFINE a == m.address
<1>1. PICK b \in Movers(m) :
        LET erased == Process(server[b].conn, m.packet, NoHandle)
        IN  /\ server' = MovedTo(a, b)
            /\ toClient' \in { toClient \cup Datagrams(a, {out}) :
                                out \in {NoPacket, erased.out} }
  BY DEF ServerReceiveMoved
<1> DEFINE e == server[b]
           erased == Process(e.conn, m.packet, NoHandle)
<1>2. /\ a \notin DOMAIN server /\ b \in DOMAIN server /\ Host(b) = Host(a)
      /\ UNCHANGED <<players, joined, drawn>>
  BY DEF ServerReceiveMoved, Movers
<1>3. /\ EntryOK(e, joined, drawn) /\ e \in Entry /\ NoHandle \in Handles
      /\ Sound(e.conn) /\ e.conn.state \in ServerStates /\ e.conn.key \in Key
  BY <1>2, KeysAreHandles DEF ServerInv, EntryOK
<1>4. /\ StepOf(e.conn, NoHandle, erased)
      /\ ServerCalled(e.conn, m.packet, NoHandle, erased)
  BY <1>3, ProcessStep, ProcessServerCalled
<1>5. PICK out \in {NoPacket, erased.out} :
        toClient' = toClient \cup Datagrams(a, {out})
  BY <1>1
<1>6. server' = MovedTo(a, b)
  BY <1>1
<1> HIDE DEF erased, e
<1>7. /\ out \in Packet
      /\ out.cmd = "ConnectResponse" => e.conn.handle # NoHandle
  BY <1>4, <1>5, PacketMembers DEF StepOf, ResultType, ServerCalled, NoPacket
<1>8. /\ DOMAIN server' = (DOMAIN server \ {b}) \cup {a}
      /\ server' \in [DOMAIN server' -> Entry]
      /\ server'[a] = e
      /\ \A x \in DOMAIN server \ {b} : server'[x] = server[x]
  BY <1>2, <1>3, <1>6 DEF MovedTo, WithEntry, ServerInv, e
<1>9. \A n \in toClient' \ toClient :
        n \in UnderWay /\ n.address = a /\ n.packet = out
  BY <1>5, <1>7 DEF Datagrams, Datagram, UnderWay
<1>10. e.conn.handle # NoHandle => Licensed(a, e.conn.key)
  BY <1>2 DEF Licensed, e
<1>11. ServerInv'
  <2>1. \A x \in DOMAIN server' : EntryOK(server'[x], joined', drawn')
    BY <1>2, <1>3, <1>8 DEF ServerInv
  <2>2. \A x, y \in DOMAIN server' :
          server'[x].conn.key = server'[y].conn.key => x = y
    BY <1>2, <1>8 DEF ServerInv, e
  <2> QED BY <1>2, <1>8, <1>9, <2>1, <2>2 DEF ServerInv
<1>12. \A x \in DOMAIN server' :
         server'[x].conn.handle # NoHandle => Licensed(x, server'[x].conn.key)
  BY <1>2, <1>8, <1>10, OwnLicence
<1>13. \A n \in toClient' \ toClient :
         n.packet.cmd = "ConnectResponse"
           => \E key \in joined' : Licensed(n.address, key)
  <2>1. e.conn.handle # NoHandle => e.conn.key \in joined
    BY <1>3 DEF EntryOK
  <2> QED BY <1>2, <1>7, <1>9, <1>10, <2>1
<1> QED BY <1>2, <1>11, <1>12, <1>13 DEF ServerEffect

(* One datagram in the loop of ProcessIncomming.                           *)
LEMMA ServerReceiveEffect ==
  ASSUME ClientsInv, ServerInv, NEW m \in toServer, ServerReceive(m)
  PROVE  ServerEffect
<1>1. /\ turn' \in Turns /\ toServer' \subseteq toServer /\ UNCHANGED clientVars
      /\ \/ ServerReceiveKnown(m)
         \/ ServerReceiveStranger(m)
         \/ ServerReceiveMoved(m)
         \/ ServerIgnore(m)
  BY DEF ServerReceive, TakeFrom, Turns
<1>2. m.packet \in Packet /\ m.address \in Address
  BY DEF ClientsInv, UnderWay
<1>3. CASE ServerIgnore(m)
  <2>1. UNCHANGED <<server, players, joined, drawn, toClient>>
    BY <1>3 DEF ServerIgnore
  <2>2. ServerInv'
    BY <1>1, <2>1 DEF ServerInv
  <2> QED BY <1>1, <2>1, <2>2, OwnLicence DEF ServerEffect
<1> QED BY <1>1, <1>2, <1>3, ServerReceiveKnownEffect,
           ServerReceiveStrangerEffect, ServerReceiveMovedEffect

(* A delta is handed to the game.                                          *)
LEMMA ParseLastOK ==
  ASSUME NEW known, NEW keys, NEW e, EntryOK(e, known, keys)
  PROVE  /\ EntryOK(ParseLast(e), known, keys)
         /\ ParseLast(e).conn.key = e.conn.key
         /\ ParseLast(e).conn.handle = e.conn.handle
<1> DEFINE c == Taken(e.conn)
           last == e.conn.last
           acked == IF IsDelta(last) THEN last.seq ELSE e.lastAcked
<1>1. e \in Entry /\ e.conn \in ConnectionType /\ Sound(e.conn)
  BY DEF EntryOK, Entry
<1>2. /\ Sound(c) /\ c.state = e.conn.state /\ c.key = e.conn.key
      /\ c.handle = e.conn.handle
  BY <1>1, TakenSound
<1>3. acked \in Sequence
  <2>1. e.lastAcked \in Sequence /\ last \in DeltaPackets \cup {NoPacket}
    BY <1>1 DEF Entry, ConnectionType
  <2>2. IsDelta(last) => last.seq \in Sequence
    BY <2>1 DEF IsDelta, NoPacket, DeltaPackets
  <2> QED BY <2>1, <2>2
<1>4. ParseLast(e) = [e EXCEPT !.conn = c, !.lastAcked = acked]
  BY <1>1 DEF ParseLast, Entry
<1> HIDE DEF c, acked
<1>5. ParseLast(e) \in Entry /\ ParseLast(e).conn = c
  BY <1>1, <1>2, <1>3, <1>4 DEF Entry, Sound
<1> QED BY <1>2, <1>5 DEF EntryOK

(* PrivateProcessIncomming after its loop.                                 *)
LEMMA ServerSettleEffect ==
  ASSUME ServerInv, ServerSettle
  PROVE  ServerEffect
<1> DEFINE left == { b \in DOMAIN server : ~HasFailed(server[b].conn) }
           after(x) == IF IsConnected(server[x].conn)
                       THEN ParseLast(server[x]) ELSE server[x]
<1>1. /\ turn' \in Turns /\ server' = [x \in left |-> after(x)]
      /\ UNCHANGED <<clientVars, players, joined, drawn, toServer, toClient>>
  BY DEF ServerSettle, Turns
<1>2. \A x \in DOMAIN server :
        /\ EntryOK(after(x), joined, drawn)
        /\ after(x).conn.key = server[x].conn.key
        /\ after(x).conn.handle = server[x].conn.handle
  BY ParseLastOK DEF ServerInv
<1>3. left \subseteq DOMAIN server
  OBVIOUS
<1> HIDE DEF left, after
<1>4. /\ DOMAIN server' = left
      /\ \A x \in left : server'[x] = after(x)
      /\ server' \in [left -> Entry]
  BY <1>1, <1>2, <1>3 DEF EntryOK
<1>5. ServerInv'
  BY <1>1, <1>2, <1>3, <1>4 DEF ServerInv
<1>6. \A x \in left :
        server'[x].conn.handle # NoHandle => Licensed(x, server'[x].conn.key)
  BY <1>2, <1>3, <1>4, OwnLicence
<1> QED BY <1>1, <1>4, <1>5, <1>6 DEF ServerEffect

(* PrivateSendState.                                                       *)
LEMMA ServerSendEffect ==
  ASSUME ServerInv, ServerSend
  PROVE  ServerEffect
<1>1. PICK seq \in SendSeq : SendStateOf(server, players, seq)
  BY DEF ServerSend
<1>2. /\ turn' \in Turns /\ drawn \subseteq Key /\ seq \in Sequence
      /\ UNCHANGED <<clientVars, players, joined, drawn, toServer>>
  BY ClientServerAssumption DEF ServerSend, Turns, ServerInv
<1> DEFINE sent == [x \in DOMAIN server |-> EntrySent(server[x], players, seq)]
           after(x) == [server[x] EXCEPT !.conn = sent[x].c]
<1>3. \A x \in DOMAIN server : EntryOK(server[x], joined, drawn)
  BY DEF ServerInv
<1>4. \A x \in DOMAIN server :
        /\ EntryOK(after(x), joined, drawn)
        /\ sent[x].c.key = server[x].conn.key
        /\ sent[x].c.handle = server[x].conn.handle
        /\ sent[x].out \subseteq Packet
        /\ \A p \in sent[x].out :
             p.cmd = "ConnectResponse" => server[x].conn.handle # NoHandle
  <2>1. \A x \in DOMAIN server :
          SentResult(server[x], joined, drawn, EntrySent(server[x], players, seq))
    BY <1>2, <1>3, EntrySentOK
  <2> QED BY <2>1 DEF SentResult
<1>5. /\ server' = [x \in DOMAIN server |-> after(x)]
      /\ toClient' = toClient \cup
           UNION { Datagrams(x, sent[x].out) : x \in DOMAIN server }
  BY <1>1 DEF SendStateOf
<1>6. \A x \in DOMAIN server : after(x).conn = sent[x].c
  BY <1>3 DEF EntryOK, Entry
<1> HIDE DEF sent, after
<1>7. /\ DOMAIN server' = DOMAIN server
      /\ \A x \in DOMAIN server : server'[x] = after(x)
      /\ server' \in [DOMAIN server -> Entry]
  BY <1>4, <1>5 DEF EntryOK
<1>8. \A n \in toClient' \ toClient :
        /\ n \in UnderWay
        /\ n.address \in DOMAIN server
        /\ n.packet \in sent[n.address].out
  <2>1. DOMAIN server \subseteq Address
    BY DEF ServerInv
  <2>2. TAKE n \in toClient' \ toClient
  <2>3. PICK x \in DOMAIN server : n \in Datagrams(x, sent[x].out)
    BY <1>5, <2>2
  <2> QED BY <1>4, <2>1, <2>3 DEF Datagrams, Datagram, UnderWay
<1>9. ServerInv'
  BY <1>2, <1>4, <1>6, <1>7, <1>8 DEF ServerInv
<1>10. \A x \in DOMAIN server' :
         server'[x].conn.handle # NoHandle => Licensed(x, server'[x].conn.key)
  BY <1>4, <1>6, <1>7, OwnLicence
<1>11. \A n \in toClient' \ toClient :
         n.packet.cmd = "ConnectResponse"
           => \E key \in joined' : Licensed(n.address, key)
  <2>1. TAKE n \in toClient' \ toClient
  <2>2. HAVE n.packet.cmd = "ConnectResponse"
  <2> DEFINE x == n.address
  <2>3. x \in DOMAIN server /\ server[x].conn.handle # NoHandle
    BY <1>4, <1>8, <2>2
  <2>4. server[x].conn.key \in joined
    BY <1>3, <2>3 DEF EntryOK
  <2> QED BY <1>2, <2>3, <2>4, OwnLicence
<1> QED BY <1>2, <1>9, <1>10, <1>11 DEF ServerEffect

(* The farewell of a server that goes away.                                *)
LEMMA ServerRestartEffect ==
  ASSUME ServerInv, ServerRestart
  PROVE  ServerEffect
<1> DEFINE e(x) == IF IsConnected(server[x].conn)
                   THEN [server[x] EXCEPT !.conn = DisconnectBecause(@, "Local")]
                   ELSE server[x]
           out(x) == EntrySent(e(x), {}, 0).out
<1>1. /\ toClient' = toClient \cup
           UNION { Datagrams(x, out(x)) : x \in DOMAIN server }
      /\ server' = << >> /\ players' = {} /\ turn' = "process"
      /\ UNCHANGED <<clientVars, joined, drawn, toServer>>
  BY DEF ServerRestart
<1>2. /\ \A x \in DOMAIN server : EntryOK(server[x], joined, drawn)
      /\ DOMAIN server \subseteq Address /\ drawn \subseteq Key
      /\ 0 \in Sequence /\ "Local" \in Reasons
  BY SequenceHasZero DEF ServerInv, Reasons
<1>3. ASSUME NEW x \in DOMAIN server
      PROVE  /\ out(x) \subseteq Packet
             /\ \A p \in out(x) : p.cmd = "ConnectResponse"
                                     => server[x].conn.handle # NoHandle
  <2> DEFINE d == DisconnectBecause(server[x].conn, "Local")
             gone == [server[x] EXCEPT !.conn = d]
  <2>1. server[x] \in Entry /\ server[x].conn \in ConnectionType
    BY <1>2 DEF EntryOK, Entry
  <2>2. /\ Sound(d) /\ d.state = "Disconnecting" /\ d.key = server[x].conn.key
        /\ d.handle = server[x].conn.handle
    BY <1>2, <2>1, DisconnectSound
  <2>3. e(x) = IF IsConnected(server[x].conn) THEN gone ELSE server[x]
    BY <2>1 DEF Entry
  <2> HIDE DEF d
  <2>4. gone \in Entry /\ gone.conn = d
    BY <2>1, <2>2 DEF Entry, Sound
  <2>5. EntryOK(gone, joined, drawn)
    BY <1>2, <2>2, <2>4 DEF EntryOK, ServerStates
  <2> HIDE DEF gone
  <2>6. EntryOK(e(x), joined, drawn) /\ e(x).conn.handle = server[x].conn.handle
    BY <1>2, <2>2, <2>3, <2>4, <2>5
  <2> HIDE DEF e
  <2>7. SentResult(e(x), joined, drawn, EntrySent(e(x), {}, 0))
    BY <1>2, <2>6, EntrySentOK
  <2> QED BY <2>6, <2>7 DEF SentResult
<1> HIDE DEF out
<1>4. \A n \in toClient' \ toClient :
        n \in UnderWay /\ n.address \in DOMAIN server /\ n.packet \in out(n.address)
  <2>1. TAKE n \in toClient' \ toClient
  <2>2. PICK x \in DOMAIN server : n \in Datagrams(x, out(x))
    BY <1>1, <2>1
  <2> QED BY <1>2, <1>3, <2>2 DEF Datagrams, Datagram, UnderWay
<1>5. DOMAIN server' = {} /\ server' \in [{} -> Entry]
  BY <1>1
<1>6. ServerInv'
  BY <1>1, <1>4, <1>5 DEF ServerInv, Turns
<1>7. \A n \in toClient' \ toClient :
        n.packet.cmd = "ConnectResponse"
          => \E key \in joined' : Licensed(n.address, key)
  <2>1. TAKE n \in toClient' \ toClient
  <2>2. HAVE n.packet.cmd = "ConnectResponse"
  <2> DEFINE x == n.address
  <2>3. x \in DOMAIN server /\ server[x].conn.handle # NoHandle
    BY <1>3, <1>4, <2>2
  <2>4. server[x].conn.key \in joined
    BY <1>2, <2>3 DEF EntryOK
  <2> QED BY <1>1, <2>3, <2>4, OwnLicence
<1> QED BY <1>1, <1>5, <1>6, <1>7 DEF ServerEffect

(* Whatever the server does.                                               *)
LEMMA ServerNextEffect ==
  ASSUME ClientsInv, ServerInv, ServerNext
  PROVE  ServerEffect
<1>1. CASE \E m \in toServer : ServerReceive(m)
  BY <1>1, ServerReceiveEffect
<1>2. CASE ServerSettle
  BY <1>2, ServerSettleEffect
<1>3. CASE ServerSend
  BY <1>3, ServerSendEffect
<1>4. CASE \E h \in players : ServerDrops(h)
  <2>1. /\ players' \subseteq players
        /\ UNCHANGED <<clientVars, server, turn, joined, drawn, toServer, toClient>>
    BY <1>4 DEF ServerDrops
  <2>2. ServerInv'
    BY <2>1 DEF ServerInv
  <2> QED BY <2>1, <2>2, OwnLicence DEF ServerEffect
<1>5. CASE ServerRestart
  BY <1>5, ServerRestartEffect
<1> QED BY <1>1, <1>2, <1>3, <1>4, <1>5 DEF ServerNext

-----------------------------------------------------------------------------
(* The network and the clock.                                              *)

(* What everything else can do: lose datagrams, move a client to another   *)
(* port of its host, and let time pass.                                    *)
QuietEffect ==
  /\ ClientsInv' /\ ServerInv'
  /\ toServer' \subseteq toServer
  /\ toClient' \subseteq toClient
  /\ UNCHANGED <<joined, sessions>>
  /\ \A a \in Client :
       /\ client'[a].conn.key = client[a].conn.key
       /\ client'[a].conn.state = client[a].conn.state
       /\ Host(nat'[a]) = Host(nat[a])
  /\ DOMAIN server' = DOMAIN server
  /\ \A x \in DOMAIN server :
       /\ server'[x].conn.key = server[x].conn.key
       /\ server'[x].conn.handle = server[x].conn.handle

(* The clock moves on for every connection, and nothing else changes.      *)
LEMMA TickEffect ==
  ASSUME ClientsInv, ServerInv, Tick
  PROVE  QuietEffect
<1> DEFINE k(a) == [client[a] EXCEPT !.conn = Age(client[a].conn)]
           e(x) == [server[x] EXCEPT !.conn = Age(server[x].conn)]
<1>1. /\ client' = [a \in Client |-> k(a)]
      /\ server' = [x \in DOMAIN server |-> e(x)]
      /\ UNCHANGED <<turn, players, joined, drawn, nat, sessions, toServer,
                     toClient>>
  BY DEF Tick
<1>2. ASSUME NEW a \in Client
      PROVE  /\ ClientOK(k(a)) /\ k(a) \in ClientType
             /\ k(a).conn.key = client[a].conn.key
             /\ k(a).conn.state = client[a].conn.state
  <2> DEFINE c == Age(client[a].conn)
  <2>1. ClientOK(client[a])
    BY DEF ClientsInv
  <2>2. /\ Sound(c) /\ c.state = client[a].conn.state
        /\ c.key = client[a].conn.key /\ c.count = client[a].conn.count
    BY <2>1, AgeSound DEF ClientOK
  <2> HIDE DEF c
  <2>3. ClientOK([client[a] EXCEPT !.conn = c]) /\ [client[a] EXCEPT !.conn = c].conn = c
    BY <2>1, <2>2, ClientConnection DEF ClientOK
  <2> QED BY <2>2, <2>3 DEF c, ClientOK
<1>3. ASSUME NEW x \in DOMAIN server
      PROVE  /\ EntryOK(e(x), joined, drawn) /\ e(x) \in Entry
             /\ e(x).conn.key = server[x].conn.key
             /\ e(x).conn.handle = server[x].conn.handle
  <2> DEFINE c == Age(server[x].conn)
  <2>1. EntryOK(server[x], joined, drawn) /\ server[x] \in Entry
    BY DEF ServerInv, EntryOK
  <2>2. /\ Sound(c) /\ c.state = server[x].conn.state
        /\ c.key = server[x].conn.key /\ c.handle = server[x].conn.handle
    BY <2>1, AgeSound DEF EntryOK
  <2> HIDE DEF c
  <2>3. /\ [server[x] EXCEPT !.conn = c] \in Entry
        /\ [server[x] EXCEPT !.conn = c].conn = c
    BY <2>1, <2>2 DEF Entry, Sound
  <2> QED BY <2>1, <2>2, <2>3 DEF c, EntryOK
<1> HIDE DEF k, e
<1>4. /\ client' \in [Client -> ClientType]
      /\ \A a \in Client : client'[a] = k(a)
  BY <1>1, <1>2
<1>5. /\ server' \in [DOMAIN server -> Entry] /\ DOMAIN server' = DOMAIN server
      /\ \A x \in DOMAIN server : server'[x] = e(x)
  BY <1>1, <1>3
<1>6. ClientsInv'
  BY <1>1, <1>2, <1>4 DEF ClientsInv
<1>7. ServerInv'
  BY <1>1, <1>3, <1>5 DEF ServerInv
<1> QED BY <1>1, <1>2, <1>3, <1>4, <1>5, <1>6, <1>7 DEF QuietEffect

(* Losses take datagrams away; a rebind keeps the client's ip.             *)
LEMMA NetworkNextEffect ==
  ASSUME ClientsInv, ServerInv, NetworkNext
  PROVE  QuietEffect
<1>1. CASE \E m \in toServer : LoseToServer(m)
  BY <1>1 DEF LoseToServer, QuietEffect, ClientsInv, ServerInv,
              serverVars, clientVars
<1>2. CASE \E m \in toClient : LoseToClient(m)
  BY <1>2 DEF LoseToClient, QuietEffect, ClientsInv, ServerInv,
              serverVars, clientVars
<1>3. CASE \E a \in Client, b \in Address : Rebind(a, b)
  <2>1. PICK a \in Client, b \in Address : Rebind(a, b)
    BY <1>3
  <2>2. /\ Host(b) = Host(nat[a]) /\ nat' = [nat EXCEPT ![a] = b]
        /\ UNCHANGED <<server, turn, players, joined, drawn, client, sessions,
                       toServer, toClient>>
    BY <2>1 DEF Rebind, serverVars
  <2>3. nat' \in [Client -> Address]
    BY <2>2 DEF ClientsInv
  <2>4. \A other \in Client : Host(nat'[other]) = Host(nat[other])
    BY <2>2 DEF ClientsInv
  <2>5. ClientsInv' /\ ServerInv'
    BY <2>2, <2>3 DEF ClientsInv, ServerInv
  <2> QED BY <2>2, <2>4, <2>5 DEF QuietEffect
<1> QED BY <1>1, <1>2, <1>3 DEF NetworkNext

(* Every step has one of the three effects.                                *)
LEMMA NextEffect ==
  ASSUME ClientsInv, ServerInv, [Next]_vars
  PROVE  \/ \E a \in Client : ClientEffect(a) /\ ServerInv'
         \/ ServerEffect /\ ClientsInv'
         \/ QuietEffect
<1>1. CASE \E a \in Client : ClientNext(a)
  <2>1. PICK a \in Client : ClientEffect(a)
    BY <1>1, ClientNextEffect
  <2>2. ServerInv'
    BY <2>1 DEF ClientEffect, ServerInv, serverVars
  <2> QED BY <2>1, <2>2
<1>2. CASE ServerNext
  <2>1. ServerEffect
    BY <1>2, ServerNextEffect
  <2>2. ClientsInv'
    BY <2>1 DEF ServerEffect, ClientsInv, clientVars
  <2> QED BY <2>1, <2>2
<1>3. CASE NetworkNext
  BY <1>3, NetworkNextEffect
<1>4. CASE Tick
  BY <1>4, TickEffect
<1>5. CASE UNCHANGED vars
  BY <1>5 DEF QuietEffect, ClientsInv, ServerInv, vars, serverVars, clientVars
<1> QED BY <1>1, <1>2, <1>3, <1>4, <1>5 DEF Next

(* The programs before they have done anything.                            *)
LEMMA InitType ==
  ASSUME Init
  PROVE  ClientsInv /\ ServerInv
<1>1. /\ NewConnection \in ConnectionType /\ Sound(NewConnection)
      /\ NewConnection.state = "Idle"
  BY NewConnectionType
<1>6. NewConnection.count = 0 /\ 0 <= HandshakeRetries + 1
  BY ConnectionAssumption DEF NewConnection
<1>2. ClientOK(NewClient) /\ NewClient \in ClientType
  BY <1>1, <1>6, SequenceHasZero DEF NewClient, ClientOK, ClientType, ClientStates, Turns
<1>3. ClientsInv
  BY <1>2, ClientServerAssumption DEF Init, ClientsInv
<1>4. DOMAIN server = {} /\ server \in [{} -> Entry]
  BY DEF Init
<1>5. ServerInv
  BY <1>4 DEF Init, ServerInv, Turns
<1> QED BY <1>3, <1>5

-----------------------------------------------------------------------------
(* What holds for every number of clients, sessions and keys.              *)

(* The two parts of the type invariant hold together.                      *)
LEMMA TypesAlways == Spec => [](ClientsInv /\ ServerInv)
<1>1. Init => ClientsInv /\ ServerInv
  BY InitType
<1>2. (ClientsInv /\ ServerInv) /\ [Next]_vars => (ClientsInv /\ ServerInv)'
  BY NextEffect DEF ClientEffect, ServerEffect, QuietEffect
<1> QED BY <1>1, <1>2, PTL DEF Spec

(* Every variable has its type: above all, no connection of a client ever  *)
(* gets into a state of the server's side, nor one of the server's into a  *)
(* state of a client's handshake, whatever datagrams reach it.             *)
THEOREM TypeCorrect == Spec => []TypeOK
<1>1. ClientsInv /\ ServerInv => TypeOK
  <2> SUFFICES ASSUME ClientsInv, ServerInv PROVE TypeOK
    OBVIOUS
  <2>1. ASSUME NEW a \in Client
        PROVE  /\ client[a].conn.state \in States \ {"Listening", "ConnectedToClient"}
               /\ client[a].conn.key \in Keys
               /\ client[a].conn.count \in 0 .. HandshakeRetries + 1
               /\ client[a].conn.age \in 0 .. MaxAge
               /\ client[a].enabled \in BOOLEAN
               /\ client[a].processed \in Sequence
               /\ client[a].local \subseteq StateHandle
               /\ client[a].turn \in Turns
    <3>1. /\ client[a] \in ClientType /\ ClientOK(client[a])
          /\ client[a].conn \in ConnectionType
      BY DEF ClientsInv, ClientType
    <3>2. client[a].conn.count \in 0 .. FloodTrigger /\ FloodTrigger \in Nat
      BY <3>1, Bounds DEF ConnectionType
    <3>3. client[a].conn.count \in 0 .. HandshakeRetries + 1
      BY <3>1, <3>2, ConnectionAssumption DEF ClientOK
    <3> QED BY <3>1, <3>3 DEF ClientType, ConnectionType, ClientOK, ClientStates, States
  <2>2. ASSUME NEW x \in DOMAIN server
        PROVE  /\ EntryType(server[x])
               /\ server[x].conn.state \in {"Listening", "ConnectedToClient",
                                            "Disconnecting", "FailedConnection"}
    <3>1. /\ EntryOK(server[x], joined, drawn) /\ server[x] \in Entry
          /\ server[x].conn \in ConnectionType /\ drawn \subseteq Key
      BY DEF ServerInv, EntryOK, Entry
    <3> QED BY <3>1 DEF EntryOK, Entry, EntryType, ConnectionType, ServerStates
  <2>3. nat \in [Client -> Address] /\ toServer \subseteq UnderWay
    BY DEF ClientsInv
  <2> QED BY <2>1, <2>2, <2>3 DEF TypeOK, ServerInv, UnderWay
<1> QED BY <1>1, TypesAlways, PTL

(* Two of the server's connections are never for the same player, however  *)
(* connections move between addresses and however often a client comes     *)
(* back from another one (myAddressToState and MovedTo): the handle of an  *)
(* entry is the one given for its key, and no two entries share a key.     *)
THEOREM PlayersDistinctAlways == Spec => []PlayersDistinct
<1>1. ServerInv => PlayersDistinct
  BY DEF ServerInv, EntryOK, PlayersDistinct
<1> QED BY <1>1, TypesAlways, PTL

-----------------------------------------------------------------------------
(* One player for each session.  A client begins a session without a key,  *)
(* takes one from the first ChallengeResponse it reads and keeps it: every *)
(* key that the server can admit was taken in a session of its own.        *)

Slots == UNION { {a} \X (1 .. sessions[a]) : a \in Client }

(* The keys K that clients took so far, each in the session f names, and   *)
(* none in a session that still waits for its key.                         *)
Charged(K, f) ==
  /\ K \subseteq Key
  /\ f \in [K -> Slots]
  /\ \A j, k \in K : f[j] = f[k] => j = k
  /\ joined \subseteq K
  /\ \A a \in Client : client[a].conn.key \in Key => client[a].conn.key \in K
  /\ \A m \in toServer : m.packet.cmd = "Connect" => m.packet.key \in K
  /\ \A a \in Client :
       client[a].conn.key = NilKey => \A k \in K : f[k] # <<a, sessions[a]>>

ChargeInv ==
  /\ \A a \in Client : client[a].conn.state = "Challenging" => sessions[a] >= 1
  /\ \E K, f : Charged(K, f)

(* A handshake under way is of a session that has begun.                   *)
LEMMA SessionBegun ==
  ASSUME ClientsInv, ServerInv, [Next]_vars,
         \A a \in Client : client[a].conn.state = "Challenging" => sessions[a] >= 1
  PROVE  \A a \in Client : client'[a].conn.state = "Challenging" => sessions'[a] >= 1
<1> USE DEF ClientsInv
<1>1. CASE \E a \in Client : ClientEffect(a) /\ ServerInv'
  <2>1. PICK a \in Client : ClientEffect(a)
    BY <1>1
  <2>2. ASSUME NEW b \in Client \ {a}
        PROVE  client'[b] = client[b] /\ sessions'[b] = sessions[b]
    BY <2>1 DEF ClientEffect
  <2>3. client'[a].conn.state = "Challenging" => sessions'[a] >= 1
    BY <2>1 DEF ClientEffect
  <2> QED BY <2>2, <2>3
<1>2. CASE ServerEffect /\ ClientsInv'
  BY <1>2 DEF ServerEffect, clientVars
<1>3. CASE QuietEffect
  BY <1>3 DEF QuietEffect
<1> QED BY <1>1, <1>2, <1>3, NextEffect

(* Charged, but for a client that just took its key.                       *)
ChargedBut(a, L, g) ==
  /\ L \subseteq Key
  /\ g \in [L -> Slots]
  /\ \A j, k \in L : g[j] = g[k] => j = k
  /\ \A b \in Client \ {a} :
       client[b].conn.key = NilKey => \A k \in L : g[k] # <<b, sessions[b]>>

(* One more key, charged to a session.                                     *)
With(K, f, key, slot) == [k \in K \cup {key} |-> IF k \in K THEN f[k] ELSE slot]

(* A client that takes its key is charged for it, once.                    *)
LEMMA TakesKey ==
  ASSUME ClientsInv, NEW a \in Client, sessions[a] >= 1, client[a].conn.key = NilKey,
         NEW key \in Key, NEW K, NEW f, Charged(K, f),
         NEW L, L = K \cup {key}, NEW g, g = With(K, f, key, <<a, sessions[a]>>)
  PROVE  ChargedBut(a, L, g)
<1> DEFINE slot == <<a, sessions[a]>>
<1>1. /\ K \subseteq Key /\ f \in [K -> Slots]
      /\ \A j, k \in K : f[j] = f[k] => j = k
      /\ \A b \in Client :
           client[b].conn.key = NilKey => \A k \in K : f[k] # <<b, sessions[b]>>
  BY DEF Charged
<1>2. slot \in Slots
  <2>1. sessions[a] \in 1 .. sessions[a]
    BY DEF ClientsInv
  <2>2. slot \in {a} \X (1 .. sessions[a])
    BY <2>1
  <2> QED BY <2>2 DEF Slots
<1>3. /\ \A k \in K : f[k] # slot
      /\ \A b \in Client \ {a} : slot # <<b, sessions[b]>>
  BY <1>1
<1>8. g = With(K, f, key, slot)
  OBVIOUS
<1> HIDE DEF slot
<1>4. /\ g \in [L -> Slots]
      /\ key \notin K => g[key] = slot
      /\ \A k \in K : g[k] = f[k]
  BY <1>1, <1>2, <1>8 DEF With
<1>5. \A j, k \in L : g[j] = g[k] => j = k
  BY <1>1, <1>3, <1>4
<1>6. \A b \in Client \ {a} :
        client[b].conn.key = NilKey => \A k \in L : g[k] # <<b, sessions[b]>>
  BY <1>1, <1>3, <1>4
<1>7. L \subseteq Key
  BY <1>1
<1> QED BY <1>4, <1>5, <1>6, <1>7 DEF ChargedBut

(* A client's step: its key is new, or it is charged for it already.       *)
LEMMA ChargeClient ==
  ASSUME ClientsInv, ServerInv, ChargeInv, NEW a \in Client, ClientEffect(a)
  PROVE  \E K, f : Charged(K, f)'
<1>1. PICK K, f : Charged(K, f)
  BY DEF ChargeInv
<1>2. /\ K \subseteq Key /\ f \in [K -> Slots]
      /\ \A j, k \in K : f[j] = f[k] => j = k
      /\ joined \subseteq K
      /\ \A b \in Client : client[b].conn.key \in Key => client[b].conn.key \in K
      /\ \A m \in toServer : m.packet.cmd = "Connect" => m.packet.key \in K
      /\ \A b \in Client :
           client[b].conn.key = NilKey => \A k \in K : f[k] # <<b, sessions[b]>>
  BY <1>1 DEF Charged
<1>3. /\ joined' = joined
      /\ \A b \in Client \ {a} : client'[b] = client[b]
      /\ \A m \in toServer' \ toServer :
           m.packet.cmd = "Connect" => /\ m.packet.key \in Key
                                       /\ m.packet.key = client'[a].conn.key
  BY DEF ClientEffect, serverVars
<1>4. CASE sessions' = sessions /\ client'[a].conn.key = client[a].conn.key
  <2>1. Slots' = Slots
    BY <1>4 DEF Slots
  <2>2. Charged(K, f)'
    BY <1>2, <1>3, <1>4, <2>1 DEF Charged
  <2> QED BY <2>2
<1>5. CASE /\ sessions' = sessions
           /\ client[a].conn.state = "Challenging"
           /\ client'[a].conn.key \in Key
  <2>1. client[a].conn.key = NilKey /\ sessions[a] >= 1
    BY <1>5 DEF ClientsInv, ClientOK, ChargeInv
  <2>8. PICK key \in Key : key = client'[a].conn.key
    BY <1>5
  <2>9. PICK L, g : L = K \cup {key} /\ g = With(K, f, key, <<a, sessions[a]>>)
    OBVIOUS
  <2>11. ChargedBut(a, L, g)
    BY <1>1, <2>1, <2>9, TakesKey
  <2>2. /\ L \subseteq Key
        /\ g \in [L -> Slots]
        /\ \A j, k \in L : g[j] = g[k] => j = k
        /\ \A b \in Client \ {a} :
             client[b].conn.key = NilKey => \A k \in L : g[k] # <<b, sessions[b]>>
    BY <2>11 DEF ChargedBut
  <2>3. Slots' = Slots
    BY <1>5 DEF Slots
  <2>4. \A b \in Client : client'[b].conn.key \in Key => client'[b].conn.key \in L
    BY <1>2, <1>3, <2>8, <2>9
  <2>5. \A m \in toServer' : m.packet.cmd = "Connect" => m.packet.key \in L
    BY <1>2, <1>3, <2>8, <2>9
  <2>6. \A b \in Client :
          client'[b].conn.key = NilKey => \A k \in L : g[k] # <<b, sessions'[b]>>
    BY <1>3, <1>5, <2>2, KeysAreHandles
  <2>7. joined' \subseteq L
    BY <1>2, <1>3, <2>9
  <2>10. Charged(L, g)'
    BY <2>2, <2>3, <2>4, <2>5, <2>6, <2>7 DEF Charged
  <2> QED BY <2>10
<1>6. CASE /\ sessions' = [sessions EXCEPT ![a] = @ + 1]
           /\ client'[a].conn.key = NilKey
  <2>1. /\ \A b \in Client \ {a} : sessions'[b] = sessions[b]
        /\ sessions'[a] = sessions[a] + 1
        /\ \A b \in Client : sessions[b] \in Nat
    BY <1>6 DEF ClientsInv
  <2>2. Slots \subseteq Slots'
    <3>1. \A b \in Client : 1 .. sessions[b] \subseteq 1 .. sessions'[b]
      BY <2>1
    <3> QED BY <3>1 DEF Slots
  <2>3. \A k \in K : f[k] # <<a, sessions'[a]>>
    <3>1. \A b \in Client : \A n \in 1 .. sessions[b] :
            <<b, n>> # <<a, sessions'[a]>>
      BY <2>1
    <3>2. ASSUME NEW s \in Slots PROVE s # <<a, sessions'[a]>>
      <4>1. PICK b \in Client : s \in {b} \X (1 .. sessions[b])
        BY <3>2 DEF Slots
      <4>2. PICK n \in 1 .. sessions[b] : s = <<b, n>>
        BY <4>1
      <4> QED BY <3>1, <4>2
    <3> QED BY <1>2, <3>2
  <2>4. f \in [K -> Slots']
    BY <1>2, <2>2
  <2>5. \A b \in Client : client'[b].conn.key \in Key => client'[b].conn.key \in K
    BY <1>2, <1>3, <1>6, KeysAreHandles
  <2>6. \A m \in toServer' : m.packet.cmd = "Connect" => m.packet.key \in K
    BY <1>2, <1>3, <1>6, KeysAreHandles
  <2>7. \A b \in Client :
          client'[b].conn.key = NilKey => \A k \in K : f[k] # <<b, sessions'[b]>>
    BY <1>2, <1>3, <2>1, <2>3
  <2>8. Charged(K, f)'
    BY <1>2, <1>3, <2>4, <2>5, <2>6, <2>7 DEF Charged
  <2> QED BY <2>8
<1> QED BY <1>4, <1>5, <1>6 DEF ClientEffect

(* The server admits keys that it was sent, or that it had admitted.       *)
LEMMA ChargeServer ==
  ASSUME ServerInv, ChargeInv, ServerEffect
  PROVE  \E K, f : Charged(K, f)'
<1>1. PICK K, f : Charged(K, f)
  BY DEF ChargeInv
<1>2. client' = client /\ sessions' = sessions /\ toServer' \subseteq toServer
  BY DEF ServerEffect, clientVars
<1>3. \A x, key : Licensed(x, key) => key \in K
  BY <1>1 DEF Licensed, Charged, ServerInv, EntryOK
<1>4. joined' \subseteq K
  BY <1>1, <1>3 DEF Charged, ServerEffect
<1>5. Slots' = Slots
  BY <1>2 DEF Slots
<1>6. Charged(K, f)'
  BY <1>1, <1>2, <1>4, <1>5 DEF Charged
<1> QED BY <1>6

(* At any time, keys in use can be charged to sessions.                    *)
LEMMA ChargeAlways == Spec => []ChargeInv
<1>1. Init => ChargeInv
  <2> SUFFICES ASSUME Init PROVE ChargeInv
    OBVIOUS
  <2>1. \A a \in Client : /\ client[a].conn.key = NilKey
                          /\ client[a].conn.state = "Idle"
    BY DEF Init, NewClient, NewConnection
  <2> DEFINE f == [k \in {} |-> 0]
  <2>2. Charged({}, f)
    BY <2>1, KeysAreHandles DEF Charged, Init
  <2> QED BY <2>1, <2>2 DEF ChargeInv
<1>2. ClientsInv /\ ServerInv /\ ChargeInv /\ [Next]_vars => ChargeInv'
  <2> SUFFICES ASSUME ClientsInv, ServerInv, ChargeInv, [Next]_vars
               PROVE  ChargeInv'
    OBVIOUS
  <2>1. \A a \in Client : client'[a].conn.state = "Challenging" => sessions'[a] >= 1
    BY SessionBegun DEF ChargeInv
  <2>2. \E K, f : Charged(K, f)'
    <3>1. CASE QuietEffect
      <4>1. PICK K, f : Charged(K, f)
        BY DEF ChargeInv
      <4>2. Slots' = Slots
        BY <3>1 DEF Slots, QuietEffect
      <4>3. Charged(K, f)'
        BY <3>1, <4>1, <4>2 DEF Charged, QuietEffect
      <4> QED BY <4>3
    <3> QED BY <3>1, NextEffect, ChargeClient, ChargeServer
  <2> QED BY <2>1, <2>2 DEF ChargeInv
<1> QED BY <1>1, <1>2, TypesAlways, PTL DEF Spec

(* However many datagrams are lost, repeated or late, however often the    *)
(* server restarts or times a connection out and makes a new one, and      *)
(* however the clients' ports change, the game is told of at most one      *)
(* player for each time a client called Connect (IStateManager::Connect,   *)
(* which Connection calls for a Connect with the connection's key).        *)
THEOREM OnePlayerPerSessionAlways == Spec => []OnePlayerPerSession
<1>1. ChargeInv => OnePlayerPerSession
  <2> SUFFICES ASSUME ChargeInv PROVE OnePlayerPerSession
    OBVIOUS
  <2>1. PICK K, f : Charged(K, f)
    BY DEF ChargeInv
  <2> DEFINE g == [k \in joined |-> f[k]]
  <2>2. g \in [joined -> Slots] /\ \A j, k \in joined : g[j] = g[k] => j = k
    BY <2>1 DEF Charged
  <2>3. g \in Injection(joined, Slots)
    BY <2>2 DEF Injection, IsInjective
  <2> QED BY <2>3 DEF OnePlayerPerSession, ExistsInjection, Slots
<1> QED BY <1>1, ChargeAlways, PTL

-----------------------------------------------------------------------------
(* The first session of a client.  ConnectResponse carries no key: that a  *)
(* client that reads one was admitted rests on the response having been    *)
(* caused by its own Connect.  It was, if no other client is behind the    *)
(* same ip and the client had no earlier session, whose answers may still  *)
(* be under way.                                                           *)

Own(a, x) == Host(x) = Host(Home(a))

Alone(a) == \A b \in Client : Own(a, Home(b)) => b = a

FirstSession(a) == Alone(a) /\ sessions[a] <= 1

(* What the network and the server hold for the host of a client: Connects *)
(* with the client's key, connections with that key where there is a       *)
(* handle, and a ConnectResponse only if that key was admitted.            *)
Caused(a) ==
  LET key == client[a].conn.key
  IN  /\ \A m \in toServer :
           Own(a, m.address) /\ m.packet.cmd = "Connect" => m.packet.key = key
      /\ \A x \in DOMAIN server :
           Own(a, x) /\ server[x].conn.handle # NoHandle => server[x].conn.key = key
      /\ \A m \in toClient :
           Own(a, m.address) /\ m.packet.cmd = "ConnectResponse" => key \in joined
      /\ ClientConnected(a) => key \in joined

SessionInv ==
  /\ \A a \in Client : Own(a, nat[a])
  /\ \A a \in Client : sessions[a] = 0 => client[a].conn.key = NilKey
  /\ \A a \in Client : sessions[a] <= MaxSessions
  /\ \A a \in Client : FirstSession(a) => Caused(a)

(* The client's own steps.                                                 *)
LEMMA CausedByItself ==
  ASSUME ClientsInv, ServerInv, ChargeInv, SessionInv,
         NEW a \in Client, ClientEffect(a), FirstSession(a)'
  PROVE  Caused(a)'
<1>1. /\ UNCHANGED <<server, joined, nat>> /\ toClient' \subseteq toClient
      /\ \A m \in toServer' \ toServer :
           m.packet.cmd = "Connect" => m.packet.key = client'[a].conn.key
      /\ sessions[a] \in Nat
  BY DEF ClientEffect, serverVars, ClientsInv
<1>2. Caused(a)
  <2>1. sessions[a] <= sessions'[a]
    BY <1>1 DEF ClientEffect, ClientsInv
  <2>2. sessions'[a] \in Nat
    BY DEF ClientEffect, ClientsInv
  <2>3. FirstSession(a)
    BY <1>1, <2>1, <2>2 DEF FirstSession, Alone
  <2> QED BY <2>3 DEF SessionInv
<1>3. CASE /\ client'[a].conn.key = client[a].conn.key
           /\ ClientConnected(a)' => client'[a].conn.key \in joined
  BY <1>1, <1>2, <1>3 DEF Caused
<1>4. CASE /\ client'[a].conn.key = client[a].conn.key
           /\ client'[a].conn.state \in {"Challenging", "ConnectedToServer"}
                => client'[a].conn.state = client[a].conn.state
  <2>1. ClientConnected(a)' => client'[a].conn.key \in joined
    BY <1>2, <1>4 DEF Caused, ClientConnected
  <2> QED BY <1>3, <1>4, <2>1
<1>5. CASE /\ client[a].conn.state = "Challenging"
           /\ client'[a].conn.state = "Connecting"
           /\ client'[a].conn.key \in Key
  <2>1. client[a].conn.key = NilKey
    BY <1>5 DEF ClientsInv, ClientOK
  <2>2. /\ NilKey \notin Key /\ joined \subseteq Key
        /\ \A x \in DOMAIN server : server[x].conn.key \in Key
        /\ \A m \in toServer : m.packet.cmd = "Connect" => m.packet.key \in Key
    BY KeysAreHandles DEF ServerInv, EntryOK, ChargeInv, Charged
  <2>3. ~ClientConnected(a)'
    BY <1>5 DEF ClientConnected
  <2> QED BY <1>1, <1>2, <2>1, <2>2, <2>3 DEF Caused
<1>6. CASE /\ client'[a].conn.key = client[a].conn.key
           /\ \E m \in toClient :
                m.address = nat[a] /\ m.packet.cmd = "ConnectResponse"
  <2>1. client[a].conn.key \in joined
    BY <1>2, <1>6 DEF Caused, SessionInv
  <2> QED BY <1>3, <1>6, <2>1
<1>7. CASE /\ sessions' = [sessions EXCEPT ![a] = @ + 1]
           /\ client'[a].conn.key = NilKey
           /\ client'[a].conn.state # "ConnectedToServer"
  <2>1. sessions'[a] = sessions[a] + 1 /\ sessions'[a] <= 1
    BY <1>7 DEF ClientsInv, FirstSession
  <2>2. client[a].conn.key = NilKey
    BY <1>1, <2>1 DEF SessionInv
  <2> QED BY <1>3, <1>7, <2>2 DEF ClientConnected
<1> QED BY <1>4, <1>5, <1>6, <1>7 DEF ClientEffect

(* The steps of another client, which is on another host.                  *)
LEMMA CausedByOthers ==
  ASSUME ClientsInv, SessionInv,
         NEW a \in Client, NEW b \in Client \ {a}, ClientEffect(b), FirstSession(a)'
  PROVE  Caused(a)'
<1>1. /\ UNCHANGED <<server, joined, nat>> /\ toClient' \subseteq toClient
      /\ client'[a] = client[a]
      /\ sessions'[a] = sessions[a]
      /\ \A m \in toServer' \ toServer :
           m.packet.cmd = "Connect" => m.address = nat[b]
  BY DEF ClientEffect, serverVars, ClientsInv
<1>2. ~Own(a, nat[b])
  BY DEF SessionInv, Own, FirstSession, Alone
<1>3. FirstSession(a)
  BY <1>1 DEF FirstSession, Alone
<1>4. Caused(a)
  BY <1>3 DEF SessionInv
<1> QED BY <1>1, <1>2, <1>4 DEF Caused, ClientConnected

(* The steps of the server, which answers what it was told.                *)
LEMMA CausedByServer ==
  ASSUME SessionInv, NEW a \in Client, ServerEffect, FirstSession(a)'
  PROVE  Caused(a)'
<1>1. /\ client' = client /\ sessions' = sessions
      /\ toServer' \subseteq toServer /\ joined \subseteq joined'
  BY DEF ServerEffect, clientVars
<1>2. Caused(a)
  BY <1>1 DEF SessionInv, FirstSession, Alone
<1>3. \A x, key : Own(a, x) /\ Licensed(x, key) => key = client[a].conn.key
  BY <1>2 DEF Caused, Licensed, Own
<1>4. \A x \in DOMAIN server' :
        Own(a, x) /\ server'[x].conn.handle # NoHandle
          => server'[x].conn.key = client[a].conn.key
  BY <1>3 DEF ServerEffect
<1>5. \A m \in toClient' :
        Own(a, m.address) /\ m.packet.cmd = "ConnectResponse"
          => client[a].conn.key \in joined'
  BY <1>1, <1>2, <1>3 DEF Caused, ServerEffect
<1> QED BY <1>1, <1>2, <1>4, <1>5 DEF Caused, ClientConnected

(* Losses, ports and time cause nothing.                                   *)
LEMMA CausedQuietly ==
  ASSUME SessionInv, NEW a \in Client, QuietEffect, FirstSession(a)'
  PROVE  Caused(a)'
<1>1. Caused(a)
  BY DEF SessionInv, FirstSession, Alone, QuietEffect
<1> QED BY <1>1 DEF Caused, ClientConnected, QuietEffect

(* The last invariant, which needs both others.                            *)
LEMMA SessionAlways == Spec => []SessionInv
<1>1. Init => SessionInv
  <2> SUFFICES ASSUME Init PROVE SessionInv
    OBVIOUS
  <2>1. \A a \in Client : /\ client[a].conn.key = NilKey
                          /\ client[a].conn.state = "Idle"
                          /\ nat[a] = Home(a)
                          /\ sessions[a] = 0
    BY DEF Init, NewClient, NewConnection
  <2>2. toServer = {} /\ toClient = {} /\ DOMAIN server = {}
    BY DEF Init
  <2>3. 0 <= MaxSessions
    BY ClientServerAssumption
  <2> QED BY <2>1, <2>2, <2>3 DEF SessionInv, Own, Caused, ClientConnected
<1>2. ClientsInv /\ ServerInv /\ ChargeInv /\ SessionInv /\ [Next]_vars => SessionInv'
  <2> SUFFICES ASSUME ClientsInv, ServerInv, ChargeInv, SessionInv, [Next]_vars
               PROVE  SessionInv'
    OBVIOUS
  <2>1. CASE \E a \in Client : ClientEffect(a) /\ ServerInv'
    <3>1. PICK a \in Client : ClientEffect(a)
      BY <2>1
    <3>2. /\ nat' = nat
          /\ \A b \in Client \ {a} : client'[b] = client[b] /\ sessions'[b] = sessions[b]
      BY <3>1 DEF ClientEffect, ClientsInv
    <3>3. sessions'[a] = 0 => client'[a].conn.key = NilKey
      BY <3>1 DEF ClientEffect, SessionInv, ChargeInv, ClientsInv
    <3>4. sessions'[a] <= MaxSessions
      BY <3>1, ClientServerAssumption DEF ClientEffect, SessionInv, ClientsInv
    <3>5. \A b \in Client : FirstSession(b)' => Caused(b)'
      BY <3>1, CausedByItself, CausedByOthers
    <3> QED BY <3>2, <3>3, <3>4, <3>5 DEF SessionInv, Own
  <2>2. CASE ServerEffect /\ ClientsInv'
    <3>1. \A b \in Client : FirstSession(b)' => Caused(b)'
      BY <2>2, CausedByServer
    <3> QED BY <2>2, <3>1 DEF SessionInv, Own, ServerEffect, clientVars
  <2>3. CASE QuietEffect
    <3>1. \A b \in Client : FirstSession(b)' => Caused(b)'
      BY <2>3, CausedQuietly
    <3> QED BY <2>3, <3>1 DEF SessionInv, Own, QuietEffect
  <2> QED BY <2>1, <2>2, <2>3, NextEffect
<1> QED BY <1>1, <1>2, TypesAlways, ChargeAlways, PTL DEF Spec

(* In its first session, a client that nobody shares an ip with is known   *)
(* to the game when it believes it is connected, and any connection the    *)
(* server has at its address, and has connected, is the client's own.      *)
FirstSessionHolds(a) ==
  /\ ClientConnected(a) => client[a].conn.key \in joined
  /\ ServerConnected(a) => client[a].conn.key = server[nat[a]].conn.key

(* Whatever the fault model, and whatever the other clients do and however *)
(* often they connect.                                                     *)
THEOREM FirstSessionHoldsAlways ==
  Spec => [](\A a \in Client : FirstSession(a) => FirstSessionHolds(a))
<1>1. ServerInv /\ SessionInv
        => \A a \in Client : FirstSession(a) => FirstSessionHolds(a)
  <2> SUFFICES ASSUME ServerInv, SessionInv, NEW a \in Client, FirstSession(a)
               PROVE  FirstSessionHolds(a)
    OBVIOUS
  <2>1. Caused(a) /\ Own(a, nat[a])
    BY DEF SessionInv
  <2>2. ServerConnected(a) => server[nat[a]].conn.handle # NoHandle
    BY DEF ServerConnected, ServerInv, EntryOK, Sound, IsConnected
  <2> QED BY <2>1, <2>2 DEF Caused, FirstSessionHolds, ServerConnected
<1> QED BY <1>1, TypesAlways, SessionAlways, PTL

(* Where every client is alone and connects once, a connected client is    *)
(* known to the game (what a second session breaks is a run's finding).    *)
THEOREM ConnectedClientIsKnownOnce ==
  ASSUME MaxSessions <= 1, \A a \in Client : Alone(a)
  PROVE  Spec => []ConnectedClientIsKnown
<1>1. ClientsInv /\ SessionInv => \A a \in Client : FirstSession(a)
  BY ClientServerAssumption DEF ClientsInv, SessionInv, FirstSession
<1>2. (\A a \in Client : FirstSession(a))
        /\ (\A a \in Client : FirstSession(a) => FirstSessionHolds(a))
          => ConnectedClientIsKnown
  BY DEF FirstSessionHolds, ConnectedClientIsKnown
<1> QED BY <1>1, <1>2, TypesAlways, SessionAlways, FirstSessionHoldsAlways, PTL

(* And client and server agree on the key of their connection.             *)
THEOREM KeysAgreeOnce ==
  ASSUME MaxSessions <= 1, \A a \in Client : Alone(a)
  PROVE  Spec => []KeysAgree
<1>1. ClientsInv /\ SessionInv => \A a \in Client : FirstSession(a)
  BY ClientServerAssumption DEF ClientsInv, SessionInv, FirstSession
<1>2. (\A a \in Client : FirstSession(a))
        /\ (\A a \in Client : FirstSession(a) => FirstSessionHolds(a))
          => KeysAgree
  BY DEF FirstSessionHolds, KeysAgree
<1> QED BY <1>1, <1>2, TypesAlways, SessionAlways, FirstSessionHoldsAlways, PTL

=============================================================================
