---------------------------- MODULE InMemoryLink ----------------------------
(***************************************************************************)
(* The numbered deltas of SequenceFilter sent over the simulated network,  *)
(* in the loop of TestClientServer.cpp, with several clients, latencies    *)
(* and losses as in TestClientServerN.cpp: on every tick each program has  *)
(* one turn, in which RunAs names it, ProcessIncomming takes what has come *)
(* and looks at one datagram after the other, and SendState sends.  The    *)
(* server sends to all clients in one call.  One client is connected       *)
(* and answers; another comes and goes, and so resets and disables the     *)
(* network that they share.                                                *)
(***************************************************************************)
EXTENDS SequenceFilter, Sequences, FiniteSetsExt

CONSTANTS
  Server, Receiver, Bystander,  \* the endpoints
  Worlds,                       \* what RunAs may be given for them
  MaxAnswers,                   \* bound: datagrams of each client
  MaxResets,                    \* bound: how often the bystander connects
  MaxTime                       \* bound: ticks

VARIABLES
  packetsOf, currentSource, settings, losingPackets, disabled, now,
  inbox,   \* what Receive returned and the caller has not yet looked at
  phase,   \* where in its turn currentSource is
  ran,     \* who had a turn on this tick
  sends,   \* history: how often each has sent
  resets,  \* history: how often the network was reset
  world    \* which of Worlds

Peer == {Server, Receiver, Bystander}

Net == INSTANCE NetworkProviderInMemory

(* Sequences wrap, so that nothing from the server may be half of them     *)
(* late; a datagram can be one tick late without any latency.              *)
ASSUME InMemoryLinkAssumption ==
  /\ Server # Receiver /\ Server # Bystander /\ Receiver # Bystander
  /\ Worlds \subseteq [Peer -> Net!Settings]
  /\ \A w \in Worlds :
       /\ w[Server].latency \subseteq 0 .. Half - 1
       /\ w[Server].latencyMinimum < Half
  /\ Half > 1
  /\ MaxAnswers \in Nat
  /\ MaxResets \in Nat
  /\ MaxTime \in Nat

networkVars == <<packetsOf, currentSource, settings, losingPackets, disabled>>
linkVars == <<inbox, phase, ran, sends, resets, world>>
allVars == <<vars, networkVars, now, linkVars>>

LinkInit ==
  /\ Init
  /\ Net!Init
  /\ inbox = << >>
  /\ phase = "idle"
  /\ ran = {}
  /\ sends = [p \in Peer |-> 0]
  /\ resets = 0
  /\ world \in Worlds

-----------------------------------------------------------------------------
Turn(p) ==
  /\ phase = "idle"
  /\ p \notin ran
  /\ Net!RunAs(p, world[p])
  /\ phase' = "running"
  /\ UNCHANGED <<vars, inbox, ran, sends, resets, world>>

(* packets = myNetwork.Receive()                                           *)
Poll ==
  /\ phase = "running"
  /\ Net!PrivateReceive
  /\ inbox' = Net!Received
  /\ phase' = "handling"
  /\ UNCHANGED <<vars, ran, sends, resets, world>>

(* The connection of the receiver sees the deltas one by one.              *)
Handle ==
  /\ phase = "handling"
  /\ currentSource = Receiver
  /\ inbox # << >>
  /\ inbox' = Tail(inbox)
  /\ IF Head(inbox).from = Server THEN Deliver(Head(inbox).n) ELSE UNCHANGED vars
  /\ UNCHANGED <<networkVars, now, phase, ran, sends, resets, world>>

(* What the others receive is not followed further.                        *)
Skip ==
  /\ phase = "handling"
  /\ currentSource # Receiver
  /\ inbox # << >>
  /\ inbox' = << >>
  /\ UNCHANGED <<vars, networkVars, now, phase, ran, sends, resets, world>>

Done ==
  /\ phase' = "idle"
  /\ ran' = ran \cup {currentSource}

MaySend ==
  /\ phase = "handling"
  /\ inbox = << >>

(* A datagram that leaves on this tick.                                    *)
Datagram(to) ==
  [from |-> currentSource, to |-> to, n |-> sends[currentSource] + 1,
   at |-> now]

Sent == sends' = [sends EXCEPT ![currentSource] = @ + 1]

(* The server's SendState: the next state, for both clients.               *)
ServerSends ==
  /\ MaySend
  /\ currentSource = Server
  /\ Advance
  /\ Net!PrivateSend(<<Datagram(Receiver), Datagram(Bystander)>>)
  /\ Sent
  /\ Done
  /\ UNCHANGED <<inbox, resets, world>>

(* A client answers.  The bystander is in its handshake and polls it only  *)
(* while the network is not disabled.                                      *)
ClientSends ==
  /\ MaySend
  /\ currentSource # Server
  /\ sends[currentSource] < MaxAnswers
  /\ currentSource = Bystander => ~Net!PrivateIsDisabled
  /\ Net!PrivateSend(<<Datagram(Server)>>)
  /\ Sent
  /\ Done
  /\ UNCHANGED <<vars, inbox, resets, world>>

(* Nothing to send: a state too far ahead of the receiver, a client that   *)
(* may not or need not.                                                    *)
SendsNothing ==
  /\ MaySend
  /\ currentSource = Server => ~(count < MaxCount /\ count + 1 - newest < Half)
  /\ Done
  /\ UNCHANGED <<vars, networkVars, now, inbox, sends, resets, world>>

(* The bystander's program begins a session, NetworkManagerClientGuts      *)
(* Connect, or ends one by Fail.                                           *)
BystanderConnects ==
  /\ phase = "running"
  /\ currentSource = Bystander
  /\ resets < MaxResets
  /\ Net!PrivateReset
  /\ resets' = resets + 1
  /\ UNCHANGED <<vars, inbox, phase, ran, sends, world>>

BystanderFails ==
  /\ MaySend
  /\ currentSource = Bystander
  /\ Net!PrivateDisable
  /\ Done
  /\ UNCHANGED <<vars, inbox, sends, resets, world>>

(* The clock moves when every program has had its turn.                    *)
Pass ==
  /\ phase = "idle"
  /\ ran = Peer
  /\ now < MaxTime
  /\ ran' = {}
  /\ now' = now + 1
  /\ UNCHANGED <<vars, networkVars, inbox, phase, sends, resets, world>>

LinkNext ==
  \/ \E p \in Peer : Turn(p)
  \/ Poll
  \/ Handle
  \/ Skip
  \/ ServerSends
  \/ ClientSends
  \/ SendsNothing
  \/ BystanderConnects
  \/ BystanderFails
  \/ Pass

LinkSpec == LinkInit /\ [][LinkNext]_allVars

-----------------------------------------------------------------------------
Queued == UNION { { packetsOf[p][i].data : i \in DOMAIN packetsOf[p] } :
                    p \in Peer }

InInbox == { inbox[i] : i \in DOMAIN inbox }

Network == INSTANCE LossyNetwork WITH pending <- Queued, handed <- InInbox

(* Whatever the chances are and whoever resets, the simulated network is a *)
(* lossy network: no datagram comes twice, to another address, or back     *)
(* after it was lost.                                                      *)
IsLossyNetwork == Network!Spec

(* Over it the filter is fed as SequenceFilter assumes, so that what is    *)
(* proved of it holds here: no delta is half the sequence numbers late, as *)
(* it waits at most the longest latency in a queue that is emptied on      *)
(* every tick.                                                             *)
DeltasInTime ==
  currentSource = Receiver
    => \A d \in InInbox : d.from = Server => d.n \in InTime

(* A datagram is not received before the least latency of its sender has   *)
(* passed (TestNetworkProviderInMemory.cpp, "Minimum latency is 100 ms."). *)
NeverEarly ==
  \A d \in InInbox :
    now >= d.at + Net!Validated(world[d.from]).latencyMinimum

(* Without swaps one call of Receive returns what each sender sent in the  *)
(* order of sending, whatever the latencies.                               *)
BatchesInOrder ==
  (\A p \in Peer : Net!Validated(world[p]).outOfOrder = 0)
    => \A i, j \in DOMAIN inbox :
         i < j /\ inbox[i].from = inbox[j].from => inbox[i].n < inbox[j].n

(* How late a sender's datagrams may be: its latencies, and the tick that  *)
(* passes when the receiver had its turn already.                          *)
LagsOf(p) ==
  LET valid == Net!Validated(world[p])
  IN  { drawn \in valid.latency : drawn > valid.latencyMinimum }
        \cup {valid.latencyMinimum, 1}

(* While nobody resets and the server loses nothing, the receiver is never *)
(* behind by more than the longest latency and the tick it is in.          *)
KeepsUp ==
  resets = 0 /\ Net!Validated(world[Server]).lossPerPacket = 0
    => count - newest <= Max(LagsOf(Server)) + 1

=============================================================================
