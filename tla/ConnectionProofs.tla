-------------------------- MODULE ConnectionProofs --------------------------
(***************************************************************************)
(* What one call does to a Connection, for every set of datagrams, keys    *)
(* and handles, every number of retries and every retry period: lemmas for *)
(* the modules that hold Connections in their variables.  They rest on     *)
(* what its fragment buffer holds and returns, which comes first.          *)
(***************************************************************************)
EXTENDS Connection, WrappingCounterProofs

-----------------------------------------------------------------------------
(* PacketFragmentManager: any buffer and any fragment.                     *)

FragmentsType == [current : Sequence, parts : Seq(FragmentPackets)]

(* A default constructed Sequence is a counter value.                      *)
LEMMA SequenceHasZero == 0 \in Sequence
BY HalfAssumption DEF Sequence, MaxValue, Modulus

(* A default constructed PacketFragmentManager is a buffer.                *)
LEMMA NoFragmentsType == NoFragments \in FragmentsType
BY SequenceHasZero DEF NoFragments, FragmentsType

(* AddPacket keeps the buffer a buffer.                                    *)
LEMMA AddPacketType ==
  ASSUME NEW m \in FragmentsType, NEW f \in FragmentPackets
  PROVE  AddPacket(m, f) \in FragmentsType
<1> DEFINE kept == IF Less(m.current, f.seq) THEN << >> ELSE m.parts
<1>1. kept \in Seq(FragmentPackets)
  BY DEF FragmentsType
<1>2. f.seq \in Sequence
  BY DEF FragmentPackets
<1>3. Append(kept, f) \in Seq(FragmentPackets) /\ << f >> \in Seq(FragmentPackets)
  BY <1>1
<1> QED BY <1>1, <1>2, <1>3 DEF AddPacket, FragmentsType

(* Where there is a piece with an index, the last of them is one of them.  *)
LEMMA SortedType ==
  ASSUME NEW parts \in Seq(FragmentPackets), NEW i, Filled(parts, i)
  PROVE  Sorted(parts, i) \in FragmentPackets
<1> DEFINE S == { k \in DOMAIN parts : parts[k].index = i }
<1>1. Len(parts) \in Nat /\ DOMAIN parts = 1 .. Len(parts)
  OBVIOUS
<1>2. S \in SUBSET (0 .. Len(parts))
  BY <1>1
<1>3. S # {}
  BY DEF Filled
<1>4. Max(S) \in S
  BY <1>1, <1>2, <1>3, MaxOfBounded
<1>5. Max(S) \in DOMAIN parts
  BY <1>4
<1>6. parts[Max(S)] \in FragmentPackets
  BY <1>5, <1>1
<1> QED BY <1>6 DEF Sorted

(* What the buffer returns is nothing or a delta, whatever was put in it   *)
(* and in whatever order.                                                  *)
LEMMA GetDefragmentedPacketType ==
  ASSUME NEW m \in FragmentsType
  PROVE  GetDefragmentedPacket(m) \in DeltaPackets \cup {NoPacket}
<1>1. CASE ~Complete(m.parts)
  BY <1>1 DEF GetDefragmentedPacket
<1>2. CASE Complete(m.parts)
  <2> DEFINE whole == Sorted(m.parts, 0).whole
  <2>1. m.parts \in Seq(FragmentPackets) /\ Filled(m.parts, 0)
    BY <1>2 DEF FragmentsType, Complete
  <2>2. whole \in DeltaPackets
    BY <2>1, SortedType DEF FragmentPackets
  <2>3. [whole EXCEPT !.data = Stitched] \in DeltaPackets
    BY <2>2 DEF DeltaPackets
  <2> HIDE DEF whole
  <2>4. Joined(m.parts) \in {whole, [whole EXCEPT !.data = Stitched]}
    BY DEF Joined, whole
  <2> QED BY <1>2, <2>2, <2>3, <2>4 DEF GetDefragmentedPacket
<1> QED BY <1>1, <1>2

-----------------------------------------------------------------------------
(* Connection.                                                             *)

(* A connection between calls: typed, with a handle when connected and     *)
(* none during a client's handshake, and failed by its peer only if keyed. *)
Sound(c) ==
  /\ c \in ConnectionType
  /\ IsConnected(c) => c.handle # NoHandle
  /\ c.state \in Phase => c.handle = NoHandle
  /\ c.reason = "Remote" => c.key \in Key

Handles == StateHandle \cup {NoHandle}

ResultType == [c : ConnectionType, out : Packet, asked : BOOLEAN]

(* What a call of Process with a handle h on offer makes of a connection   *)
(* c: it stays sound, takes a handle once, and when Listening counts what  *)
(* it answers.                                                             *)
StepOf(c, h, r) ==
  /\ r \in ResultType
  /\ Sound(r.c)
  /\ r.asked /\ h # NoHandle => c.handle = NoHandle /\ r.c.handle # NoHandle
  /\ ~(r.asked /\ h # NoHandle) => r.c.handle = c.handle
  /\ c.state # "Listening" => r.c.state # "Listening"
  /\ c.state = "Listening"
       => /\ r.c.state \in {"Listening", "ConnectedToClient", "FailedConnection"}
          /\ r.c.state = "Listening" => r.c.count >= c.count
          /\ r.out # NoPacket
               => /\ c.count < FloodTrigger
                  /\ r.c.state = "Listening" => r.c.count = c.count + 1

(* The counters of a Connection have room for the values it gives them.    *)
LEMMA Bounds ==
  /\ FloodTrigger \in Nat
  /\ HandshakeRetries + 1 <= FloodTrigger
  /\ MaxAge \in Nat
  /\ 2 * RetryPeriod \in 0 .. MaxAge
<1>1. /\ HandshakeRetries \in Nat \ {0}
      /\ RetryPeriod \in Nat \ {0}
  BY ConnectionAssumption
<1>2. FloodTrigger \in Nat /\ HandshakeRetries + 1 <= FloodTrigger
  BY <1>1 DEF FloodTrigger
<1>3. RetryPeriod * (HandshakeRetries + 2) = RetryPeriod * HandshakeRetries + 2 * RetryPeriod
  BY <1>1
<1>4. RetryPeriod * HandshakeRetries \in Nat
  BY <1>1
<1>5. MaxAge \in Nat /\ 2 * RetryPeriod \in 0 .. MaxAge
  BY <1>1, <1>3, <1>4 DEF MaxAge
<1> QED BY <1>2, <1>5

(* Reset changes the state, the count and the clock and nothing else.      *)
LEMMA ResetType ==
  ASSUME NEW c \in ConnectionType, NEW s \in States
  PROVE  /\ Reset(c, s) \in ConnectionType
         /\ Reset(c, s).state = s
         /\ Reset(c, s).count = 0
         /\ Reset(c, s).handle = c.handle
         /\ Reset(c, s).reason = c.reason
         /\ Reset(c, s).key = c.key
<1>1. 0 \in 0 .. FloodTrigger /\ 2 * RetryPeriod \in 0 .. MaxAge
  BY Bounds
<1> DEFINE d == [c EXCEPT !.state = s, !.count = 0, !.age = 2 * RetryPeriod]
<1>2. d \in ConnectionType
  BY <1>1 DEF ConnectionType
<1>3. /\ d.state = s /\ d.count = 0 /\ d.handle = c.handle
      /\ d.reason = c.reason /\ d.key = c.key
  BY DEF ConnectionType
<1> QED BY <1>2, <1>3 DEF Reset

(* Fail changes the state and the reason and nothing else.                 *)
LEMMA FailType ==
  ASSUME NEW c \in ConnectionType, NEW s \in Reasons
  PROVE  /\ Fail(c, s) \in ConnectionType
         /\ Fail(c, s).state = "FailedConnection"
         /\ Fail(c, s).handle = c.handle
         /\ Fail(c, s).reason = s
         /\ Fail(c, s).key = c.key
         /\ Fail(c, s).count = c.count
BY DEF Fail, ConnectionType, States

(* A counted datagram stays within FloodTrigger if the count was below.    *)
LEMMA SentType ==
  ASSUME NEW c \in ConnectionType, c.count < FloodTrigger
  PROVE  /\ Sent(c) \in ConnectionType
         /\ Sent(c).state = c.state
         /\ Sent(c).count = c.count + 1
         /\ Sent(c).handle = c.handle
         /\ Sent(c).reason = c.reason
         /\ Sent(c).key = c.key
<1>1. c.count + 1 \in 0 .. FloodTrigger /\ 0 \in 0 .. MaxAge
  BY Bounds DEF ConnectionType
<1> DEFINE d == [c EXCEPT !.age = 0, !.count = @ + 1]
<1>2. d \in ConnectionType
  BY <1>1 DEF ConnectionType
<1>3. /\ d.state = c.state /\ d.count = c.count + 1 /\ d.handle = c.handle
      /\ d.reason = c.reason /\ d.key = c.key
  BY DEF ConnectionType
<1> QED BY <1>2, <1>3 DEF Sent

(* The command byte decides which fields a datagram has.                   *)
LEMMA PacketByCommand ==
  ASSUME NEW p \in Packet
  PROVE  /\ p.cmd = "Delta" => p \in DeltaPackets
         /\ p.cmd = "Fragment" => p \in FragmentPackets
         /\ p.cmd \in {"Info", "Connect", "Disconnect"} => p \in KeyPackets
         /\ p.cmd = "ChallengeResponse" => p \in VersionPackets
BY DEF Packet, PlainPackets, KeyPackets, VersionPackets, DeltaPackets,
       FragmentPackets

(* What Process returns are datagrams.                                     *)
LEMMA PacketMembers ==
  /\ NoPacket \in Packet
  /\ ConnectResponse \in Packet
  /\ InfoResponse \in Packet
  /\ Challenge \in Packet
  /\ DeltaPackets \subseteq Packet
  /\ \A key \in Keys : /\ Disconnect(key) \in Packet
                       /\ Connect(key) \in Packet
                       /\ ChallengeResponse(key, Version) \in Packet
BY DEF Packet, PlainPackets, KeyPackets, VersionPackets, NoPacket,
       ConnectResponse, InfoResponse, Challenge, Disconnect, Connect,
       ChallengeResponse, Versions, Version

(* Taking a delta leaves the state, the handle and the key alone.          *)
LEMMA TakeDeltaType ==
  ASSUME NEW c \in ConnectionType, NEW d \in DeltaPackets
  PROVE  /\ TakeDelta(c, d) \in ConnectionType
         /\ TakeDelta(c, d).state = c.state
         /\ TakeDelta(c, d).handle = c.handle
         /\ TakeDelta(c, d).reason = c.reason
         /\ TakeDelta(c, d).key = c.key
         /\ TakeDelta(c, d).count = c.count
<1>1. d.seq \in Sequence /\ d.ack \in Sequence \cup {NoAck}
  BY DEF DeltaPackets
<1> QED BY <1>1 DEF TakeDelta, ConnectionType

-----------------------------------------------------------------------------
(* The calls that leave the state alone.                                   *)
LEMMA QuietStep ==
  ASSUME NEW c, Sound(c), NEW h \in Handles
  PROVE  StepOf(c, h, Quiet(c))
<1>1. c \in ConnectionType
  BY DEF Sound
<1>2. c.count \in Int
  BY <1>1 DEF ConnectionType
<1> QED
  BY <1>1, <1>2, PacketMembers DEF StepOf, Quiet, ResultType, Sound

(* A Disconnect with the connection's own key.                             *)
LEMMA RemoteStep ==
  ASSUME NEW c, Sound(c), NEW h \in Handles, NEW p, SaysDisconnect(c, p)
  PROVE  /\ Sound(Fail(c, "Remote"))
         /\ StepOf(c, h, Quiet(Fail(c, "Remote")))
<1>1. c \in ConnectionType /\ "Remote" \in Reasons
  BY DEF Sound, Reasons
<1>2. c.key \in Key
  BY <1>1 DEF SaysDisconnect, ValidWithKey, ConnectionType, Keys
<1>3. Sound(Fail(c, "Remote"))
  BY <1>1, <1>2, FailType DEF Sound, IsConnected, Phase
<1>4. /\ Fail(c, "Remote").state = "FailedConnection"
      /\ Fail(c, "Remote").handle = c.handle
      /\ Fail(c, "Remote") \in ConnectionType
  BY <1>1, FailType
<1> QED BY <1>3, <1>4, PacketMembers DEF StepOf, Quiet, ResultType

(* Any other failure, with or without a Disconnect in answer.              *)
LEMMA FailSound ==
  ASSUME NEW c, Sound(c), NEW s \in Reasons \ {"Remote"}
  PROVE  /\ Sound(Fail(c, s))
         /\ Fail(c, s) \in ConnectionType
         /\ Fail(c, s).state = "FailedConnection"
         /\ Fail(c, s).handle = c.handle
<1>1. c \in ConnectionType
  BY DEF Sound
<1> QED BY <1>1, FailType DEF Sound, IsConnected, Phase

(* A delta, whole or joined, or a Disconnect, while connected.             *)
LEMMA ParseDeltaStep ==
  ASSUME NEW c, Sound(c), IsConnected(c), NEW h \in Handles, NEW d,
         IsDelta(d) => d \in DeltaPackets
  PROVE  StepOf(c, h, Quiet(ParseDelta(c, d)))
<1>0. c \in ConnectionType /\ c.state # "Listening"
  BY DEF Sound, IsConnected
<1>1. CASE IsNewDelta(c, d)
  <2>1. d \in DeltaPackets
    BY <1>1 DEF IsNewDelta
  <2>2. Sound(TakeDelta(c, d))
    BY <1>0, <2>1, TakeDeltaType DEF Sound, IsConnected, Phase
  <2>3. StepOf(c, h, Quiet(TakeDelta(c, d)))
    BY <1>0, <2>1, <2>2, TakeDeltaType, PacketMembers
    DEF StepOf, Quiet, ResultType
  <2>4. ~SaysDisconnect(c, d)
    BY <1>1 DEF IsNewDelta, IsDelta, SaysDisconnect, ValidWithKey
  <2> QED BY <1>1, <2>3, <2>4 DEF ParseDelta
<1>2. CASE ~IsNewDelta(c, d) /\ SaysDisconnect(c, d)
  BY <1>2, RemoteStep DEF ParseDelta
<1>3. CASE ~IsNewDelta(c, d) /\ ~SaysDisconnect(c, d)
  BY <1>3, QuietStep DEF ParseDelta
<1> QED BY <1>1, <1>2, <1>3

(* Parsing in ConnectedToServer: a whole delta, a fragment or a            *)
(* Disconnect.                                                             *)
LEMMA ParseConnectedToServerStep ==
  ASSUME NEW c, Sound(c), c.state = "ConnectedToServer",
         NEW p \in Packet, NEW h \in Handles
  PROVE  StepOf(c, h, ParseConnectedToServer(c, p))
<1>0. c \in ConnectionType /\ IsConnected(c)
  BY DEF Sound, IsConnected
<1>1. CASE ~IsFragment(p)
  <2>1. StepOf(c, h, Quiet(ParseDelta(c, p)))
    BY <1>0, PacketByCommand, ParseDeltaStep DEF IsDelta
  <2> QED BY <1>1, <2>1 DEF ParseConnectedToServer
<1>2. CASE IsFragment(p) /\ Greater(p.seq, c.received)
  <2> DEFINE fragments == AddPacket(c.fragments, p)
             joined == GetDefragmentedPacket(fragments)
             held == [c EXCEPT !.fragments = fragments]
  <2>1. p \in FragmentPackets /\ c.fragments \in FragmentsType
    BY <1>2, <1>0, PacketByCommand
    DEF IsFragment, ConnectionType, FragmentsType
  <2>2. fragments \in FragmentsType
    BY <2>1, AddPacketType
  <2>3. joined \in DeltaPackets \cup {NoPacket}
    BY <2>2, GetDefragmentedPacketType
  <2>4. IsDelta(joined) => joined \in DeltaPackets
    BY <2>3 DEF IsDelta, NoPacket
  <2> HIDE DEF fragments, joined
  <2>5. held \in ConnectionType
    BY <1>0, <2>2 DEF ConnectionType, FragmentsType
  <2>6. /\ held.state = c.state /\ held.handle = c.handle
        /\ held.reason = c.reason /\ held.key = c.key
    BY <1>0 DEF ConnectionType
  <2> HIDE DEF held
  <2>7. Sound(held) /\ IsConnected(held)
    BY <1>0, <2>5, <2>6 DEF Sound, IsConnected, Phase
  <2>8. StepOf(held, h, Quiet(ParseDelta(held, joined)))
    BY <2>7, <2>4, ParseDeltaStep
  <2>9. StepOf(c, h, Quiet(ParseDelta(held, joined)))
    BY <2>8, <2>6 DEF StepOf
  <2> QED BY <1>2, <2>9 DEF ParseConnectedToServer, held, joined, fragments
<1>3. CASE IsFragment(p) /\ ~Greater(p.seq, c.received)
  BY <1>3, QuietStep DEF ParseConnectedToServer
<1> QED BY <1>1, <1>2, <1>3

(* Parsing in ConnectedToClient.                                           *)
LEMMA ParseConnectedToClientStep ==
  ASSUME NEW c, Sound(c), c.state = "ConnectedToClient",
         NEW p \in Packet, NEW h \in Handles
  PROVE  StepOf(c, h, ParseConnectedToClient(c, p))
<1>1. StepOf(c, h, Quiet(ParseDelta(c, p)))
  BY PacketByCommand, ParseDeltaStep DEF IsDelta, IsConnected
<1> QED BY <1>1, QuietStep DEF ParseConnectedToClient

(* A change of state that keeps the connection sound as it is.             *)
LEMMA ResetSound ==
  ASSUME NEW c, Sound(c), NEW s \in States,
         s \in {"ConnectedToServer", "ConnectedToClient"} => c.handle # NoHandle,
         s \in Phase => c.handle = NoHandle
  PROVE  /\ Sound(Reset(c, s))
         /\ Reset(c, s) \in ConnectionType
         /\ Reset(c, s).state = s
         /\ Reset(c, s).handle = c.handle
<1>1. c \in ConnectionType
  BY DEF Sound
<1> QED BY <1>1, ResetType DEF Sound, IsConnected

(* Parsing in Challenging: the answer of the server, good or bad.          *)
LEMMA ParseChallengingStep ==
  ASSUME NEW c, Sound(c), c.state = "Challenging",
         NEW p \in Packet, NEW h \in Handles
  PROVE  StepOf(c, h, ParseChallenging(c, p))
<1>0. c \in ConnectionType /\ c.handle = NoHandle
  BY DEF Sound, Phase
<1>1. CASE SaysDisconnect(c, p)
  <2>1. ~ValidChallengeResponse(p)
    BY <1>1 DEF SaysDisconnect, ValidChallengeResponse, ValidWithKey
  <2> QED BY <1>1, <2>1, RemoteStep DEF ParseChallenging
<1>2. CASE ~SaysDisconnect(c, p) /\ ValidChallengeResponse(p)
  <2>1. p.key \in Key
    BY <1>2, PacketByCommand
    DEF ValidChallengeResponse, ValidWithKey, VersionPackets, Keys
  <2>2. CASE p.version = Version
    <3> DEFINE d == [c EXCEPT !.key = p.key]
    <3>1. /\ d \in ConnectionType /\ d.state = c.state
          /\ d.handle = c.handle /\ d.reason = c.reason /\ d.key = p.key
      BY <1>0, <2>1 DEF ConnectionType, Keys
    <3> HIDE DEF d
    <3>2. Sound(d)
      BY <1>0, <2>1, <3>1 DEF Sound, IsConnected
    <3>3. /\ Sound(Reset(d, "Connecting"))
          /\ Reset(d, "Connecting") \in ConnectionType
          /\ Reset(d, "Connecting").state = "Connecting"
          /\ Reset(d, "Connecting").handle = c.handle
      BY <1>0, <3>1, <3>2, ResetSound DEF States
    <3>4. StepOf(c, h, Quiet(Reset(d, "Connecting")))
      BY <3>3, PacketMembers DEF StepOf, Quiet, ResultType
    <3> QED BY <1>2, <2>2, <3>4 DEF ParseChallenging, d
  <2>3. CASE p.version # Version
    <3>1. StepOf(c, h, Quiet(Fail(c, "Version")))
      BY FailSound, PacketMembers DEF StepOf, Quiet, ResultType, Reasons
    <3> QED BY <1>2, <2>3, <3>1 DEF ParseChallenging
  <2> QED BY <2>2, <2>3
<1>3. CASE ~SaysDisconnect(c, p) /\ ~ValidChallengeResponse(p)
  BY <1>3, QuietStep DEF ParseChallenging
<1> QED BY <1>1, <1>2, <1>3

(* Parsing in Connecting: accepted, refused by the own game, or neither.   *)
LEMMA ParseConnectingStep ==
  ASSUME NEW c, Sound(c), c.state = "Connecting",
         NEW p \in Packet, NEW h \in Handles
  PROVE  StepOf(c, h, ParseConnecting(c, p, h))
<1>0. c \in ConnectionType /\ c.handle = NoHandle /\ c.key \in Keys
  BY DEF Sound, Phase, ConnectionType
<1>1. CASE SaysDisconnect(c, p)
  <2>1. p.cmd # "ConnectResponse"
    BY <1>1 DEF SaysDisconnect, ValidWithKey
  <2> QED BY <1>1, <2>1, RemoteStep DEF ParseConnecting
<1>2. CASE p.cmd = "ConnectResponse" /\ h # NoHandle
  <2> DEFINE d == [c EXCEPT !.handle = h]
             e == Reset(d, "ConnectedToServer")
  <2>1. /\ d \in ConnectionType /\ d.state = c.state
        /\ d.handle = h /\ d.reason = c.reason /\ d.key = c.key
    BY <1>0 DEF ConnectionType, Handles
  <2> HIDE DEF d
  <2>2. /\ e \in ConnectionType /\ e.state = "ConnectedToServer"
        /\ e.handle = h /\ e.reason = c.reason /\ e.key = c.key
    BY <2>1, ResetType DEF States
  <2> HIDE DEF e
  <2>3. Sound(e)
    BY <1>2, <2>2 DEF Sound, IsConnected, Phase
  <2>4. StepOf(c, h, [c |-> e, out |-> NoPacket, asked |-> TRUE])
    BY <1>0, <1>2, <2>2, <2>3, PacketMembers DEF StepOf, ResultType
  <2>5. ~SaysDisconnect(c, p)
    BY <1>2 DEF SaysDisconnect, ValidWithKey
  <2> QED BY <1>2, <2>4, <2>5 DEF ParseConnecting, d, e
<1>3. CASE p.cmd = "ConnectResponse" /\ h = NoHandle
  <2>1. StepOf(c, h, [c |-> Fail(c, "Refused"), out |-> Disconnect(c.key),
                      asked |-> TRUE])
    BY <1>0, <1>3, FailSound, PacketMembers DEF StepOf, ResultType, Reasons
  <2>2. ~SaysDisconnect(c, p)
    BY <1>3 DEF SaysDisconnect, ValidWithKey
  <2> QED BY <1>3, <2>1, <2>2 DEF ParseConnecting
<1>4. CASE ~SaysDisconnect(c, p) /\ p.cmd # "ConnectResponse"
  BY <1>4, QuietStep DEF ParseConnecting
<1> QED BY <1>1, <1>2, <1>3, <1>4

(* An answer of a Listening connection that is counted.                    *)
LEMMA AnswerStep ==
  ASSUME NEW c, Sound(c), c.state = "Listening", c.count < FloodTrigger,
         NEW h \in Handles, NEW out \in Packet
  PROVE  StepOf(c, h, Answer(Sent(c), out))
<1>1. c \in ConnectionType
  BY DEF Sound
<1>2. Sound(Sent(c))
  BY <1>1, SentType DEF Sound, IsConnected, Phase
<1>3. c.count \in Int
  BY <1>1 DEF ConnectionType
<1> QED BY <1>1, <1>2, <1>3, SentType DEF StepOf, Answer, ResultType

(* The first valid Connect, accepted or refused by the game.               *)
LEMMA AdmitStep ==
  ASSUME NEW c, Sound(c), c.state = "Listening", c.count < FloodTrigger,
         c.handle = NoHandle, NEW h \in Handles
  PROVE  StepOf(c, h, Admit(c, h))
<1>0. c \in ConnectionType /\ c.key \in Keys /\ c.count \in Int
  BY DEF Sound, ConnectionType
<1>1. CASE h = NoHandle
  BY <1>0, <1>1, FailSound, PacketMembers
  DEF Admit, StepOf, ResultType, Reasons
<1>2. CASE h # NoHandle
  <2> DEFINE d == [c EXCEPT !.handle = h]
  <2>1. /\ d \in ConnectionType /\ d.state = c.state /\ d.handle = h
        /\ d.reason = c.reason /\ d.key = c.key /\ d.count = c.count
    BY <1>0 DEF ConnectionType, Handles
  <2> HIDE DEF d
  <2>2. Sound(Sent(d))
    BY <1>2, <2>1, SentType DEF Sound, IsConnected, Phase
  <2>3. StepOf(c, h, [c |-> Sent(d), out |-> ConnectResponse, asked |-> TRUE])
    BY <1>0, <1>2, <2>1, <2>2, SentType, PacketMembers DEF StepOf, ResultType
  <2> QED BY <1>2, <2>3 DEF Admit, d
<1> QED BY <1>1, <1>2

(* Parsing a Connect in Listening.                                         *)
LEMMA ParseConnectStep ==
  ASSUME NEW c, Sound(c), c.state = "Listening", c.count < FloodTrigger,
         NEW p \in Packet, NEW h \in Handles
  PROVE  StepOf(c, h, ParseConnect(c, p, h))
<1>0. c \in ConnectionType /\ c.key \in Keys /\ c.count \in 0 .. FloodTrigger
  BY DEF Sound, ConnectionType
<1>1. CASE ~ValidWithKey(p, "Connect")
  <2> DEFINE d == [c EXCEPT !.count = @ + 1]
  <2>0. c.count + 1 \in 0 .. FloodTrigger
    BY <1>0, Bounds
  <2>1. /\ d \in ConnectionType /\ d.state = c.state /\ d.handle = c.handle
        /\ d.reason = c.reason /\ d.key = c.key /\ d.count = c.count + 1
    BY <1>0, <2>0 DEF ConnectionType
  <2> HIDE DEF d
  <2>2. Sound(d)
    BY <2>1 DEF Sound, IsConnected, Phase
  <2>3. StepOf(c, h, Answer(d, Disconnect(c.key)))
    BY <1>0, <2>1, <2>2, PacketMembers DEF StepOf, Answer, ResultType
  <2> QED BY <1>1, <2>3 DEF ParseConnect, Rejected, d
<1>2. CASE ValidWithKey(p, "Connect") /\ ~KnowsKey(c, p)
  BY <1>2, QuietStep DEF ParseConnect
<1>3. CASE ValidWithKey(p, "Connect") /\ KnowsKey(c, p) /\ HasJoined(c)
  BY <1>3, AnswerStep, PacketMembers DEF ParseConnect
<1>4. CASE ValidWithKey(p, "Connect") /\ KnowsKey(c, p) /\ ~HasJoined(c)
  BY <1>4, AdmitStep DEF ParseConnect, HasJoined
<1> QED BY <1>1, <1>2, <1>3, <1>4

(* Parsing an Info request in Listening.                                   *)
LEMMA ParseInfoStep ==
  ASSUME NEW c, Sound(c), c.state = "Listening", c.count < FloodTrigger,
         NEW p \in Packet, NEW h \in Handles
  PROVE  StepOf(c, h, ParseInfo(c, p))
BY AnswerStep, QuietStep, PacketMembers DEF ParseInfo

(* Parsing a delta in Listening: it connects only a client with a handle.  *)
LEMMA ParseFirstDeltaStep ==
  ASSUME NEW c, Sound(c), c.state = "Listening", c.count < FloodTrigger,
         NEW p \in DeltaPackets, NEW h \in Handles
  PROVE  StepOf(c, h, ParseFirstDelta(c, p))
<1>1. CASE MayFinish(c, p)
  <2> DEFINE d == [c EXCEPT !.id = p.id]
             e == Reset(d, "ConnectedToClient")
             f == TakeDelta(e, p)
  <2>0. c \in ConnectionType /\ c.handle # NoHandle
    BY <1>1 DEF Sound, MayFinish, HasJoined
  <2>1. /\ d \in ConnectionType /\ d.handle = c.handle
        /\ d.reason = c.reason /\ d.key = c.key
    BY <2>0 DEF ConnectionType, DeltaPackets
  <2> HIDE DEF d
  <2>2. /\ e \in ConnectionType /\ e.state = "ConnectedToClient"
        /\ e.handle = c.handle /\ e.reason = c.reason /\ e.key = c.key
    BY <2>1, ResetType DEF States
  <2> HIDE DEF e
  <2>3. /\ f \in ConnectionType /\ f.state = "ConnectedToClient"
        /\ f.handle = c.handle /\ f.reason = c.reason /\ f.key = c.key
    BY <2>2, TakeDeltaType
  <2> HIDE DEF f
  <2>4. Sound(f)
    BY <2>0, <2>3 DEF Sound, IsConnected, Phase
  <2>5. StepOf(c, h, Quiet(f))
    BY <2>3, <2>4, PacketMembers DEF StepOf, Quiet, ResultType
  <2> QED BY <1>1, <2>5 DEF ParseFirstDelta, f, e, d
<1>2. CASE ~MayFinish(c, p)
  BY <1>2, QuietStep DEF ParseFirstDelta
<1> QED BY <1>1, <1>2

(* Parsing in Listening.                                                   *)
LEMMA ParseListeningStep ==
  ASSUME NEW c, Sound(c), c.state = "Listening",
         NEW p \in Packet, NEW h \in Handles
  PROVE  StepOf(c, h, ParseListening(c, p, h))
<1>0. c.key \in Keys /\ c.count \in Int /\ FloodTrigger \in Int
  BY Bounds DEF Sound, ConnectionType
<1>1. CASE Flooded(c)
  BY <1>1, QuietStep DEF ParseListening
<1>2. CASE ~Flooded(c)
  <2>0. c.count < FloodTrigger
    BY <1>0, <1>2 DEF Flooded
  <2>1. CASE p.cmd = "Challenge"
    <3>1. StepOf(c, h, Answer(Sent(c), ChallengeResponse(c.key, Version)))
      BY <1>0, <2>0, AnswerStep, PacketMembers
    <3> QED BY <1>2, <2>1, <3>1 DEF ParseListening, IsDelta
  <2>2. CASE p.cmd = "Info"
    BY <1>2, <2>0, <2>2, ParseInfoStep DEF ParseListening, IsDelta
  <2>3. CASE p.cmd = "Connect"
    BY <1>2, <2>0, <2>3, ParseConnectStep DEF ParseListening, IsDelta
  <2>4. CASE p.cmd = "Delta"
    BY <1>2, <2>0, <2>4, PacketByCommand, ParseFirstDeltaStep
    DEF ParseListening, IsDelta
  <2>5. CASE p.cmd \notin {"Challenge", "Info", "Connect", "Delta"}
    BY <1>2, <2>5, QuietStep DEF ParseListening, IsDelta
  <2> QED BY <2>1, <2>2, <2>3, <2>4, <2>5
<1> QED BY <1>1, <1>2

(* The first half of Process, in every state.                              *)
LEMMA ParseStep ==
  ASSUME NEW c, Sound(c), NEW p \in Packet, NEW h \in Handles
  PROVE  StepOf(c, h, Parse(c, p, h))
<1>1. CASE c.state = "ConnectedToServer"
  BY <1>1, ParseConnectedToServerStep DEF Parse
<1>2. CASE c.state = "ConnectedToClient"
  BY <1>2, ParseConnectedToClientStep DEF Parse
<1>3. CASE c.state = "Challenging"
  BY <1>3, ParseChallengingStep DEF Parse
<1>4. CASE c.state = "Connecting"
  BY <1>4, ParseConnectingStep DEF Parse
<1>5. CASE c.state = "Listening"
  BY <1>5, ParseListeningStep DEF Parse
<1>6. CASE c.state \notin {"ConnectedToServer", "ConnectedToClient",
                          "Challenging", "Connecting", "Listening"}
  BY <1>6, QuietStep DEF Parse
<1> QED BY <1>1, <1>2, <1>3, <1>4, <1>5, <1>6

-----------------------------------------------------------------------------
(* The second half of Process, with what the first half made of c.         *)

(* A timeout, or the end of Disconnecting.                                 *)
LEMMA GiveUpStep ==
  ASSUME NEW c, NEW h \in Handles, NEW r, StepOf(c, h, r),
         r.c.state # "ConnectedToClient",
         NEW s \in Reasons, s = "Remote" => r.c.key \in Key,
         NEW out \in Packet, c.state = "Listening" => out = r.out
  PROVE  StepOf(c, h, [r EXCEPT !.c = Fail(r.c, s), !.out = out])
<1> DEFINE f == Fail(r.c, s)
           g == [r EXCEPT !.c = f, !.out = out]
<1>1. r \in ResultType /\ r.c \in ConnectionType
  BY DEF StepOf, ResultType
<1>2. /\ f \in ConnectionType /\ f.state = "FailedConnection"
      /\ f.handle = r.c.handle /\ f.reason = s /\ f.key = r.c.key
  BY <1>1, FailType
<1> HIDE DEF f
<1>3. Sound(f)
  BY <1>2 DEF Sound, IsConnected, Phase
<1>4. g \in ResultType /\ g.c = f /\ g.out = out /\ g.asked = r.asked
  BY <1>1, <1>2 DEF ResultType
<1> HIDE DEF g
<1>5. StepOf(c, h, g)
  BY <1>2, <1>3, <1>4 DEF StepOf
<1> QED BY <1>5 DEF g, f

(* A request of the client's handshake, repeated.                          *)
LEMMA RequestStep ==
  ASSUME NEW c, NEW h \in Handles, NEW r, StepOf(c, h, r),
         r.c.state \in Phase, ~TriedEnough(r.c)
  PROVE  StepOf(c, h, [r EXCEPT !.c = Sent(r.c), !.out = Request(r.c)])
<1> DEFINE d == Sent(r.c)
           out == Request(r.c)
           g == [r EXCEPT !.c = d, !.out = out]
<1>1. /\ r \in ResultType /\ r.c \in ConnectionType /\ Sound(r.c)
      /\ r.c.key \in Keys /\ r.c.count \in Nat
  BY DEF StepOf, ResultType, ConnectionType
<1>2. r.c.count < FloodTrigger
  BY <1>1, Bounds, ConnectionAssumption DEF TriedEnough
<1>3. /\ d \in ConnectionType /\ d.state = r.c.state
      /\ d.handle = r.c.handle /\ d.reason = r.c.reason /\ d.key = r.c.key
  BY <1>1, <1>2, SentType
<1>4. out \in Packet
  BY <1>1, PacketMembers DEF Request
<1> HIDE DEF d, out
<1>5. Sound(d)
  BY <1>1, <1>3 DEF Sound, IsConnected
<1>6. g \in ResultType /\ g.c = d /\ g.out = out /\ g.asked = r.asked
  BY <1>1, <1>3, <1>4 DEF ResultType
<1>7. c.state # "Listening"
  BY DEF StepOf, Phase
<1> HIDE DEF g
<1>8. StepOf(c, h, g)
  BY <1>3, <1>5, <1>6, <1>7 DEF StepOf, Phase
<1> QED BY <1>8 DEF g, d, out

(* The second half of Process, in every state.                             *)
LEMMA GenerateStep ==
  ASSUME NEW c, NEW h \in Handles, NEW r, StepOf(c, h, r)
  PROVE  StepOf(c, h, Generate(r))
<1>0. /\ r \in ResultType /\ r.c \in ConnectionType /\ Sound(r.c)
      /\ r.c.key \in Keys /\ r.c.reason \in Reasons /\ r.out \in Packet
  BY DEF StepOf, ResultType, ConnectionType
<1>1. CASE r.c.state = "Disconnecting"
  <2>1. c.state # "Listening"
    BY <1>1 DEF StepOf
  <2>2. r.c.reason = "Remote" => r.c.key \in Key
    BY <1>0 DEF Sound
  <2>3. Disconnect(r.c.key) \in Packet
    BY <1>0, PacketMembers
  <2>4. StepOf(c, h, [r EXCEPT !.c = Fail(r.c, r.c.reason),
                               !.out = Disconnect(r.c.key)])
    BY <1>0, <1>1, <2>1, <2>2, <2>3, GiveUpStep
  <2> QED BY <1>1, <2>4 DEF Generate
<1>2. CASE /\ r.c.state \in Phase \cup {"Listening"}
           /\ Generate(r) = [r EXCEPT !.c = Fail(r.c, TimeoutReason(r.c))]
  <2> DEFINE s == TimeoutReason(r.c)
             g == [r EXCEPT !.c = Fail(r.c, s)]
  <2>1. s \in Reasons /\ s # "Remote"
    BY <1>2 DEF TimeoutReason, Reasons, Phase
  <2> HIDE DEF s
  <2>2. r.c.state # "ConnectedToClient"
    BY <1>2 DEF Phase
  <2>3. StepOf(c, h, [r EXCEPT !.c = Fail(r.c, s), !.out = r.out])
    BY <1>0, <2>1, <2>2, GiveUpStep
  <2>4. [r EXCEPT !.c = Fail(r.c, s), !.out = r.out] = g
    BY <1>0 DEF ResultType
  <2> QED BY <1>2, <2>3, <2>4 DEF s
<1>3. CASE r.c.state \in Phase /\ ~TriedEnough(r.c) /\ r.c.age > RetryPeriod
  BY <1>3, RequestStep DEF Generate, RetryOrTimeout, Phase
<1>4. CASE r.c.state \in Phase /\ TriedEnough(r.c)
  BY <1>2, <1>4 DEF Generate, RetryOrTimeout, Phase
<1>5. CASE r.c.state \in Phase /\ ~TriedEnough(r.c) /\ ~(r.c.age > RetryPeriod)
  BY <1>5 DEF Generate, RetryOrTimeout, Phase
<1>6. CASE r.c.state = "Listening" /\ Expired(r.c)
  BY <1>2, <1>6 DEF Generate
<1>7. CASE /\ r.c.state \notin Phase \cup {"Disconnecting"}
           /\ ~(r.c.state = "Listening" /\ Expired(r.c))
  BY <1>7 DEF Generate, Phase
<1> QED BY <1>1, <1>3, <1>4, <1>5, <1>6, <1>7

(* One call of Process, whatever arrives and whatever the state manager    *)
(* answers.                                                                *)
LEMMA ProcessStep ==
  ASSUME NEW c, Sound(c), NEW p \in Packet, NEW h \in Handles
  PROVE  StepOf(c, h, Process(c, p, h))
BY ParseStep, GenerateStep DEF Process

-----------------------------------------------------------------------------
(* Where the first half of Process leads, with the datagram that leads     *)
(* there.                                                                  *)

ClientStates == {"Idle", "FailedConnection", "Disconnecting",
                 "Challenging", "Connecting", "ConnectedToServer"}
ServerStates == {"FailedConnection", "Disconnecting",
                 "Listening", "ConnectedToClient"}

(* The failures that a datagram causes.                                    *)
ToldSo == {"Remote", "Version", "Refused"}

(* A connection that leaves by failing says at most Disconnect.            *)
Gone(c, m) ==
  /\ m.c.state = "FailedConnection"
  /\ m.c.reason \in ToldSo
  /\ m.c.key = c.key
  /\ m.c.count = c.count
  /\ m.c.handle = c.handle
  /\ m.out \in {NoPacket, Disconnect(c.key)}

(* A connection that is and stays connected.                               *)
Continues(c, m) ==
  /\ IsConnected(c)
  /\ m.c.state = c.state
  /\ m.c.key = c.key
  /\ m.c.count = c.count
  /\ m.c.handle = c.handle
  /\ m.out = NoPacket

(* A client is given its key by a ChallengeResponse and accepted by a      *)
(* ConnectResponse, and by nothing else.                                   *)
ClientParsed(c, p, m) ==
  \/ m = Quiet(c)
  \/ Gone(c, m)
  \/ Continues(c, m)
  \/ /\ c.state = "Challenging"
     /\ p.cmd = "ChallengeResponse"
     /\ p.key \in Key
     /\ m.c.state = "Connecting"
     /\ m.c.key = p.key
     /\ m.c.count = 0
     /\ m.out = NoPacket
  \/ /\ c.state = "Connecting"
     /\ p.cmd = "ConnectResponse"
     /\ m.c.state = "ConnectedToServer"
     /\ m.c.key = c.key
     /\ m.c.count = 0
     /\ m.out = NoPacket

(* What a Listening connection says to a datagram that changes no handle.  *)
Says(c) ==
  {NoPacket, InfoResponse, ChallengeResponse(c.key, Version), Disconnect(c.key)}
    \cup (IF c.handle = NoHandle THEN {} ELSE {ConnectResponse})

(* A server's connection keeps its key.  It gets its handle from a Connect *)
(* with that key, and says ConnectResponse only with a handle.             *)
ServerParsed(c, p, h, m) ==
  \/ m = Quiet(c)
  \/ Gone(c, m)
  \/ Continues(c, m)
  \/ /\ c.state = "Listening"
     /\ m.c.state \in {"Listening", "ConnectedToClient"}
     /\ m.c.key = c.key
     /\ m.c.handle = c.handle
     /\ m.out \in Says(c)
  \/ /\ c.state = "Listening"
     /\ ValidWithKey(p, "Connect")
     /\ p.key = c.key
     /\ c.handle = NoHandle
     /\ h # NoHandle
     /\ m.c.state = "Listening"
     /\ m.c.key = c.key
     /\ m.c.handle = h
     /\ m.out = ConnectResponse

(* A delta, whole or joined, or a Disconnect, while connected.             *)
LEMMA ParseDeltaParsed ==
  ASSUME NEW c \in ConnectionType, IsConnected(c), NEW d,
         IsDelta(d) => d \in DeltaPackets
  PROVE  LET m == Quiet(ParseDelta(c, d)) IN Gone(c, m) \/ Continues(c, m)
<1> DEFINE m == Quiet(ParseDelta(c, d))
<1>1. CASE IsNewDelta(c, d)
  <2>1. d \in DeltaPackets
    BY <1>1 DEF IsNewDelta
  <2>2. ~SaysDisconnect(c, d)
    BY <1>1 DEF IsNewDelta, IsDelta, SaysDisconnect, ValidWithKey
  <2>3. m = Quiet(TakeDelta(c, d))
    BY <1>1, <2>2 DEF ParseDelta
  <2> QED BY <2>1, <2>3, TakeDeltaType DEF Continues, Quiet
<1>2. CASE ~IsNewDelta(c, d) /\ SaysDisconnect(c, d)
  <2>1. m = Quiet(Fail(c, "Remote"))
    BY <1>2 DEF ParseDelta
  <2>2. "Remote" \in Reasons /\ "Remote" \in ToldSo
    BY DEF Reasons, ToldSo
  <2> QED BY <2>1, <2>2, FailType DEF Gone, Quiet
<1>3. CASE ~IsNewDelta(c, d) /\ ~SaysDisconnect(c, d)
  <2>1. m = Quiet(c)
    BY <1>3 DEF ParseDelta
  <2> QED BY <2>1 DEF Continues, Quiet
<1> QED BY <1>1, <1>2, <1>3

(* Fail in answer to a datagram.                                           *)
LEMMA FailGone ==
  ASSUME NEW c \in ConnectionType, NEW s \in ToldSo,
         NEW out \in {NoPacket, Disconnect(c.key)}, NEW asked
  PROVE  Gone(c, [c |-> Fail(c, s), out |-> out, asked |-> asked])
<1>1. s \in Reasons
  BY DEF ToldSo, Reasons
<1>2. /\ Fail(c, s).state = "FailedConnection" /\ Fail(c, s).reason = s
      /\ Fail(c, s).handle = c.handle /\ Fail(c, s).key = c.key
      /\ Fail(c, s).count = c.count
  BY <1>1, FailType
<1> QED BY <1>2 DEF Gone

(* A connected client leaves on a keyed Disconnect, else it streams.       *)
LEMMA ParseConnectedToServerParsed ==
  ASSUME NEW c \in ConnectionType, c.state = "ConnectedToServer",
         NEW p \in Packet
  PROVE  ClientParsed(c, p, ParseConnectedToServer(c, p))
<1>0. IsConnected(c)
  BY DEF IsConnected
<1>1. CASE ~IsFragment(p)
  <2>1. ParseConnectedToServer(c, p) = Quiet(ParseDelta(c, p))
    BY <1>1 DEF ParseConnectedToServer
  <2> QED BY <1>0, <2>1, PacketByCommand, ParseDeltaParsed
          DEF IsDelta, ClientParsed
<1>2. CASE IsFragment(p) /\ Greater(p.seq, c.received)
  <2> DEFINE fragments == AddPacket(c.fragments, p)
             joined == GetDefragmentedPacket(fragments)
             held == [c EXCEPT !.fragments = fragments]
             m == Quiet(ParseDelta(held, joined))
  <2>1. p \in FragmentPackets /\ c.fragments \in FragmentsType
    BY <1>2, PacketByCommand DEF IsFragment, ConnectionType, FragmentsType
  <2>2. fragments \in FragmentsType
    BY <2>1, AddPacketType
  <2>3. joined \in DeltaPackets \cup {NoPacket}
    BY <2>2, GetDefragmentedPacketType
  <2>4. IsDelta(joined) => joined \in DeltaPackets
    BY <2>3 DEF IsDelta, NoPacket
  <2>5. ParseConnectedToServer(c, p) = m
    BY <1>2 DEF ParseConnectedToServer
  <2> HIDE DEF fragments, joined
  <2>6. /\ held \in ConnectionType
        /\ held.state = c.state /\ held.handle = c.handle
        /\ held.key = c.key /\ held.count = c.count
    BY <2>2 DEF ConnectionType, FragmentsType
  <2> HIDE DEF held
  <2>7. Gone(held, m) \/ Continues(held, m)
    BY <1>0, <2>4, <2>6, ParseDeltaParsed DEF IsConnected
  <2>8. Gone(c, m) \/ Continues(c, m)
    BY <2>6, <2>7, <1>0 DEF Gone, Continues
  <2> QED BY <2>5, <2>8 DEF ClientParsed
<1>3. CASE IsFragment(p) /\ ~Greater(p.seq, c.received)
  BY <1>3 DEF ParseConnectedToServer, ClientParsed
<1> QED BY <1>1, <1>2, <1>3

(* A challenging client takes its key, is refused, or is left as it was.   *)
LEMMA ParseChallengingParsed ==
  ASSUME NEW c \in ConnectionType, c.state = "Challenging", NEW p \in Packet
  PROVE  ClientParsed(c, p, ParseChallenging(c, p))
<1> DEFINE m == ParseChallenging(c, p)
<1>1. CASE SaysDisconnect(c, p)
  <2>1. ~ValidChallengeResponse(p)
    BY <1>1 DEF SaysDisconnect, ValidChallengeResponse, ValidWithKey
  <2>2. m = Quiet(Fail(c, "Remote"))
    BY <1>1, <2>1 DEF ParseChallenging
  <2> QED BY <2>2, FailGone DEF ClientParsed, Quiet, ToldSo
<1>2. CASE ~SaysDisconnect(c, p) /\ ValidChallengeResponse(p) /\ p.version = Version
  <2> DEFINE d == [c EXCEPT !.key = p.key]
  <2>1. p.cmd = "ChallengeResponse" /\ p.key \in Key
    BY <1>2, PacketByCommand
    DEF ValidChallengeResponse, ValidWithKey, VersionPackets, Keys
  <2>2. d \in ConnectionType /\ d.key = p.key
    BY <2>1 DEF ConnectionType, Keys
  <2>3. m = Quiet(Reset(d, "Connecting"))
    BY <1>2 DEF ParseChallenging
  <2> HIDE DEF d
  <2> QED BY <2>1, <2>2, <2>3, ResetType DEF ClientParsed, Quiet, States
<1>3. CASE ~SaysDisconnect(c, p) /\ ValidChallengeResponse(p) /\ p.version # Version
  <2>1. m = Quiet(Fail(c, "Version"))
    BY <1>3 DEF ParseChallenging
  <2> QED BY <2>1, FailGone DEF ClientParsed, Quiet, ToldSo
<1>4. CASE ~SaysDisconnect(c, p) /\ ~ValidChallengeResponse(p)
  BY <1>4 DEF ParseChallenging, ClientParsed
<1> QED BY <1>1, <1>2, <1>3, <1>4

(* A connecting client is accepted, refused, or left as it was.            *)
LEMMA ParseConnectingParsed ==
  ASSUME NEW c \in ConnectionType, c.state = "Connecting", NEW p \in Packet,
         NEW h \in Handles
  PROVE  ClientParsed(c, p, ParseConnecting(c, p, h))
<1> DEFINE m == ParseConnecting(c, p, h)
<1>1. CASE SaysDisconnect(c, p)
  <2>1. m = Quiet(Fail(c, "Remote"))
    BY <1>1 DEF ParseConnecting, SaysDisconnect, ValidWithKey
  <2> QED BY <2>1, FailGone DEF ClientParsed, Quiet, ToldSo
<1>2. CASE p.cmd = "ConnectResponse" /\ h # NoHandle
  <2> DEFINE d == [c EXCEPT !.handle = h]
  <2>1. d \in ConnectionType /\ d.key = c.key
    BY DEF ConnectionType, Handles
  <2>2. m = [c |-> Reset(d, "ConnectedToServer"), out |-> NoPacket,
             asked |-> TRUE]
    BY <1>2 DEF ParseConnecting, SaysDisconnect, ValidWithKey
  <2> HIDE DEF d
  <2> QED BY <1>2, <2>1, <2>2, ResetType DEF ClientParsed, States
<1>3. CASE p.cmd = "ConnectResponse" /\ h = NoHandle
  <2>1. m = [c |-> Fail(c, "Refused"), out |-> Disconnect(c.key),
             asked |-> TRUE]
    BY <1>3 DEF ParseConnecting, SaysDisconnect, ValidWithKey
  <2> QED BY <2>1, FailGone DEF ClientParsed, ToldSo
<1>4. CASE ~SaysDisconnect(c, p) /\ p.cmd # "ConnectResponse"
  BY <1>4 DEF ParseConnecting, ClientParsed
<1> QED BY <1>1, <1>2, <1>3, <1>4

(* A connected server end does what a connected client does.               *)
LEMMA ParseConnectedToClientParsed ==
  ASSUME NEW c \in ConnectionType, c.state = "ConnectedToClient",
         NEW p \in Packet, NEW h
  PROVE  ServerParsed(c, p, h, ParseConnectedToClient(c, p))
<1>1. Gone(c, Quiet(ParseDelta(c, p))) \/ Continues(c, Quiet(ParseDelta(c, p)))
  BY PacketByCommand, ParseDeltaParsed DEF IsDelta, IsConnected
<1> QED BY <1>1 DEF ServerParsed, ParseConnectedToClient

(* A Connect with the right key, and room for it, admits a player.         *)
LEMMA ParseConnectParsed ==
  ASSUME NEW c \in ConnectionType, c.state = "Listening",
         c.count < FloodTrigger, NEW p \in Packet, NEW h \in Handles
  PROVE  ServerParsed(c, p, h, ParseConnect(c, p, h))
<1> DEFINE m == ParseConnect(c, p, h)
<1>1. CASE ~ValidWithKey(p, "Connect")
  <2>1. m = Answer(Rejected(c), Disconnect(c.key))
    BY <1>1 DEF ParseConnect
  <2>2. /\ Rejected(c).state = c.state /\ Rejected(c).key = c.key
        /\ Rejected(c).handle = c.handle
    BY DEF Rejected, ConnectionType
  <2> QED BY <2>1, <2>2 DEF ServerParsed, Answer, Says
<1>2. CASE ValidWithKey(p, "Connect") /\ ~KnowsKey(c, p)
  BY <1>2 DEF ParseConnect, ServerParsed
<1>3. CASE ValidWithKey(p, "Connect") /\ KnowsKey(c, p) /\ HasJoined(c)
  <2>1. m = Answer(Sent(c), ConnectResponse)
    BY <1>3 DEF ParseConnect
  <2> QED BY <1>3, <2>1, SentType DEF ServerParsed, Answer, Says, HasJoined
<1>4. CASE ValidWithKey(p, "Connect") /\ KnowsKey(c, p) /\ ~HasJoined(c)
  <2>1. m = Admit(c, h)
    BY <1>4 DEF ParseConnect
  <2>2. CASE h = NoHandle
    BY <2>1, <2>2, FailGone DEF Admit, ServerParsed, ToldSo
  <2>3. CASE h # NoHandle
    <3> DEFINE d == [c EXCEPT !.handle = h]
    <3>1. /\ d \in ConnectionType /\ d.state = c.state /\ d.handle = h
          /\ d.key = c.key /\ d.count = c.count
      BY DEF ConnectionType, Handles
    <3>2. m = [c |-> Sent(d), out |-> ConnectResponse, asked |-> TRUE]
      BY <2>1, <2>3 DEF Admit
    <3> HIDE DEF d
    <3> QED BY <1>4, <2>3, <3>1, <3>2, SentType
            DEF ServerParsed, HasJoined, KnowsKey
  <2> QED BY <2>2, <2>3
<1> QED BY <1>1, <1>2, <1>3, <1>4

(* A listening server end answers, admits, or counts the request.          *)
LEMMA ParseListeningParsed ==
  ASSUME NEW c \in ConnectionType, c.state = "Listening",
         NEW p \in Packet, NEW h \in Handles
  PROVE  ServerParsed(c, p, h, ParseListening(c, p, h))
<1> DEFINE m == ParseListening(c, p, h)
<1>1. CASE m = Quiet(c)
  BY <1>1 DEF ServerParsed
<1>2. CASE ~Flooded(c)
  <2>0. c.count < FloodTrigger
    BY <1>2, Bounds DEF Flooded, ConnectionType
  <2>1. CASE p.cmd = "Challenge"
    <3>1. m = Answer(Sent(c), ChallengeResponse(c.key, Version))
      BY <1>2, <2>1 DEF ParseListening, IsDelta
    <3> QED BY <2>0, <3>1, SentType DEF ServerParsed, Answer, Says
  <2>2. CASE p.cmd = "Info"
    BY <1>1, <1>2, <2>2 DEF ParseListening, IsDelta, ParseInfo, ValidWithKey
  <2>3. CASE p.cmd = "Connect"
    BY <1>2, <2>0, <2>3, ParseConnectParsed DEF ParseListening, IsDelta
  <2>4. CASE p.cmd = "Delta" /\ MayFinish(c, p)
    <3> DEFINE d == [c EXCEPT !.id = p.id]
               e == Reset(d, "ConnectedToClient")
    <3>1. p \in DeltaPackets
      BY <2>4, PacketByCommand
    <3>2. /\ d \in ConnectionType /\ d.handle = c.handle /\ d.key = c.key
      BY <3>1 DEF ConnectionType, DeltaPackets
    <3>3. m = Quiet(TakeDelta(e, p))
      BY <1>2, <2>4 DEF ParseListening, ParseFirstDelta, IsDelta
    <3> HIDE DEF d
    <3>4. /\ e \in ConnectionType /\ e.state = "ConnectedToClient"
          /\ e.handle = c.handle /\ e.key = c.key
      BY <3>2, ResetType DEF States
    <3> HIDE DEF e
    <3> QED BY <3>1, <3>3, <3>4, TakeDeltaType DEF ServerParsed, Quiet, Says
  <2>5. CASE p.cmd = "Delta" /\ ~MayFinish(c, p)
    BY <1>1, <1>2, <2>5 DEF ParseListening, ParseFirstDelta, IsDelta
  <2>6. CASE p.cmd \notin {"Challenge", "Info", "Connect", "Delta"}
    BY <1>1, <1>2, <2>6 DEF ParseListening, IsDelta
  <2> QED BY <2>1, <2>2, <2>3, <2>4, <2>5, <2>6
<1>3. CASE Flooded(c)
  BY <1>1, <1>3 DEF ParseListening
<1> QED BY <1>2, <1>3

(* The first half of Process for a client and for a server.                *)
LEMMA ParseParsed ==
  ASSUME NEW c \in ConnectionType, NEW p \in Packet, NEW h \in Handles
  PROVE  /\ c.state \in ClientStates => ClientParsed(c, p, Parse(c, p, h))
         /\ c.state \in ServerStates => ServerParsed(c, p, h, Parse(c, p, h))
<1>1. CASE c.state = "ConnectedToServer"
  BY <1>1, ParseConnectedToServerParsed DEF Parse, ServerStates
<1>2. CASE c.state = "ConnectedToClient"
  BY <1>2, ParseConnectedToClientParsed DEF Parse, ClientStates
<1>3. CASE c.state = "Challenging"
  BY <1>3, ParseChallengingParsed DEF Parse, ServerStates
<1>4. CASE c.state = "Connecting"
  BY <1>4, ParseConnectingParsed DEF Parse, ServerStates
<1>5. CASE c.state = "Listening"
  BY <1>5, ParseListeningParsed DEF Parse, ClientStates
<1>6. CASE c.state \notin {"ConnectedToServer", "ConnectedToClient",
                          "Challenging", "Connecting", "Listening"}
  BY <1>6 DEF Parse, ClientParsed, ServerParsed
<1> QED BY <1>1, <1>2, <1>3, <1>4, <1>5, <1>6

(* The requests of a client's handshake.  m is the first half of a call.   *)
Paced(c, m, r) ==
  /\ r.c.state # "Disconnecting"
  /\ r.c.state \in Phase
       => /\ m.c.state = r.c.state
          /\ m.c = c \/ (m.c.state # c.state /\ m.c.count = 0)
          /\ \/ r.out = NoPacket /\ r.c = m.c
             \/ /\ r.out # NoPacket
                /\ m.c.count <= HandshakeRetries
                /\ m.c.age > RetryPeriod
                /\ r.c.count = m.c.count + 1
                /\ r.c.age = 0
  /\ r.c.state = "FailedConnection"
       => \/ m.c = c /\ r = m
          \/ m.c = c /\ c.state = "Disconnecting" /\ r.c.reason = c.reason
          \/ m.c = c /\ c.state \in Phase /\ c.count > HandshakeRetries
          \/ r.c.reason \in ToldSo \cup {"TimeoutClient"}

(* A call counts a packet only when a retry period has gone by.            *)
LEMMA ProcessPaced ==
  ASSUME NEW c, Sound(c), NEW p \in Packet, NEW h \in Handles
  PROVE  Paced(c, Parse(c, p, h), Process(c, p, h))
<1> DEFINE m == Parse(c, p, h)
           r == Process(c, p, h)
<1>1. c \in ConnectionType /\ c.state \in ClientStates \cup ServerStates
  BY DEF Sound, ConnectionType, States, ClientStates, ServerStates
<1>2. ClientParsed(c, p, m) \/ ServerParsed(c, p, h, m)
  BY <1>1, ParseParsed
<1>3. StepOf(c, h, m)
  BY ParseStep
<1>4. r = Generate(m)
  BY DEF Process
<1> SUFFICES Paced(c, m, r)
  OBVIOUS
<1> HIDE DEF m, r
<1>5. /\ m \in ResultType /\ m.c \in ConnectionType /\ m.c.count \in Nat
      /\ m.c.age \in Nat /\ m.c.reason \in Reasons
      /\ HandshakeRetries \in Nat \ {0} /\ RetryPeriod \in Nat
  BY <1>3, Bounds, ConnectionAssumption DEF StepOf, ResultType, ConnectionType
<1>6. CASE m.c.state = "Disconnecting"
  <2>1. m = Quiet(c)
    BY <1>2, <1>6, <1>5 DEF ClientParsed, ServerParsed, Gone, Continues, IsConnected
  <2>2. r = [m EXCEPT !.c = Fail(m.c, m.c.reason), !.out = Disconnect(m.c.key)]
    BY <1>4, <1>6 DEF Generate
  <2>3. r.c = Fail(m.c, m.c.reason)
    BY <2>2, <1>5 DEF ResultType
  <2>4. r.c.state = "FailedConnection" /\ r.c.reason = m.c.reason
    BY <2>3, <1>5, FailType
  <2> QED BY <2>1, <2>4, <1>6 DEF Paced, Quiet, Phase
<1>7. CASE m.c.state \in Phase
  <2>1. /\ m.out = NoPacket
        /\ m.c = c \/ (m.c.state # c.state /\ m.c.count = 0)
    BY <1>2, <1>7
    DEF ClientParsed, ServerParsed, Gone, Continues, IsConnected, Quiet, Phase
  <2>2. CASE TriedEnough(m.c)
    <3>1. r = [m EXCEPT !.c = Fail(m.c, TimeoutReason(m.c))]
      BY <1>4, <1>7, <2>2 DEF Generate, RetryOrTimeout, Phase
    <3>2. r.c = Fail(m.c, TimeoutReason(m.c))
      BY <3>1, <1>5 DEF ResultType
    <3>3. TimeoutReason(m.c) \in Reasons
      BY <1>7 DEF TimeoutReason, Reasons, Phase
    <3>4. r.c.state = "FailedConnection"
      BY <3>2, <3>3, <1>5, FailType
    <3>5. m.c = c /\ m.c.count > HandshakeRetries
      BY <2>1, <2>2, <1>5 DEF TriedEnough
    <3> QED BY <3>4, <3>5, <1>7 DEF Paced, Phase
  <2>3. CASE ~TriedEnough(m.c) /\ m.c.age > RetryPeriod
    <3>1. r = [m EXCEPT !.c = Sent(m.c), !.out = Request(m.c)]
      BY <1>4, <1>7, <2>3 DEF Generate, RetryOrTimeout, Phase
    <3>2. r.c = Sent(m.c) /\ r.out = Request(m.c)
      BY <3>1, <1>5 DEF ResultType
    <3>3. m.c.count <= HandshakeRetries
      BY <2>3, <1>5 DEF TriedEnough
    <3>4. m.c.count < FloodTrigger
      BY <3>3, <1>5, Bounds
    <3>5. /\ r.c.state = m.c.state /\ r.c.count = m.c.count + 1
          /\ r.c.age = 0
      BY <3>2, <3>4, <1>5, SentType DEF Sent, ConnectionType
    <3>6. r.out # NoPacket
      BY <3>2 DEF Request, Challenge, Connect, NoPacket
    <3> QED BY <3>3, <3>5, <3>6, <2>1, <2>3, <1>7 DEF Paced, Phase
  <2>4. CASE ~TriedEnough(m.c) /\ ~(m.c.age > RetryPeriod)
    <3>1. r = m
      BY <1>4, <1>7, <2>4 DEF Generate, RetryOrTimeout, Phase
    <3> QED BY <3>1, <2>1, <1>7 DEF Paced, Phase
  <2> QED BY <2>2, <2>3, <2>4
<1>8. CASE m.c.state = "Listening" /\ Expired(m.c)
  <2>1. r = [m EXCEPT !.c = Fail(m.c, "TimeoutClient")]
    BY <1>4, <1>8 DEF Generate, TimeoutReason
  <2>2. r.c = Fail(m.c, "TimeoutClient")
    BY <2>1, <1>5 DEF ResultType
  <2>3. "TimeoutClient" \in Reasons
    BY DEF Reasons
  <2>4. r.c.state = "FailedConnection" /\ r.c.reason = "TimeoutClient"
    BY <2>2, <2>3, <1>5, FailType
  <2> QED BY <2>4 DEF Paced, Phase
<1>9. CASE /\ m.c.state \notin Phase \cup {"Disconnecting"}
           /\ ~(m.c.state = "Listening" /\ Expired(m.c))
  <2>1. r = m
    BY <1>4, <1>9 DEF Generate, Phase
  <2>2. m.c.state = "FailedConnection" => m.c = c \/ m.c.reason \in ToldSo
    BY <1>2 DEF ClientParsed, ServerParsed, Gone, Continues, IsConnected, Quiet
  <2> QED BY <2>1, <2>2, <1>9 DEF Paced
<1> QED BY <1>6, <1>7, <1>8, <1>9

(* What a call of Process makes of a client's connection, and of a         *)
(* server's.                                                               *)
ClientCalled(c, p, r) ==
  /\ r.c.state \in ClientStates
  /\ \/ r.c.key = c.key
     \/ /\ c.state = "Challenging"
        /\ p.cmd = "ChallengeResponse"
        /\ r.c.state = "Connecting"
        /\ r.c.key = p.key
        /\ r.c.key \in Key
  /\ r.c.state = "Challenging" => c.state = "Challenging" /\ r.c.key = c.key
  /\ r.c.state = "Connecting" => c.state \in Phase
  /\ r.c.state = "Connecting" /\ c.state = "Challenging" => r.c.key \in Key
  /\ r.c.state = "ConnectedToServer"
       => /\ r.c.key = c.key
          /\ \/ c.state = "ConnectedToServer"
             \/ c.state = "Connecting" /\ p.cmd = "ConnectResponse"
  /\ r.c.count <= HandshakeRetries + 1
  /\ r.out.cmd = "Connect" => r.c.state = "Connecting" /\ r.out.key = r.c.key

ServerCalled(c, p, h, r) ==
  /\ r.c.state \in ServerStates
  /\ r.c.key = c.key
  /\ \/ r.c.handle = c.handle /\ ~(r.asked /\ h # NoHandle)
     \/ /\ c.handle = NoHandle
        /\ r.asked /\ h # NoHandle
        /\ r.c.handle = h
        /\ p.cmd = "Connect"
        /\ p.key = c.key
  /\ r.out.cmd = "ConnectResponse" => r.c.handle # NoHandle

(* What a whole call of Process makes of a client's connection.            *)
LEMMA ProcessClientCalled ==
  ASSUME NEW c, Sound(c), c.state \in ClientStates,
         c.count <= HandshakeRetries + 1, NEW p \in Packet, NEW h \in Handles
  PROVE  ClientCalled(c, p, Process(c, p, h))
<1> DEFINE m == Parse(c, p, h)
           r == Process(c, p, h)
<1>1. ClientParsed(c, p, m)
  BY ParseParsed DEF Sound
<1>2. StepOf(c, h, m)
  BY ParseStep
<1>3. r = Generate(m)
  BY DEF Process
<1> SUFFICES ClientCalled(c, p, r)
  OBVIOUS
<1> HIDE DEF m, r
<1>4. /\ m \in ResultType /\ m.c \in ConnectionType /\ m.c.count \in Nat
      /\ m.c.reason \in Reasons /\ HandshakeRetries \in Nat \ {0}
      /\ c.count \in Nat
  BY <1>2, Bounds, ConnectionAssumption
  DEF Sound, StepOf, ResultType, ConnectionType
<1>5. /\ m.out.cmd # "Connect"
      /\ m.c.count <= HandshakeRetries + 1
  BY <1>1, <1>4
  DEF ClientParsed, Gone, Continues, Quiet, NoPacket, Disconnect
<1>6. /\ m.c.state \in ClientStates
      /\ m.c.key = c.key \/ /\ c.state = "Challenging"
                            /\ p.cmd = "ChallengeResponse"
                            /\ m.c.state = "Connecting"
                            /\ m.c.key = p.key
                            /\ m.c.key \in Key
                            /\ m.c.count = 0
      /\ m.c.state = "Challenging" => c.state = "Challenging" /\ m.c.key = c.key
      /\ m.c.state = "Connecting" => c.state \in Phase
      /\ m.c.state = "Connecting" /\ c.state = "Connecting" => m.c.key = c.key
      /\ m.c.state = "Connecting" /\ c.state = "Challenging" => m.c.key \in Key
      /\ m.c.state = "ConnectedToServer"
           => /\ m.c.key = c.key
              /\ \/ c.state = "ConnectedToServer"
                 \/ c.state = "Connecting" /\ p.cmd = "ConnectResponse"
  BY <1>1 DEF ClientParsed, Gone, Continues, IsConnected, Quiet, ClientStates, Phase
<1>7. CASE m.c.state = "Disconnecting"
  <2>1. r = [m EXCEPT !.c = Fail(m.c, m.c.reason), !.out = Disconnect(m.c.key)]
    BY <1>3, <1>7 DEF Generate
  <2>2. r.c = Fail(m.c, m.c.reason) /\ r.out = Disconnect(m.c.key)
    BY <2>1, <1>4 DEF ResultType
  <2>3. /\ r.c.state = "FailedConnection" /\ r.c.key = m.c.key
        /\ r.c.count = m.c.count /\ r.out.cmd # "Connect"
    BY <2>2, <1>4, FailType DEF Disconnect
  <2> QED BY <2>3, <1>5, <1>6, <1>7 DEF ClientCalled, ClientStates
<1>8. CASE m.c.state \in Phase
  <2>1. CASE TriedEnough(m.c)
    <3>1. r = [m EXCEPT !.c = Fail(m.c, TimeoutReason(m.c))]
      BY <1>3, <1>8, <2>1 DEF Generate, RetryOrTimeout, Phase
    <3>2. r.c = Fail(m.c, TimeoutReason(m.c)) /\ r.out = m.out
      BY <3>1, <1>4 DEF ResultType
    <3>3. TimeoutReason(m.c) \in Reasons
      BY <1>8 DEF TimeoutReason, Reasons, Phase
    <3>4. /\ r.c.state = "FailedConnection" /\ r.c.key = m.c.key
          /\ r.c.count = m.c.count
      BY <3>2, <3>3, <1>4, FailType
    <3>5. r.c.key = c.key
      BY <1>4, <1>6, <2>1, <3>4 DEF TriedEnough
    <3> QED BY <3>2, <3>4, <3>5, <1>5 DEF ClientCalled, ClientStates
  <2>2. CASE ~TriedEnough(m.c) /\ m.c.age > RetryPeriod
    <3>1. r = [m EXCEPT !.c = Sent(m.c), !.out = Request(m.c)]
      BY <1>3, <1>8, <2>2 DEF Generate, RetryOrTimeout, Phase
    <3>2. r.c = Sent(m.c) /\ r.out = Request(m.c)
      BY <3>1, <1>4 DEF ResultType
    <3>3. m.c.count <= HandshakeRetries /\ m.c.count < FloodTrigger
      BY <2>2, <1>4, Bounds DEF TriedEnough
    <3>4. /\ r.c.state = m.c.state /\ r.c.key = m.c.key
          /\ r.c.count = m.c.count + 1
      BY <3>2, <3>3, <1>4, SentType
    <3>5. r.out.cmd = "Connect" => m.c.state = "Connecting" /\ r.out.key = m.c.key
      BY <3>2, <1>8 DEF Request, Challenge, Connect, Phase
    <3> QED BY <3>3, <3>4, <3>5, <1>4, <1>6 DEF ClientCalled
  <2>3. CASE ~TriedEnough(m.c) /\ ~(m.c.age > RetryPeriod)
    <3>1. r = m
      BY <1>3, <1>8, <2>3 DEF Generate, RetryOrTimeout, Phase
    <3> QED BY <3>1, <1>5, <1>6 DEF ClientCalled
  <2> QED BY <2>1, <2>2, <2>3
<1>9. CASE m.c.state \notin Phase \cup {"Disconnecting"}
  <2>1. r = m
    BY <1>3, <1>6, <1>9 DEF Generate, Phase, ClientStates
  <2> QED BY <2>1, <1>5, <1>6 DEF ClientCalled
<1> QED BY <1>7, <1>8, <1>9

(* What a whole call of Process makes of a server's connection.            *)
LEMMA ProcessServerCalled ==
  ASSUME NEW c, Sound(c), c.state \in ServerStates,
         NEW p \in Packet, NEW h \in Handles
  PROVE  ServerCalled(c, p, h, Process(c, p, h))
<1> DEFINE m == Parse(c, p, h)
           r == Process(c, p, h)
<1>1. ServerParsed(c, p, h, m)
  BY ParseParsed DEF Sound
<1>2. StepOf(c, h, m) /\ StepOf(c, h, r)
  BY ParseStep, ProcessStep
<1>3. r = Generate(m)
  BY DEF Process
<1> SUFFICES ServerCalled(c, p, h, r)
  OBVIOUS
<1> HIDE DEF m, r
<1>4. /\ m \in ResultType /\ m.c \in ConnectionType /\ m.c.reason \in Reasons
  BY <1>2 DEF StepOf, ResultType, ConnectionType
<1>5. /\ m.c.state \in ServerStates
      /\ m.c.key = c.key
      /\ \/ m.c.handle = c.handle
         \/ m.c.handle = h /\ p.cmd = "Connect" /\ p.key = c.key
  BY <1>1
  DEF ServerParsed, Gone, Continues, IsConnected, Quiet, ValidWithKey, ServerStates
<1>6. m.out.cmd = "ConnectResponse" => m.c.handle # NoHandle
  BY <1>1
  DEF ServerParsed, Gone, Continues, Quiet, Says, NoPacket, Disconnect,
      InfoResponse, ChallengeResponse, ConnectResponse
<1>7. /\ r.c.state \in ServerStates /\ r.c.key = m.c.key
      /\ r.c.handle = m.c.handle
      /\ r.out.cmd = "ConnectResponse" => m.out.cmd = "ConnectResponse"
  <2>1. CASE r = m
    BY <2>1, <1>5
  <2>2. CASE m.c.state = "Disconnecting"
    <3>1. r = [m EXCEPT !.c = Fail(m.c, m.c.reason), !.out = Disconnect(m.c.key)]
      BY <1>3, <2>2 DEF Generate
    <3>2. r.c = Fail(m.c, m.c.reason) /\ r.out = Disconnect(m.c.key)
      BY <3>1, <1>4 DEF ResultType
    <3> QED BY <3>2, <1>4, FailType DEF Disconnect, ServerStates
  <2>3. CASE m.c.state = "Listening" /\ Expired(m.c)
    <3>1. r = [m EXCEPT !.c = Fail(m.c, "TimeoutClient")]
      BY <1>3, <2>3 DEF Generate, TimeoutReason
    <3>2. r.c = Fail(m.c, "TimeoutClient") /\ r.out = m.out
      BY <3>1, <1>4 DEF ResultType
    <3>3. "TimeoutClient" \in Reasons
      BY DEF Reasons
    <3> QED BY <3>2, <3>3, <1>4, FailType DEF ServerStates
  <2>4. CASE /\ m.c.state # "Disconnecting"
             /\ ~(m.c.state = "Listening" /\ Expired(m.c))
    BY <2>1, <2>4, <1>3, <1>5 DEF Generate, ServerStates
  <2> QED BY <2>2, <2>3, <2>4
<1>8. CASE r.asked /\ h # NoHandle
  <2>1. c.handle = NoHandle /\ r.c.handle # NoHandle
    BY <1>2, <1>8 DEF StepOf
  <2> QED BY <2>1, <1>5, <1>6, <1>7, <1>8 DEF ServerCalled
<1>9. CASE ~(r.asked /\ h # NoHandle)
  <2>1. r.c.handle = c.handle
    BY <1>2, <1>9 DEF StepOf
  <2> QED BY <2>1, <1>5, <1>6, <1>7, <1>9 DEF ServerCalled
<1> QED BY <1>8, <1>9

(* What the state manager offers matters only to a handshake that may end. *)
LEMMA OfferUnused ==
  ASSUME NEW c, NEW p, NEW h, c.state \notin {"Connecting", "Listening"}
  PROVE  /\ Process(c, p, h) = Process(c, p, NoHandle)
         /\ Process(c, p, h).asked = FALSE
<1>1. Process(c, p, h) = Process(c, p, NoHandle)
  BY DEF Process, Parse
<1>2. PICK d : Parse(c, p, h) = Quiet(d)
  BY DEF Parse, ParseConnectedToServer, ParseConnectedToClient,
         ParseChallenging
<1>3. Generate(Quiet(d)).asked = FALSE
  BY DEF Generate, RetryOrTimeout, Quiet
<1> QED BY <1>1, <1>2, <1>3 DEF Process

-----------------------------------------------------------------------------
(* The owner's calls and the clock.                                        *)
LEMMA StartSound ==
  ASSUME NEW c \in ConnectionType
  PROVE  /\ \A key \in Key : /\ Sound(StartServer(c, key))
                            /\ StartServer(c, key).count = 0
                            /\ StartServer(c, key).handle = NoHandle
         /\ Sound(StartClient(c))
         /\ StartClient(c).state = "Challenging"
         /\ StartClient(c).handle = NoHandle
         /\ StartClient(c).count = 0
         /\ StartClient(c).key = NilKey
         /\ \A key \in Key : /\ StartServer(c, key).state = "Listening"
                            /\ StartServer(c, key).key = key
<1> DEFINE cleared(key) ==
             [c EXCEPT !.handle = NoHandle, !.fragments = NoFragments,
                       !.reason = "", !.key = key]
<1>1. ASSUME NEW key \in Keys
      PROVE  /\ cleared(key) \in ConnectionType
             /\ cleared(key).handle = NoHandle
             /\ cleared(key).reason = ""
             /\ cleared(key).key = key
  <2>1. NoFragments \in [current : Sequence, parts : Seq(FragmentPackets)]
    BY NoFragmentsType DEF FragmentsType
  <2> QED BY <2>1 DEF ConnectionType, Reasons
<1> HIDE DEF cleared
<1>2. ASSUME NEW key \in Keys, NEW s \in {"Listening", "Challenging"}
      PROVE  /\ Sound(Reset(cleared(key), s))
             /\ Reset(cleared(key), s).state = s
             /\ Reset(cleared(key), s).count = 0
             /\ Reset(cleared(key), s).handle = NoHandle
             /\ Reset(cleared(key), s).key = key
  <2>1. /\ cleared(key) \in ConnectionType /\ s \in States
        /\ cleared(key).key = key
        /\ cleared(key).handle = NoHandle /\ cleared(key).reason = ""
    BY <1>1, <1>2 DEF States
  <2>2. /\ Reset(cleared(key), s) \in ConnectionType
        /\ Reset(cleared(key), s).state = s
        /\ Reset(cleared(key), s).count = 0
        /\ Reset(cleared(key), s).handle = NoHandle
        /\ Reset(cleared(key), s).reason = ""
        /\ Reset(cleared(key), s).key = key
    BY <2>1, ResetType
  <2> QED BY <1>2, <2>2 DEF Sound, IsConnected
<1>3. \A key \in Key : StartServer(c, key) = Reset(cleared(key), "Listening")
  BY DEF StartServer, cleared
<1>4. StartClient(c) = Reset(cleared(NilKey), "Challenging")
  BY DEF StartClient, cleared
<1> QED BY <1>2, <1>3, <1>4 DEF Keys

(* A new Connection.                                                       *)
LEMMA NewConnectionType ==
  /\ NewConnection \in ConnectionType
  /\ Sound(NewConnection)
  /\ NewConnection.state = "Idle"
<1>1. 0 \in 0 .. FloodTrigger /\ MaxAge \in 0 .. MaxAge
  BY Bounds
<1>2. NewConnection \in ConnectionType
  <2>1. NoFragments \in [current : Sequence, parts : Seq(FragmentPackets)]
    BY NoFragmentsType DEF FragmentsType
  <2> QED BY <1>1, <2>1, SequenceHasZero
      DEF NewConnection, ConnectionType, States, Reasons, Keys
<1> QED BY <1>2 DEF Sound, NewConnection, IsConnected, Phase

(* Disconnect by the owner, or by the manager once the connection failed.  *)
LEMMA DisconnectSound ==
  ASSUME NEW c \in ConnectionType, NEW s \in Reasons,
         s = "Remote" => c.key \in Key
  PROVE  LET d == DisconnectBecause(c, s)
         IN  /\ Sound(d)
             /\ d.state = "Disconnecting"
             /\ d.handle = c.handle
             /\ d.key = c.key
             /\ d.count = 0
             /\ d.reason = IF s = "" THEN "Normal" ELSE s
<1> DEFINE reason == IF s = "" THEN "Normal" ELSE s
           d == [c EXCEPT !.reason = reason]
<1>1. reason \in Reasons /\ (reason = "Remote" => c.key \in Key)
  BY DEF Reasons
<1> HIDE DEF reason
<1>2. /\ d \in ConnectionType /\ d.handle = c.handle /\ d.reason = reason
      /\ d.key = c.key
  BY <1>1 DEF ConnectionType
<1>3. DisconnectBecause(c, s) = Reset(d, "Disconnecting")
  BY DEF DisconnectBecause, reason
<1> HIDE DEF d
<1>4. "Disconnecting" \in States
  BY DEF States
<1>5. /\ Reset(d, "Disconnecting") \in ConnectionType
      /\ Reset(d, "Disconnecting").state = "Disconnecting"
      /\ Reset(d, "Disconnecting").count = 0
      /\ Reset(d, "Disconnecting").handle = c.handle
      /\ Reset(d, "Disconnecting").reason = reason
      /\ Reset(d, "Disconnecting").key = c.key
  BY <1>2, <1>4, ResetType
<1>6. Sound(Reset(d, "Disconnecting"))
  BY <1>1, <1>5 DEF Sound, IsConnected, Phase
<1> QED BY <1>3, <1>5, <1>6 DEF reason

(* GetDefragmentedPacket by the owner.                                     *)
LEMMA TakenSound ==
  ASSUME NEW c, Sound(c)
  PROVE  /\ Sound(Taken(c))
         /\ Taken(c).state = c.state
         /\ Taken(c).count = c.count
         /\ Taken(c).handle = c.handle
         /\ Taken(c).key = c.key
BY DEF Taken, Sound, ConnectionType, IsConnected

(* The clock.                                                              *)
LEMMA AgeSound ==
  ASSUME NEW c, Sound(c)
  PROVE  /\ Sound(Age(c))
         /\ Age(c).state = c.state
         /\ Age(c).count = c.count
         /\ Age(c).handle = c.handle
         /\ Age(c).key = c.key
         /\ Age(c).reason = c.reason
         /\ Age(c).age <= c.age + 1
<1> DEFINE age == IF c.age < MaxAge THEN c.age + 1 ELSE c.age
           d == [c EXCEPT !.age = age]
<1>1. c \in ConnectionType /\ c.age \in 0 .. MaxAge /\ MaxAge \in Nat
  BY Bounds DEF Sound, ConnectionType
<1>2. age \in 0 .. MaxAge /\ age <= c.age + 1
  BY <1>1
<1> HIDE DEF age
<1>3. /\ d.age = age /\ d \in ConnectionType /\ d.state = c.state /\ d.handle = c.handle
      /\ d.reason = c.reason /\ d.key = c.key /\ d.count = c.count
  BY <1>1, <1>2 DEF ConnectionType
<1>4. Age(c) = d
  BY DEF Age, age
<1> HIDE DEF d
<1>5. Sound(d)
  BY <1>3 DEF Sound, IsConnected
<1> QED BY <1>2, <1>3, <1>4, <1>5

=============================================================================
