---------------------------- MODULE PayloadStream ----------------------------
(***************************************************************************)
(* What one end's DeltaCreate returns, turned into datagrams and back into *)
(* what the other end gives to DeltaParse, byte for byte: the guards on    *)
(* the size and the distance, the code, the packet, its fragments, a       *)
(* network that loses, repeats and delays, and the way back.  Huffman      *)
(* coding is outside: a payload is what Encode returned, and what arrives  *)
(* is what Decode is given.  A handshake command with its payload goes the *)
(* same way and is only recognised.                                        *)
(***************************************************************************)
EXTENDS PacketBytes

CONSTANT
  Streams      \* a behaviour has one of them: what is sent in it, by whom
               \* (sender: "server", "client", "handshake"), under which key,
               \* and the bound maxFaults, how often the network may lose,
               \* repeat or delay

VARIABLES
  stream,     \* which of Streams
  todo,       \* the messages not yet sent
  wire,       \* the datagrams on the way, the next to arrive first
  faults,     \* history: what the network did, in order
  received,   \* myLastSequenceRecieved of the receiver
  fragments,  \* myFragments of the receiver
  last,       \* myLastDelta of the receiver
  processed,  \* what DeltaParse returned: myLastSequenceProcessed of a
              \* client, lastAcked of a server
  got         \* history: what the receiver gave to DeltaParse

vars ==
  <<stream, todo, wire, faults, received, fragments, last, processed, got>>

(* AddPacket and the tests of GetDefragmentedPacket are those of           *)
(* PacketFragmentManager; a piece has its own payload here.                *)
Parts ==
  INSTANCE PacketFragmentManager WITH
    Key <- {}, NilKey <- "nil", ConnectionId <- {}, Payload <- {},
    Stitched <- << >>

(* What DeltaCreate returns, with the ack it is sent with and the size it  *)
(* had before Encode; a command and what follows it.                       *)
DeltaMessage ==
  [to : Sequence, base : Sequence, ack : Sequence \cup {NoAck},
   payload : Seq(Byte), size : Nat]
HandshakeMessage == [to : {0}, cmd : Commands, payload : Seq(Byte)]

(* No two different deltas of a server have the same sequence, since a     *)
(* piece says only to which state it leads.  This is asked of the game:    *)
(* nothing in IStateManager.hpp promises it, and the games of the tests,   *)
(* whose deltas are never cut up, return one sequence until it is acked.   *)
ASSUME PayloadStreamAssumption ==
  \A s \in Streams :
    /\ s.sender \in {"server", "client", "handshake"}
    /\ s.key \in Seq(Byte) /\ s.key # << >>
    /\ s.id \in Word
    /\ s.maxFaults \in Nat
    /\ s.messages \in Seq(IF s.sender = "handshake" THEN HandshakeMessage
                                                    ELSE DeltaMessage)
    /\ s.messages # << >>
    /\ s.sender = "server" =>
         \A m, n \in ToSet(s.messages) : m.to = n.to => m = n

(* That the newest message arrives is only promised to a stream that does  *)
(* not go round the counter, each of its deltas being newer than those     *)
(* before it and than the one there was at the beginning, and of packets   *)
(* that can be cut up: 65535 bytes are less than 127 * 1461.  Nothing else *)
(* rests on it.                                                            *)
ASSUME NewestAssumption ==
  /\ MaxPacketSizeInBytes < MaxTotalPayloadSize
  /\ \A s \in Streams : s.sender # "handshake" =>
       /\ \A i \in 1 .. Len(s.messages) :
            Greater(s.messages[i].to, MinusAssign(Head(s.messages).to, 1))
       /\ \A i, j \in 1 .. Len(s.messages) :
            i < j => Greater(s.messages[j].to, s.messages[i].to)

(* An empty buffer.                                                        *)
Nothing == << >>

(* A receiver that is connected, and has just had the delta before the     *)
(* first.                                                                  *)
Init ==
  /\ stream \in Streams
  /\ todo = stream.messages
  /\ wire = << >>
  /\ faults = << >>
  /\ received = MinusAssign(Head(stream.messages).to, 1)
  /\ fragments = Parts!NoFragments
  /\ last = Nothing
  /\ processed = received
  /\ got = << >>

-----------------------------------------------------------------------------
Distance(message) == Minus(message.to, message.base)

Hidden(message) ==
  XorCode(message.payload, CodeFor(message.to, message.ack, stream.key))

(* FragmentPacket: the loop ends at the first fragment that is not valid,  *)
(* or when its count of fragments is 255.                                  *)
Pieces(delta) ==
  LET Nth(n) == PacketFragment(GetSequence(delta), delta, n)
      count  == Min({ n \in 0 .. ByteSize - 2 :
                        ~IsFragment(Nth(n)) \/ n = ByteSize - 2 })
  IN  [n \in 1 .. count |-> Nth(n - 1)]

FragmentPacket(delta) ==
  IF Len(delta) < MaxTotalPayloadSize /\ IsDelta(delta)
  THEN IF Len(delta) > SizeMaxPacketSize THEN Pieces(delta) ELSE << delta >>
  ELSE << >>

(* Mistake: the distance is not compared with what its byte can hold.      *)
AnyDistance(message) == TRUE

MayCode(message) == Distance(message) <= MaximumDeltaDistance

(* PrivateSendState: too large or too far is logged, not sent.             *)
ServerSends(message) ==
  LET delta == PacketDelta(message.to, message.ack,
                           Distance(message) % ByteSize, Hidden(message))
  IN  IF MayCode(message) /\ Len(delta) <= MaxPacketSizeInBytes
      THEN FragmentPacket(delta)
      ELSE << >>

(* DeltaSend: the size that counts is that before Encode, never cut up.    *)
ClientSends(message) ==
  IF MayCode(message) /\ message.size <= MaxPacketSizeInBytes
  THEN << ClientDelta(message.to, message.ack,
                      Distance(message) % ByteSize, stream.id,
                      Hidden(message)) >>
  ELSE << >>

Datagrams(message) ==
  CASE stream.sender = "server"    -> ServerSends(message)
    [] stream.sender = "client"    -> ClientSends(message)
    [] stream.sender = "handshake" ->
         << Command(message.cmd, message.payload) >>

Send ==
  /\ todo # << >>
  /\ wire' = wire \o Datagrams(Head(todo))
  /\ todo' = Tail(todo)
  /\ UNCHANGED <<stream, faults, received, fragments, last, processed, got>>

(* The network.                                                            *)
Fault(kind, changed) ==
  /\ Len(faults) < stream.maxFaults
  /\ faults' = Append(faults, kind)
  /\ wire' = changed
  /\ UNCHANGED <<stream, todo, received, fragments, last, processed, got>>

Lose   == \E i \in DOMAIN wire : Fault("lost", RemoveAt(wire, i))
Repeat == \E i \in DOMAIN wire : Fault("repeated", Append(wire, wire[i]))
Delay  ==
  \E i \in DOMAIN wire :
    i < Len(wire) /\ Fault("delayed", Append(RemoveAt(wire, i), wire[i]))

-----------------------------------------------------------------------------
(* Receiving.                                                              *)

Piece(data) ==
  [seq |-> GetSequence(data), index |-> FragmentId(data),
   last |-> IsLastFragment(data),
   chunk |-> GetPayloadBuffer(data, OffsetFragmentPayload)]

(* GetDefragmentedPacket                                                   *)
Joined(m) ==
  IF m.parts # << >> /\ Parts!Complete(m.parts)
  THEN FlattenSeq([n \in 1 .. Parts!SortedSize(m.parts) |->
                     Parts!Sorted(m.parts, n - 1).chunk])
  ELSE Nothing

(* IsValidDeltaTestDisconnectIfNot, and what is done with a newer delta.   *)
(* (A Disconnect ends the connection; ClientServer has that.)              *)
Keep(data) ==
  IF IsDelta(data) /\ Greater(GetSequence(data), received)
  THEN last' = data /\ received' = GetSequence(data)
  ELSE UNCHANGED <<last, received>>

(* Process in the connected states.  A server knows no fragments.  That    *)
(* the id is the one of the client's first delta is not asked here: every  *)
(* client's myClientId is 0.                                               *)
Process(data) ==
  IF stream.sender = "server" /\ IsFragment(data)
  THEN IF Greater(GetSequence(data), received)
       THEN /\ fragments' = Parts!AddPacket(fragments, Piece(data))
            /\ Keep(Joined(fragments'))
       ELSE UNCHANGED <<fragments, last, received>>
  ELSE Keep(data) /\ UNCHANGED fragments

Receive ==
  /\ wire # << >>
  /\ Process(Head(wire))
  /\ wire' = Tail(wire)
  /\ UNCHANGED <<stream, todo, faults, processed, got>>

(* GetPayloadBuffer of a delta has the id in it, if there is one.          *)
Revealed(data) ==
  XorCode(GetPayloadBuffer(data, OffsetDeltaPayload),
          CodeFor(GetSequence(data), GetSequenceAck(data), stream.key))

(* The last loop of PrivateProcessIncomming of a server, and DeltaReceive  *)
(* of a client, which asks once more whether the delta is newer.  The      *)
(* games of the tests return the sequence they were given.                 *)
Take ==
  /\ last # Nothing
  /\ IF stream.sender = "server" => Greater(GetSequence(last), processed)
     THEN /\ got' = Append(got, [base |-> GetSequenceBase(last),
                                 to |-> GetSequence(last),
                                 payload |-> Revealed(last)])
          /\ processed' = GetSequence(last)
     ELSE UNCHANGED <<got, processed>>
  /\ last' = Nothing
  /\ UNCHANGED <<stream, todo, wire, faults, received, fragments>>

Next == Send \/ Lose \/ Repeat \/ Delay \/ Receive \/ Take

Spec == Init /\ [][Next]_vars

-----------------------------------------------------------------------------
TypeOK ==
  /\ stream \in Streams
  /\ todo \in Seq(ToSet(stream.messages))
  /\ wire \in Seq(Seq(Byte))
  /\ faults \in Seq({"lost", "repeated", "delayed"})
  /\ {received, processed} \subseteq Sequence
  /\ last \in Seq(Byte)
  /\ \A i \in DOMAIN got :
       got[i] \in [base : Sequence, to : Sequence, payload : Seq(Byte)]

SentMessages ==
  { stream.messages[i] : i \in 1 .. Len(stream.messages) - Len(todo) }

(* Every datagram is recognised as one thing, whatever its sequence, its   *)
(* ack and its payload are: a command as that command with its payload, a  *)
(* delta or a piece of one as such, never as a command or as the other.    *)
(* From the delta of a client its id and its payload can be told apart.    *)
Recognised ==
  \A i \in DOMAIN wire :
    \E m \in SentMessages :
      /\ GetSequence(wire[i]) = m.to
      /\ IF stream.sender = "handshake"
         THEN /\ ~IsDelta(wire[i]) /\ ~IsFragment(wire[i])
              /\ GetCommand(wire[i]) = m.cmd
              /\ GetPayloadBuffer(wire[i], OffsetPayload) = m.payload
         ELSE /\ GetCommand(wire[i]) = Unrecognised
              /\ IsDelta(wire[i]) # IsFragment(wire[i])
      /\ stream.sender = "client"
           => /\ IdConnection(wire[i]) = stream.id
              /\ ClientPayload(wire[i]) = Hidden(m)

AsSent ==
  \A i \in DOMAIN got :
    \E m \in SentMessages :
      got[i] = [base |-> m.base, to |-> m.to, payload |-> m.payload]

(* What the client's DeltaParse gets is what the server's DeltaCreate      *)
(* returned: the same states and the same payload, however its pieces came *)
(* and whatever became of those of another delta.                          *)
PayloadArrives == stream.sender = "server" => AsSent

(* What the server's DeltaParse gets is what the client's DeltaCreate      *)
(* returned, which the server is to decrypt, decompress and parse          *)
(* (NetworkManagerServerGuts.cpp:217).                                     *)
ClientPayloadArrives == stream.sender = "client" => AsSent

(* What may be sent: not too far, and not too large, which for the client  *)
(* is said of the size before Encode.                                      *)
Due ==
  { m \in SentMessages :
      /\ stream.sender \in {"server", "client"}
      /\ Distance(m) <= MaximumDeltaDistance
      /\ IF stream.sender = "client" THEN m.size <= MaxPacketSizeInBytes
         ELSE Len(m.payload) + OffsetDeltaPayload <= MaxPacketSizeInBytes }

(* The newest delta that may be sent has been taken, once nothing is on    *)
(* the way, if nothing was lost or repeated.                               *)
NewestIsTaken ==
  (/\ todo = << >> /\ wire = << >> /\ last = Nothing
   /\ \A i \in DOMAIN faults : faults[i] = "delayed")
    => \A m \in Due :
         \/ \E n \in Due : Greater(n.to, m.to)
         \/ \E i \in DOMAIN got : got[i].to = m.to

(* No datagram of the server is larger than SizeMaxPacketSize, which the   *)
(* network would cut up itself.                                            *)
NoneTooLarge ==
  stream.sender = "server"
    => \A i \in DOMAIN wire : Len(wire[i]) <= SizeMaxPacketSize

=============================================================================
