------------------------------- MODULE Packets -------------------------------
(***************************************************************************)
(* The datagrams of the protocol (Packet.hpp, Packets.hpp, PacketDelta,    *)
(* PacketFragment, PacketChallenge, PacketChallengeResponse) as records.   *)
(* A record keeps what the handlers read: the command, the key, the        *)
(* version, the sequence and its ack, the connection id.  The bytes of a   *)
(* delta are a member of Payload.  The empty buffer, which Process also    *)
(* takes and returns, is NoPacket.                                         *)
(***************************************************************************)
EXTENDS WrappingCounter

CONSTANTS
  Key,           \* the 16 byte keys GetNetworkKeyRandom can return
  NilKey,        \* GetNetworkKeyNil(): sixteen zero bytes
  ConnectionId,  \* the uint16 a client puts in front of its payload
  NoId,          \* IdConnection(delta) of a payload shorter than an id
  NoAck,         \* the empty optional, 0xFFFF on the wire
  Payload,       \* what a delta can carry
  Stitched       \* a payload joined from pieces of different deltas

ASSUME PacketsAssumption ==
  /\ NilKey \notin Key
  /\ NoId \notin ConnectionId
  /\ NoAck \notin Sequence
  /\ Stitched \notin Payload

Keys == Key \cup {NilKey}

(* The version byte of a PacketChallengeResponse: 0 never validates, the   *)
(* program speaks Version, anything else stands for another release.       *)
Version == 1
Versions == {0, Version, 2}

NoPacket == [cmd |-> "None"]

(* PacketChallenge and PacketInfoResponse, PacketConnectResponse: no field *)
(* of theirs is read by the receiver's control flow.                       *)
Challenge       == [cmd |-> "Challenge"]
InfoResponse    == [cmd |-> "InfoResponse"]
ConnectResponse == [cmd |-> "ConnectResponse"]

(* A buffer whose command byte is no command and that is no delta; also a  *)
(* Challenge whose text is not ChallengeMessage: neither validates.        *)
Junk == [cmd |-> "Junk"]

ChallengeResponse(key, version) ==
  [cmd |-> "ChallengeResponse", key |-> key, version |-> version]
Info(key)       == [cmd |-> "Info", key |-> key]
Connect(key)    == [cmd |-> "Connect", key |-> key]
Disconnect(key) == [cmd |-> "Disconnect", key |-> key]

Delta(seq, ack, id, data) ==
  [cmd |-> "Delta", seq |-> seq, ack |-> ack, id |-> id, data |-> data]

(* Piece number index of the delta whole; only the last piece has the      *)
(* MaskIsLastFragment bit.                                                 *)
Fragment(whole, index, last) ==
  [cmd |-> "Fragment", seq |-> whole.seq, index |-> index, last |-> last,
   whole |-> whole]

(* Mistake: the nil key counts as a key.                                   *)
ValidWithAnyKey(p, cmd) == p.cmd = cmd

(* PacketCommandWithKey<C>::IsValid: the right command and a key that is   *)
(* not nil.                                                                *)
ValidWithKey(p, cmd) == p.cmd = cmd /\ p.key # NilKey

(* PacketChallengeResponse::IsValid                                        *)
ValidChallengeResponse(p) ==
  ValidWithKey(p, "ChallengeResponse") /\ p.version # 0

IsDelta(p)    == p.cmd = "Delta"
IsFragment(p) == p.cmd = "Fragment"

-----------------------------------------------------------------------------
PlainPackets ==
  [cmd : {"None", "Challenge", "InfoResponse", "ConnectResponse", "Junk"}]
KeyPackets == [cmd : {"Info", "Connect", "Disconnect"}, key : Keys]
VersionPackets ==
  [cmd : {"ChallengeResponse"}, key : Keys, version : Versions]
DeltaPackets ==
  [cmd : {"Delta"}, seq : Sequence, ack : Sequence \cup {NoAck},
   id : ConnectionId \cup {NoId}, data : Payload \cup {Stitched}]
FragmentPackets ==
  [cmd : {"Fragment"}, seq : Sequence, index : Nat, last : BOOLEAN,
   whole : DeltaPackets]

Packet ==
  PlainPackets \cup KeyPackets \cup VersionPackets \cup DeltaPackets
    \cup FragmentPackets

=============================================================================
