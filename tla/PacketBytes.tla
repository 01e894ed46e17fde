----------------------------- MODULE PacketBytes -----------------------------
(***************************************************************************)
(* The datagrams as bytes: Packet, PacketDelta and PacketFragment, the     *)
(* integers of BufferSerialisation.hpp in them, and XorCode.hpp, which     *)
(* hides a payload.  A buffer is a sequence of bytes; a uint16_t has two   *)
(* bytes, and a sequence number one bit less, so that the top bit of a     *)
(* datagram is free to say that it is a fragment and the top bit of the    *)
(* third byte that it is a command.                                        *)
(***************************************************************************)
EXTENDS WrappingCounter, Sequences, SequencesExt

CONSTANTS
  Top,                   \* 128, the top bit of a uint8_t
  ByteXor(_, _),         \* the ^ of two uint8_t
  SizeMaxPacketSize,     \* 1464, of PacketFragmentManager.hpp
  MaxPacketSizeInBytes   \* 65535, of both managers

ASSUME PacketBytesAssumption ==
  /\ Top \in Nat /\ Top > 8
  /\ Half = Top * Top
  /\ SizeMaxPacketSize \in Nat /\ SizeMaxPacketSize > 3
  /\ MaxPacketSizeInBytes \in Nat

ByteSize == 2 * Top                     \* the values of a uint8_t
Byte == 0 .. ByteSize - 1
Word == 0 .. ByteSize * ByteSize - 1    \* a uint16_t

(* All XorCode needs of ^ is that the same byte undoes it.                 *)
ASSUME XorAssumption ==
  \A a, b \in Byte : ByteXor(a, b) \in Byte /\ ByteXor(ByteXor(a, b), b) = a

(* MaskTopByteIsFragmented, MaskTopByteIsCommand and MaskIsLastFragment    *)
IsSet(byte) == byte >= Top

InvalidSequence == ByteSize * ByteSize - 1
NoAck == -1                             \* the empty optional<Sequence>
MaximumDeltaDistance == ByteSize - 1

Unrecognised == 0
LastValidCommand == 7
Commands == 1 .. LastValidCommand

OffsetPayload         == 3              \* of Packet
OffsetDeltaPayload    == 5              \* of PacketDelta
OffsetFragmentPayload == 3              \* of PacketFragment

At(data, offset) == data[offset + 1]
From(data, offset) == SubSeq(data, offset + 1, Len(data))

-----------------------------------------------------------------------------
(* Mistake: the top byte is not cut to a byte.                             *)
PushUncut(value) == << value \div ByteSize, value >>

(* Push and Pull of a uint16_t                                             *)
Push(value) == << (value \div ByteSize) % ByteSize, value % ByteSize >>

Pull(data, offset) == At(data, offset) * ByteSize + At(data, offset + 1)

XorCode(data, code) ==
  [i \in DOMAIN data |-> ByteXor(data[i], At(code, (i - 1) % Len(code)))]

(* The code both ends make for a delta from its sequence, its ack and the  *)
(* key: four bytes, so only the first four of the key matter.              *)
CodeFor(seq, ack, key) ==
  XorCode(Push(seq) \o Push(IF ack = NoAck THEN 0 ELSE ack), key)

-----------------------------------------------------------------------------
(* The constructors.                                                       *)

Command(cmd, payload) == Push(0) \o << cmd + Top >> \o payload

PacketDelta(seq, ack, distance, payload) ==
  Push(seq) \o Push(IF ack = NoAck THEN InvalidSequence ELSE ack)
    \o << distance >> \o payload

ClientDelta(seq, ack, distance, id, payload) ==
  PacketDelta(seq, ack, distance, Push(id) \o payload)

(* Mistake: the header of a fragment is forgotten.                         *)
FragmentSizeWhole == SizeMaxPacketSize

FragmentSize == SizeMaxPacketSize - OffsetFragmentPayload
MaxTotalPayloadSize == (Top - 1) * FragmentSize

(* Mistake: a piece that ends with the payload is not the last.            *)
ReachesBeyond(offset, payload) == offset + FragmentSize > Len(payload)

ReachesEnd(offset, payload) == offset + FragmentSize >= Len(payload)

(* PacketFragment(sequence, payload, SizeMaxPacketSize, fragmentId)        *)
PacketFragment(seq, payload, fragmentId) ==
  LET offset == FragmentSize * fragmentId
      flag   == IF ReachesEnd(offset, payload) THEN Top ELSE 0
  IN  IF fragmentId < Top /\ offset < Len(payload)
      THEN [Push(seq) EXCEPT ![1] = @ + Top] \o << fragmentId + flag >>
             \o SubSeq(payload, offset + 1,
                       Min({offset + FragmentSize, Len(payload)}))
      ELSE << >>

-----------------------------------------------------------------------------
(* What a receiver makes of a buffer.                                      *)

(* Mistake: whatever the third byte says is a command.                     *)
GetAnyCommand(data) ==
  IF Len(data) >= OffsetPayload /\ ~IsSet(At(data, 0)) /\ IsSet(At(data, 2))
  THEN At(data, 2) - Top
  ELSE Unrecognised

GetCommand(data) ==
  IF /\ Len(data) >= OffsetPayload
     /\ ~IsSet(At(data, 0))
     /\ IsSet(At(data, 2))
     /\ At(data, 2) - Top <= LastValidCommand
  THEN At(data, 2) - Top
  ELSE Unrecognised

(* PacketDelta::IsPacket                                                   *)
IsDelta(data) ==
  /\ Len(data) >= OffsetDeltaPayload
  /\ ~IsSet(At(data, 0))
  /\ ~IsSet(At(data, 2)) \/ Pull(data, 2) = InvalidSequence

(* PacketFragment::IsPacket: a fragment has a payload.                     *)
IsFragment(data) == Len(data) > OffsetFragmentPayload /\ IsSet(At(data, 0))

GetSequence(data) == Wrap(Pull(data, 0))

GetSequenceAck(data) ==
  LET rawSequence == Pull(data, 2)
  IN  IF rawSequence = InvalidSequence THEN NoAck ELSE Wrap(rawSequence)

GetSequenceBase(data) == MinusAssign(GetSequence(data), At(data, 4))

FragmentId(data) == At(data, 2) % Top
IsLastFragment(data) == IsSet(At(data, 2))

(* IdConnection and ClientPayload, of a delta that IsDelta.                *)
NoId == -1
IdConnection(data) ==
  IF Len(data) >= OffsetDeltaPayload + 2 THEN Pull(data, OffsetDeltaPayload)
  ELSE NoId
ClientPayload(data) == From(data, OffsetDeltaPayload + 2)

(* GetPayloadBuffer(packet), with the offset of the packet's class.        *)
GetPayloadBuffer(data, offset) == From(data, offset)

=============================================================================
