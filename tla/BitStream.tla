------------------------------ MODULE BitStream ------------------------------
(***************************************************************************)
(* BitStream and BitStreamReadOnly: bits packed into a vector of bytes,    *)
(* most significant bit first, and read back through an index that stops   *)
(* at the end of the vector.  ByteBits is 8 in the code; a smaller byte    *)
(* keeps every case (aligned, across two bytes, past the end) and makes    *)
(* streams short enough to enumerate.                                      *)
(***************************************************************************)
EXTENDS Integers, Sequences

CONSTANT ByteBits    \* bits of a uint8_t; a uint16_t has twice as many

ASSUME ByteBitsAssumption == ByteBits \in Nat \ {0}

(* 1 << n                                                                  *)
Power[n \in Nat] == IF n = 0 THEN 1 ELSE 2 * Power[n - 1]

Byte == 0 .. Power[ByteBits] - 1
WordBits == 2 * ByteBits

AtMost(bits, limit) == IF bits > limit THEN limit ELSE bits

-----------------------------------------------------------------------------
(* A BitStream that begins empty: myBuffer and myBitIndexWrite.            *)
EmptyStream == [buffer |-> << >>, write |-> 0]

(* The buffer with value or-ed into the byte at index, counted from zero.  *)
(* Bits past myBitIndexWrite are zero, so or-ing into them is adding.      *)
OrInto(buffer, index, value) == [buffer EXCEPT ![index + 1] = @ + value]

(* Mistake: the bits that do not fit the current byte are dropped.         *)
SpillLost(top, bitIndex) == 0

(* What |= topAligned << (8 - bitIndex) leaves in the next byte.           *)
Spilled(top, bitIndex) == (top * Power[ByteBits - bitIndex]) % Power[ByteBits]

(* Push(uint8_t value, uint8_t bitsToPush)                                 *)
PushByte(stream, value, bitsToPush) ==
  LET bits == AtMost(bitsToPush, ByteBits)
      byteIndex == stream.write \div ByteBits
      bitIndex == stream.write % ByteBits
      top == (value % Power[bits]) * Power[ByteBits - bits]
      here == OrInto(IF bitIndex = 0 THEN Append(stream.buffer, 0)
                                     ELSE stream.buffer,
                     byteIndex, top \div Power[bitIndex])
      spills == bitIndex # 0 /\ bits > ByteBits - bitIndex
  IN  IF bits = 0 THEN stream
      ELSE [buffer |-> IF spills
                         THEN OrInto(Append(here, 0), byteIndex + 1,
                                     Spilled(top, bitIndex))
                         ELSE here,
            write  |-> stream.write + bits]

(* Push(uint16_t value, uint8_t bitsToPush): the high byte first.          *)
PushWord(stream, value, bitsToPush) ==
  IF bitsToPush > ByteBits
    THEN PushByte(PushByte(stream, value \div Power[bitsToPush - ByteBits], ByteBits),
                  value, bitsToPush - ByteBits)
    ELSE PushByte(stream, value, bitsToPush)

TakeBuffer(stream) == stream.buffer

-----------------------------------------------------------------------------
(* A BitStreamReadOnly on a buffer: myBitIndex begins at zero.             *)
Reader(buffer) == [buffer |-> buffer, index |-> 0]

BitCount(reader) == Len(reader.buffer) * ByteBits

(* Mistake: the index may pass the end of the buffer.                      *)
Unclamped(reader, index) == index

(* The end of PullU8: once outside the buffer the index is its end.        *)
Clamped(reader, index) ==
  IF index \div ByteBits >= Len(reader.buffer) THEN BitCount(reader) ELSE index

(* uint8_t PullU8(uint8_t bitsToPull): a byte that is not there is zero.   *)
PullByte(reader, bitsToPull) ==
  LET bits == AtMost(bitsToPull, ByteBits)
      byteIndex == reader.index \div ByteBits
      bitIndex == reader.index % ByteBits
      ByteAt(i) == IF i < Len(reader.buffer) THEN reader.buffer[i + 1] ELSE 0
      pair == ByteAt(byteIndex) * Power[ByteBits] + ByteAt(byteIndex + 1)
  IN  IF bits = 0
        THEN [reader |-> reader, result |-> 0]
      ELSE IF byteIndex >= Len(reader.buffer)
        THEN [reader |-> [reader EXCEPT !.index = AtMost(@, BitCount(reader))],
              result |-> 0]
      ELSE [reader |-> [reader EXCEPT !.index = Clamped(reader, @ + bits)],
            result |-> (pair \div Power[WordBits - bitIndex - bits]) % Power[bits]]

(* uint16_t PullU16(uint8_t bitsToPull)                                    *)
PullWord(reader, bitsToPull) ==
  LET bits == AtMost(bitsToPull, WordBits)
      high == PullByte(reader, bits)
      low == PullByte(high.reader, bits - ByteBits)
  IN  IF bits > ByteBits
        THEN [reader |-> low.reader,
              result |-> high.result * Power[bits - ByteBits] + low.result]
        ELSE high

(* Rewind(uint8_t bitsToRewind)                                            *)
Rewind(reader, bitsToRewind) ==
  [reader EXCEPT !.index = IF bitsToRewind > @ THEN 0 ELSE @ - bitsToRewind]

=============================================================================
