------------------------- MODULE PayloadStreamProofs -------------------------
(***************************************************************************)
(* The datagrams as bytes, for every size of a byte, every size of a       *)
(* datagram and every stream of messages: each is recognised as what it    *)
(* is, none is too large for its fragment, and what DeltaParse is given is *)
(* what DeltaCreate returned, whole or put together from its pieces.  When *)
(* nothing is lost or repeated, the newest message does arrive.            *)
(***************************************************************************)
EXTENDS PayloadStream, WrappingCounterProofs, FiniteSetTheorems

(* A byte, a datagram and a counter have room for each other.              *)
LEMMA Sizes ==
  /\ ByteSize \in Nat /\ ByteSize = 2 * Top
  /\ Top \in Nat /\ Top > 8
  /\ Modulus \in Nat /\ Modulus = Top * ByteSize
  /\ ByteSize * ByteSize \in Nat /\ ByteSize * ByteSize = 2 * Modulus
  /\ FragmentSize \in Nat \ {0} /\ FragmentSize = SizeMaxPacketSize - 3
BY PacketBytesAssumption
   DEF ByteSize, Modulus, FragmentSize, OffsetFragmentPayload

(* Dividing what is less than k times m gives less than k.                 *)
LEMMA DivideBelow ==
  ASSUME NEW m \in Nat \ {0}, NEW k \in Nat, NEW n \in Nat, n < k * m
  PROVE  n \div m \in Nat /\ n \div m < k
<1> DEFINE q == n \div m
           r == n % m
<1>1. q \in Int /\ r \in 0 .. m - 1 /\ n = m * q + r
  BY DivideWithRest
<1> HIDE DEF q, r
<1>2. q < k
  <2>1. SUFFICES ASSUME q >= k PROVE FALSE
    BY <1>1
  <2>2. m * q >= m * k
    BY <2>1, <1>1, TimesAtLeast
  <2> QED BY <2>2, <1>1
<1>3. q >= 0
  <2>1. SUFFICES ASSUME -1 >= q PROVE FALSE
    BY <1>1
  <2>2. m * (-1) >= m * q
    BY <2>1, <1>1, TimesAtLeast
  <2> QED BY <2>2, <1>1
<1> QED BY <1>1, <1>2, <1>3 DEF q

(* Push writes two bytes that Pull reads as the number they were.          *)
LEMMA PushBytes ==
  ASSUME NEW value \in Word
  PROVE  /\ Push(value) \in Seq(Byte)
         /\ Len(Push(value)) = 2
         /\ Push(value)[1] \in Byte /\ Push(value)[2] \in Byte
         /\ Push(value)[1] * ByteSize + Push(value)[2] = value
<1> DEFINE q == value \div ByteSize
           r == value % ByteSize
<1>1. value \in Nat /\ value < ByteSize * ByteSize /\ ByteSize \in Nat \ {0}
  BY Sizes DEF Word
<1>2. q \in Nat /\ q < ByteSize
  BY <1>1, DivideBelow
<1>3. r \in 0 .. ByteSize - 1 /\ value = ByteSize * q + r
  BY <1>1, DivideWithRest
<1>4. Push(value) = << q % ByteSize, r >>
  BY DEF Push
<1> HIDE DEF q, r
<1>5. q % ByteSize = q
  BY <1>1, <1>2
<1>6. Push(value) = << q, r >> /\ q \in Byte /\ r \in Byte
  BY <1>1, <1>2, <1>3, <1>4, <1>5 DEF Byte
<1>7. q * ByteSize + r = value
  BY <1>1, <1>2, <1>3
<1> QED BY <1>6, <1>7

(* The first byte of a sequence leaves the top bit free.                   *)
LEMMA PushSequence ==
  ASSUME NEW seq \in Sequence
  PROVE  seq \in Word /\ Push(seq)[1] < Top
<1>1. seq \in Word
  BY Sizes DEF Sequence, MaxValue, Word
<1>2. /\ Push(seq)[1] \in Byte /\ Push(seq)[2] \in Byte
      /\ Push(seq)[1] * ByteSize + Push(seq)[2] = seq
  BY <1>1, PushBytes
<1> DEFINE q == Push(seq)[1]
           r == Push(seq)[2]
<1>3. q \in Int /\ r \in Nat /\ q * ByteSize + r < Top * ByteSize
  BY <1>2, Sizes DEF Byte, Sequence, MaxValue
<1> HIDE DEF q, r
<1>4. q < Top
  <2>1. SUFFICES ASSUME q >= Top PROVE FALSE
    BY <1>3, Sizes
  <2>2. ByteSize * q >= ByteSize * Top
    BY <2>1, <1>3, Sizes, TimesAtLeast
  <2> QED BY <2>2, <1>3, Sizes
<1> QED BY <1>1, <1>4 DEF q

(* A sequence that Pull read is masked to itself, the bit above it or not. *)
LEMMA WrapOfSequence ==
  ASSUME NEW seq \in Sequence
  PROVE  Wrap(seq) = seq /\ Wrap(seq + Top * ByteSize) = seq
<1>1. /\ seq \in 0 .. Modulus - 1 /\ seq \in Int
      /\ seq = Modulus * 0 + seq
      /\ seq + Top * ByteSize = Modulus * 1 + seq
      /\ seq + Top * ByteSize \in Int /\ 0 \in Int /\ 1 \in Int
  BY Sizes DEF Sequence, MaxValue
<1> QED BY <1>1, ModulusType, RestIsUnique DEF Wrap

-----------------------------------------------------------------------------
(* Buffers of the same bytes are the same.                                 *)
LEMMA SameBytes ==
  ASSUME NEW S, NEW a \in Seq(S), NEW b \in Seq(S), Len(a) = Len(b),
         \A i \in 1 .. Len(a) : a[i] = b[i]
  PROVE  a = b
<1>1. a = [i \in 1 .. Len(a) |-> a[i]] /\ b = [i \in 1 .. Len(b) |-> b[i]]
  OBVIOUS
<1> QED BY <1>1

(* c has the bytes of a, then those of b.                                  *)
JoinOf(c, a, b) ==
  /\ c \in Seq(Byte)
  /\ Len(c) = Len(a) + Len(b)
  /\ \A i \in 1 .. Len(a) : c[i] = a[i]
  /\ \A i \in 1 .. Len(b) : c[Len(a) + i] = b[i]

(* Appending a buffer to another.                                          *)
LEMMA JoinBytes ==
  ASSUME NEW a \in Seq(Byte), NEW b \in Seq(Byte)
  PROVE  JoinOf(a \o b, a, b)
BY DEF JoinOf

(* What begins after the first buffer is the second.                       *)
LEMMA FromSecond ==
  ASSUME NEW a \in Seq(Byte), NEW b \in Seq(Byte), NEW c, JoinOf(c, a, b)
  PROVE  From(c, Len(a)) = b
<1>1. /\ c \in Seq(Byte) /\ Len(c) = Len(a) + Len(b)
      /\ Len(a) \in Nat /\ Len(b) \in Nat
      /\ \A i \in 1 .. Len(b) : c[Len(a) + i] = b[i]
  BY DEF JoinOf
<1> DEFINE d == SubSeq(c, Len(a) + 1, Len(c))
<1>2. d \in Seq(Byte) /\ Len(d) = Len(b)
  BY <1>1
<1>3. \A i \in 1 .. Len(b) : d[i] = b[i]
  BY <1>1
<1> HIDE DEF d
<1>4. d = b
  BY <1>2, <1>3, SameBytes
<1> QED BY <1>4 DEF From, d

(* The ack as it is written.                                               *)
RawAck(ack) == IF ack = NoAck THEN InvalidSequence ELSE ack

(* d has a delta's header, of five bytes, and this payload.                *)
DeltaOf(d, seq, raw, distance, payload) ==
  /\ d \in Seq(Byte)
  /\ Len(d) = 5 + Len(payload)
  /\ d[1] = Push(seq)[1] /\ d[2] = Push(seq)[2]
  /\ d[3] = Push(raw)[1] /\ d[4] = Push(raw)[2]
  /\ d[5] = distance
  /\ From(d, 5) = payload

(* Both are two bytes.                                                     *)
LEMMA RawType ==
  ASSUME NEW ack \in Sequence \cup {NoAck}
  PROVE  RawAck(ack) \in Word
<1>1. InvalidSequence \in Word
  BY Sizes DEF InvalidSequence, Word
<1> QED BY <1>1, PushSequence DEF RawAck

(* A delta: its header's five bytes, then what it was given.               *)
LEMMA DeltaBytes ==
  ASSUME NEW seq \in Sequence, NEW ack \in Sequence \cup {NoAck},
         NEW distance \in Byte, NEW payload \in Seq(Byte)
  PROVE  DeltaOf(PacketDelta(seq, ack, distance, payload),
                 seq, RawAck(ack), distance, payload)
<1> DEFINE p == Push(seq)
           q == Push(RawAck(ack))
           h == p \o q
           e == << distance >>
           g == h \o e
           d == g \o payload
<1>1. seq \in Word /\ RawAck(ack) \in Word
  BY PushSequence, RawType
<1>2. p \in Seq(Byte) /\ Len(p) = 2 /\ q \in Seq(Byte) /\ Len(q) = 2
  BY <1>1, PushBytes
<1>3. e \in Seq(Byte) /\ Len(e) = 1 /\ e[1] = distance
  OBVIOUS
<1>4. d = PacketDelta(seq, ack, distance, payload)
  BY DEF PacketDelta, RawAck
<1> HIDE DEF p, q, e
<1>5. JoinOf(h, p, q)
  BY <1>2, JoinBytes
<1> HIDE DEF h
<1>6. /\ h \in Seq(Byte) /\ Len(h) = 4
      /\ h[1] = p[1] /\ h[2] = p[2] /\ h[3] = q[1] /\ h[4] = q[2]
  BY <1>2, <1>5 DEF JoinOf
<1>7. JoinOf(g, h, e)
  BY <1>3, <1>6, JoinBytes
<1> HIDE DEF g
<1>8. /\ g \in Seq(Byte) /\ Len(g) = 5
      /\ g[1] = h[1] /\ g[2] = h[2] /\ g[3] = h[3] /\ g[4] = h[4]
      /\ g[5] = distance
  BY <1>3, <1>6, <1>7 DEF JoinOf
<1>9. JoinOf(d, g, payload)
  BY <1>8, JoinBytes
<1> HIDE DEF d
<1>10. From(d, Len(g)) = payload
  BY <1>8, <1>9, FromSecond
<1>11. /\ d \in Seq(Byte) /\ Len(d) = 5 + Len(payload)
       /\ d[1] = g[1] /\ d[2] = g[2] /\ d[3] = g[3] /\ d[4] = g[4]
       /\ d[5] = g[5]
  BY <1>8, <1>9 DEF JoinOf
<1>12. DeltaOf(d, seq, RawAck(ack), distance, payload)
  BY <1>6, <1>8, <1>10, <1>11 DEF DeltaOf, p, q
<1> QED BY <1>4, <1>12

(* What a receiver makes of a delta.                                       *)
LEMMA DeltaRead ==
  ASSUME NEW seq \in Sequence, NEW ack \in Sequence \cup {NoAck},
         NEW distance \in Byte, NEW payload \in Seq(Byte),
         NEW d, DeltaOf(d, seq, RawAck(ack), distance, payload)
  PROVE  /\ GetSequence(d) = seq
         /\ GetSequenceAck(d) = ack
         /\ GetSequenceBase(d) = MinusAssign(seq, distance)
         /\ IsDelta(d) /\ ~IsFragment(d)
         /\ GetCommand(d) = Unrecognised
         /\ GetPayloadBuffer(d, OffsetDeltaPayload) = payload
<1> DEFINE raw == RawAck(ack)
<1>1. /\ d \in Seq(Byte) /\ Len(d) = 5 + Len(payload)
      /\ d[1] = Push(seq)[1] /\ d[2] = Push(seq)[2]
      /\ d[3] = Push(raw)[1] /\ d[4] = Push(raw)[2]
      /\ d[5] = distance
      /\ From(d, 5) = payload
  BY DEF DeltaOf
<1>2. seq \in Word /\ raw \in Word
  BY PushSequence, RawType
<1> HIDE DEF raw
<1>3. Pull(d, 0) = seq /\ Pull(d, 2) = raw
  BY <1>1, <1>2, PushBytes DEF Pull, At
<1>4. GetSequence(d) = seq
  BY <1>3, WrapOfSequence DEF GetSequence
<1>5. GetSequenceAck(d) = ack
  <2>1. CASE ack = NoAck
    BY <2>1, <1>3 DEF GetSequenceAck, raw, RawAck
  <2>2. CASE ack # NoAck
    <3>1. ack \in Sequence /\ raw = ack
      BY <2>2 DEF raw, RawAck
    <3>2. ack # InvalidSequence /\ Wrap(ack) = ack
      BY <3>1, WrapOfSequence, Sizes DEF InvalidSequence, Sequence, MaxValue
    <3> QED BY <3>1, <3>2, <1>3 DEF GetSequenceAck
  <2> QED BY <2>1, <2>2
<1>6. ~IsSet(At(d, 0))
  <2>1. Push(seq)[1] \in Byte /\ Push(seq)[1] < Top
    BY <1>2, PushBytes, PushSequence
  <2> QED BY <2>1, <1>1, Sizes DEF IsSet, At, Byte
<1>7. ~IsSet(At(d, 2)) \/ raw = InvalidSequence
  <2>1. CASE ack = NoAck
    BY <2>1 DEF raw, RawAck
  <2>2. CASE ack # NoAck
    <3>1. ack \in Sequence /\ raw = ack
      BY <2>2 DEF raw, RawAck
    <3>2. Push(raw)[1] \in Byte /\ Push(raw)[1] < Top
      BY <3>1, <1>2, PushBytes, PushSequence
    <3> QED BY <3>2, <1>1, Sizes DEF IsSet, At, Byte
  <2> QED BY <2>1, <2>2
<1>8. Len(d) \in Nat /\ Len(d) >= 5
  BY <1>1
<1>9. IsDelta(d) /\ ~IsFragment(d)
  BY <1>3, <1>6, <1>7, <1>8 DEF IsDelta, IsFragment, OffsetDeltaPayload
<1>10. GetCommand(d) = Unrecognised
  <2>1. CASE ~IsSet(At(d, 2))
    BY <2>1 DEF GetCommand
  <2>2. CASE raw = InvalidSequence
    <3> DEFINE x == Push(raw)[1]
               y == Push(raw)[2]
    <3>1. x \in Byte /\ y \in Byte /\ x * ByteSize + y = raw
      BY <1>2, PushBytes
    <3>2. At(d, 2) = x
      BY <1>1 DEF At
    <3> HIDE DEF x, y
    <3>3. x \in Nat /\ y \in Nat /\ y <= ByteSize - 1
      BY <3>1, Sizes DEF Byte
    <3>4. x * ByteSize + y = ByteSize * ByteSize - 1
      BY <3>1, <2>2 DEF InvalidSequence
    <3>5. x >= ByteSize - 1
      <4>1. SUFFICES ASSUME ByteSize - 2 >= x PROVE FALSE
        BY <3>3, Sizes
      <4>2. ByteSize * (ByteSize - 2) >= ByteSize * x
        BY <4>1, <3>3, Sizes, TimesAtLeast
      <4>3. ByteSize * (ByteSize - 2) = ByteSize * ByteSize - 2 * ByteSize
        BY Sizes
      <4>4. ByteSize * x + y = ByteSize * ByteSize - 1
        BY <3>3, <3>4, Sizes
      <4> QED BY <4>2, <4>3, <4>4, <3>3, Sizes
    <3> QED BY <3>2, <3>3, <3>5, Sizes DEF GetCommand, LastValidCommand
  <2> QED BY <2>1, <2>2, <1>7
<1>11. GetSequenceBase(d) = MinusAssign(seq, distance)
  BY <1>1, <1>4 DEF GetSequenceBase, At
<1>12. GetPayloadBuffer(d, OffsetDeltaPayload) = payload
  BY <1>1 DEF GetPayloadBuffer, OffsetDeltaPayload
<1> QED BY <1>4, <1>5, <1>9, <1>10, <1>11, <1>12

(* The id and the payload of a client's delta can be told apart.           *)
LEMMA ClientDeltaRead ==
  ASSUME NEW seq \in Sequence, NEW raw,
         NEW distance \in Byte, NEW id \in Word, NEW payload \in Seq(Byte),
         NEW d, DeltaOf(d, seq, raw, distance, Push(id) \o payload)
  PROVE  IdConnection(d) = id /\ ClientPayload(d) = payload
<1> DEFINE p == Push(id)
           c == p \o payload
<1>1. p \in Seq(Byte) /\ Len(p) = 2 /\ p[1] * ByteSize + p[2] = id
  BY PushBytes
<1>2. JoinOf(c, p, payload)
  BY <1>1, JoinBytes
<1>3. d \in Seq(Byte) /\ Len(d) = 5 + Len(c) /\ From(d, 5) = c
  BY DEF DeltaOf
<1> HIDE DEF p, c
<1>4. /\ c \in Seq(Byte) /\ Len(c) = 2 + Len(payload)
      /\ c[1] = p[1] /\ c[2] = p[2] /\ From(c, 2) = payload
  <2>1. From(c, Len(p)) = payload
    BY <1>1, <1>2, FromSecond
  <2> QED BY <2>1, <1>1, <1>2 DEF JoinOf
<1>5. Len(d) \in Nat /\ Len(d) >= 7 /\ Len(c) = Len(d) - 5
  BY <1>3, <1>4
<1>6. \A i \in 1 .. Len(c) : c[i] = d[5 + i]
  BY <1>3, <1>5 DEF From
<1>7. d[6] = p[1] /\ d[7] = p[2]
  BY <1>4, <1>5, <1>6
<1>8. IdConnection(d) = id
  BY <1>1, <1>5, <1>7 DEF IdConnection, Pull, At, OffsetDeltaPayload
<1>9. ClientPayload(d) = payload
  <2> DEFINE x == From(d, 7)
             y == From(c, 2)
  <2>1. x \in Seq(Byte) /\ Len(x) = Len(d) - 7
    BY <1>3, <1>5 DEF From
  <2>2. y \in Seq(Byte) /\ Len(y) = Len(c) - 2
    BY <1>4, <1>5 DEF From
  <2>3. \A i \in 1 .. Len(x) : x[i] = d[7 + i]
    BY <1>3, <1>5 DEF From
  <2>4. \A i \in 1 .. Len(x) : y[i] = c[2 + i]
    BY <1>4, <1>5, <2>1 DEF From
  <2> HIDE DEF x, y
  <2>5. \A i \in 1 .. Len(x) : x[i] = y[i]
    <3> TAKE i \in 1 .. Len(x)
    <3>1. 2 + i \in 1 .. Len(c) /\ 5 + (2 + i) = 7 + i
      BY <2>1, <1>5
    <3>2. c[2 + i] = d[7 + i]
      BY <3>1, <1>6
    <3> QED BY <3>2, <2>3, <2>4
  <2>6. x = y
    BY <2>1, <2>2, <2>5, <1>5, SameBytes
  <2> QED BY <2>6, <1>4 DEF x, y, ClientPayload, OffsetDeltaPayload
<1> QED BY <1>8, <1>9

-----------------------------------------------------------------------------
(* A command, of the handshake, and what a receiver makes of it.           *)
LEMMA CommandRead ==
  ASSUME NEW cmd \in Commands, NEW payload \in Seq(Byte),
         NEW d, d = Command(cmd, payload)
  PROVE  /\ d \in Seq(Byte)
         /\ GetSequence(d) = 0
         /\ ~IsDelta(d) /\ ~IsFragment(d)
         /\ GetCommand(d) = cmd
         /\ GetPayloadBuffer(d, OffsetPayload) = payload
<1> DEFINE p == Push(0)
           e == << cmd + Top >>
           h == p \o e
           c == h \o payload
<1>1. 0 \in Sequence /\ 0 \in Word
  BY Sizes DEF Sequence, MaxValue, Word
<1>2. /\ p \in Seq(Byte) /\ Len(p) = 2 /\ p[1] \in Byte /\ p[1] < Top
      /\ p[1] * ByteSize + p[2] = 0
  BY <1>1, PushBytes, PushSequence
<1>3. /\ cmd \in Nat /\ cmd <= 7 /\ cmd > 0
      /\ e \in Seq(Byte) /\ Len(e) = 1 /\ e[1] = cmd + Top
  BY Sizes DEF Commands, LastValidCommand, Byte
<1>4. d = c
  BY DEF Command
<1> HIDE DEF p, e
<1>5. JoinOf(h, p, e)
  BY <1>2, <1>3, JoinBytes
<1> HIDE DEF h
<1>6. /\ h \in Seq(Byte) /\ Len(h) = 3
      /\ h[1] = p[1] /\ h[2] = p[2] /\ h[3] = cmd + Top
  BY <1>2, <1>3, <1>5 DEF JoinOf
<1>7. JoinOf(c, h, payload)
  BY <1>6, JoinBytes
<1> HIDE DEF c
<1>8. From(c, Len(h)) = payload
  BY <1>6, <1>7, FromSecond
<1>9. /\ c \in Seq(Byte) /\ Len(c) = 3 + Len(payload)
      /\ c[1] = h[1] /\ c[2] = h[2] /\ c[3] = h[3]
  BY <1>6, <1>7 DEF JoinOf
<1>10. Len(c) \in Nat /\ Len(c) >= 3
  BY <1>9
<1>11. ~IsSet(At(c, 0)) /\ IsSet(At(c, 2)) /\ At(c, 2) - Top = cmd
  <2>1. c[1] = p[1] /\ c[3] = cmd + Top /\ p[1] \in Int
    BY <1>2, <1>6, <1>9, Sizes DEF Byte
  <2> QED BY <2>1, <1>2, <1>3, Sizes DEF IsSet, At
<1>12. GetSequence(c) = 0
  BY <1>1, <1>2, <1>6, <1>9, WrapOfSequence DEF GetSequence, Pull, At
<1>13. ~IsFragment(c)
  BY <1>11 DEF IsFragment
<1>14. GetCommand(c) = cmd
  BY <1>3, <1>10, <1>11 DEF GetCommand, OffsetPayload, LastValidCommand
<1>15. ~IsDelta(c)
  <2>1. SUFFICES ASSUME Len(c) >= 5, Pull(c, 2) = InvalidSequence PROVE FALSE
    BY <1>11 DEF IsDelta, OffsetDeltaPayload
  <2> DEFINE y == c[4]
  <2>2. y \in Byte /\ c[3] = cmd + Top
    BY <2>1, <1>6, <1>9
  <2>3. (cmd + Top) * ByteSize + y = ByteSize * ByteSize - 1
    BY <2>1, <2>2 DEF Pull, At, InvalidSequence
  <2> HIDE DEF y
  <2>4. y \in Nat /\ y <= ByteSize - 1
    BY <2>2, Sizes DEF Byte
  <2>5. ByteSize * (ByteSize - 2) >= ByteSize * (cmd + Top)
    <3>1. ByteSize - 2 >= cmd + Top
      BY <1>3, Sizes
    <3>2. ByteSize - 2 \in Int /\ cmd + Top \in Int /\ ByteSize \in Nat \ {0}
      BY <1>3, Sizes
    <3> QED BY <3>1, <3>2, TimesAtLeast
  <2>6. ByteSize * (ByteSize - 2) = ByteSize * ByteSize - 2 * ByteSize
    BY Sizes
  <2>7. ByteSize * (cmd + Top) + y = ByteSize * ByteSize - 1
    BY <2>3, <1>3, Sizes
  <2>8. ByteSize * (cmd + Top) \in Int
    BY <1>3, Sizes
  <2> QED BY <2>4, <2>5, <2>6, <2>7, <2>8, Sizes
<1>16. GetPayloadBuffer(c, OffsetPayload) = payload
  BY <1>6, <1>8 DEF GetPayloadBuffer, OffsetPayload
<1> QED BY <1>4, <1>9, <1>12, <1>13, <1>14, <1>15, <1>16

-----------------------------------------------------------------------------
(* Where the piece with this index begins in a buffer and how long it is.  *)
Offset(k) == FragmentSize * k
PieceLength(w, k) == IF ReachesEnd(Offset(k), w) THEN Len(w) - Offset(k)
                                                 ELSE FragmentSize

(* There is a piece of w with this index.                                  *)
HasPiece(w, k) == k \in 0 .. Top - 1 /\ Offset(k) < Len(w)

(* f is that piece, with its header.                                       *)
PieceOf(f, seq, w, k) ==
  /\ f \in Seq(Byte)
  /\ Len(f) = 3 + PieceLength(w, k)
  /\ f[1] = Push(seq)[1] + Top /\ f[2] = Push(seq)[2]
  /\ f[3] = k + (IF ReachesEnd(Offset(k), w) THEN Top ELSE 0)
  /\ From(f, 3) = SubSeq(w, Offset(k) + 1, Offset(k) + PieceLength(w, k))

(* The smaller of two numbers.                                             *)
LEMMA MinOfTwo ==
  ASSUME NEW a \in Int, NEW b \in Int
  PROVE  Min({a, b}) = IF a >= b THEN b ELSE a
<1> DEFINE m == IF a >= b THEN b ELSE a
<1>1. m \in {a, b} /\ \A y \in {a, b} : m <= y
  OBVIOUS
<1>2. \A x \in {a, b} : (\A y \in {a, b} : x <= y) => x = m
  OBVIOUS
<1> QED BY <1>1, <1>2 DEF Min

(* A piece is not empty and not longer than a datagram allows.             *)
LEMMA PieceLengthType ==
  ASSUME NEW w \in Seq(Byte), NEW k, HasPiece(w, k)
  PROVE  /\ k \in Nat /\ Offset(k) \in Nat /\ Len(w) \in Nat
         /\ PieceLength(w, k) \in 1 .. FragmentSize
         /\ Offset(k) + PieceLength(w, k) <= Len(w)
         /\ Min({Offset(k) + FragmentSize, Len(w)})
               = Offset(k) + PieceLength(w, k)
<1>1. k \in Nat /\ Len(w) \in Nat /\ FragmentSize \in Nat \ {0}
  BY Sizes DEF HasPiece
<1>2. FragmentSize * k \in Nat
  BY <1>1
<1>3. Offset(k) \in Nat /\ Offset(k) < Len(w)
  BY <1>2 DEF Offset, HasPiece
<1>4. Min({Offset(k) + FragmentSize, Len(w)})
        = IF Offset(k) + FragmentSize >= Len(w) THEN Len(w)
          ELSE Offset(k) + FragmentSize
  BY <1>1, <1>3, MinOfTwo
<1> QED BY <1>1, <1>3, <1>4 DEF PieceLength, ReachesEnd

(* PacketFragment makes that piece.                                        *)
LEMMA PieceBytes ==
  ASSUME NEW seq \in Sequence, NEW w \in Seq(Byte), NEW k, HasPiece(w, k)
  PROVE  PieceOf(PacketFragment(seq, w, k), seq, w, k)
<1> DEFINE p == [Push(seq) EXCEPT ![1] = @ + Top]
           e == << k + (IF ReachesEnd(Offset(k), w) THEN Top ELSE 0) >>
           x == SubSeq(w, Offset(k) + 1, Offset(k) + PieceLength(w, k))
           h == p \o e
           c == h \o x
<1>1. /\ Push(seq) \in Seq(Byte) /\ Len(Push(seq)) = 2
      /\ Push(seq)[1] \in Byte /\ Push(seq)[1] < Top
  BY PushBytes, PushSequence
<1>2. /\ p \in Seq(Byte) /\ Len(p) = 2
      /\ p[1] = Push(seq)[1] + Top /\ p[2] = Push(seq)[2]
  <2>1. Push(seq)[1] + Top \in Byte
    BY <1>1, Sizes DEF Byte
  <2> QED BY <1>1, <2>1
<1>3. /\ e \in Seq(Byte) /\ Len(e) = 1
      /\ e[1] = k + (IF ReachesEnd(Offset(k), w) THEN Top ELSE 0)
  <2>1. k + (IF ReachesEnd(Offset(k), w) THEN Top ELSE 0) \in Byte
    BY Sizes DEF HasPiece, Byte
  <2> QED BY <2>1
<1>4. /\ Offset(k) \in Nat /\ Len(w) \in Nat
      /\ PieceLength(w, k) \in 1 .. FragmentSize
      /\ Offset(k) + PieceLength(w, k) <= Len(w)
      /\ Min({Offset(k) + FragmentSize, Len(w)})
            = Offset(k) + PieceLength(w, k)
  BY PieceLengthType
<1>5. x \in Seq(Byte) /\ Len(x) = PieceLength(w, k)
  BY <1>4, Sizes
<1>6. PacketFragment(seq, w, k) = c
  <2>1. k < Top /\ Offset(k) < Len(w)
    BY Sizes DEF HasPiece
  <2> QED BY <2>1, <1>4 DEF PacketFragment, Offset
<1> HIDE DEF p, e, x
<1>7. JoinOf(h, p, e)
  BY <1>2, <1>3, JoinBytes
<1> HIDE DEF h
<1>8. /\ h \in Seq(Byte) /\ Len(h) = 3
      /\ h[1] = p[1] /\ h[2] = p[2] /\ h[3] = e[1]
  BY <1>2, <1>3, <1>7 DEF JoinOf
<1>9. JoinOf(c, h, x)
  BY <1>5, <1>8, JoinBytes
<1> HIDE DEF c
<1>10. From(c, Len(h)) = x
  BY <1>5, <1>8, <1>9, FromSecond
<1>11. /\ c \in Seq(Byte) /\ Len(c) = 3 + Len(x)
       /\ c[1] = h[1] /\ c[2] = h[2] /\ c[3] = h[3]
  BY <1>5, <1>8, <1>9 DEF JoinOf
<1>12. PieceOf(c, seq, w, k)
  BY <1>2, <1>3, <1>5, <1>8, <1>10, <1>11 DEF PieceOf, x
<1> QED BY <1>6, <1>12

(* What a receiver makes of a piece.                                       *)
LEMMA PieceRead ==
  ASSUME NEW seq \in Sequence, NEW w \in Seq(Byte), NEW k, HasPiece(w, k),
         NEW f, PieceOf(f, seq, w, k)
  PROVE  /\ Len(f) <= SizeMaxPacketSize
         /\ IsFragment(f) /\ ~IsDelta(f)
         /\ GetCommand(f) = Unrecognised
         /\ GetSequence(f) = seq
         /\ FragmentId(f) = k
         /\ IsLastFragment(f) <=> ReachesEnd(Offset(k), w)
         /\ GetPayloadBuffer(f, OffsetFragmentPayload)
               = SubSeq(w, Offset(k) + 1, Offset(k) + PieceLength(w, k))
<1>1. k \in Nat /\ k < Top /\ PieceLength(w, k) \in 1 .. FragmentSize
  <2>1. k \in Nat /\ k < Top
    BY Sizes DEF HasPiece
  <2>2. PieceLength(w, k) \in 1 .. FragmentSize
    BY PieceLengthType
  <2> QED BY <2>1, <2>2
<1>2. Len(f) \in Nat /\ Len(f) <= SizeMaxPacketSize /\ Len(f) > 3
  BY <1>1, Sizes, PacketBytesAssumption DEF PieceOf
<1> DEFINE p == Push(seq)[1]
           q == Push(seq)[2]
<1>3. /\ p \in Byte /\ p < Top /\ q \in Byte
      /\ p * ByteSize + q = seq
      /\ f[1] = p + Top /\ f[2] = q
  BY PushBytes, PushSequence DEF PieceOf
<1> HIDE DEF p, q
<1>4. p \in Nat /\ q \in Nat
  BY <1>3, Sizes DEF Byte
<1>5. IsSet(At(f, 0))
  BY <1>3, <1>4, Sizes DEF IsSet, At
<1>6. IsFragment(f) /\ ~IsDelta(f) /\ GetCommand(f) = Unrecognised
  BY <1>2, <1>5 DEF IsFragment, IsDelta, GetCommand, OffsetFragmentPayload
<1>7. GetSequence(f) = seq
  <2>1. (p + Top) * ByteSize + q = seq + Top * ByteSize
    <3>1. (p + Top) * ByteSize = p * ByteSize + Top * ByteSize
      BY <1>4, Sizes
    <3>2. p * ByteSize \in Int /\ Top * ByteSize \in Int
      BY <1>4, Sizes
    <3> QED BY <3>1, <3>2, <1>3, <1>4
  <2>2. Pull(f, 0) = seq + Top * ByteSize
    BY <2>1, <1>3 DEF Pull, At
  <2> QED BY <2>2, WrapOfSequence DEF GetSequence
<1>8. CASE ReachesEnd(Offset(k), w)
  <2>1. At(f, 2) = k + Top
    BY <1>8 DEF PieceOf, At
  <2>2. At(f, 2) % Top = k
    <3>1. k + Top = Top * 1 + k /\ k \in 0 .. Top - 1 /\ Top \in Nat \ {0}
      BY <1>1, Sizes
    <3>2. k + Top \in Int /\ 1 \in Int
      BY <1>1, Sizes
    <3> QED BY <2>1, <3>1, <3>2, RestIsUnique
  <2>3. IsSet(At(f, 2))
    BY <2>1, <1>1, Sizes DEF IsSet
  <2> QED BY <1>2, <1>6, <1>7, <1>8, <2>2, <2>3
          DEF FragmentId, IsLastFragment, GetPayloadBuffer,
              OffsetFragmentPayload, PieceOf
<1>9. CASE ~ReachesEnd(Offset(k), w)
  <2>1. At(f, 2) = k
    BY <1>1, <1>9 DEF PieceOf, At
  <2>2. At(f, 2) % Top = k
    <3>1. k = Top * 0 + k /\ k \in 0 .. Top - 1 /\ Top \in Nat \ {0}
      BY <1>1, Sizes
    <3> QED BY <2>1, <3>1, RestIsUnique
  <2>3. ~IsSet(At(f, 2))
    BY <2>1, <1>1, Sizes DEF IsSet
  <2> QED BY <1>2, <1>6, <1>7, <1>9, <2>2, <2>3
          DEF FragmentId, IsLastFragment, GetPayloadBuffer,
              OffsetFragmentPayload, PieceOf
<1> QED BY <1>8, <1>9

(* The loop of FragmentPacket makes nothing but pieces of its packet.      *)
LEMMA PiecesType ==
  ASSUME NEW w \in Seq(Byte), GetSequence(w) \in Sequence
  PROVE  /\ Pieces(w) \in Seq(Seq(Byte))
         /\ \A i \in DOMAIN Pieces(w) :
              \E k : HasPiece(w, k) /\ PieceOf(Pieces(w)[i], GetSequence(w), w, k)
<1> DEFINE seq == GetSequence(w)
           Nth(n) == PacketFragment(seq, w, n)
           S == { n \in 0 .. ByteSize - 2 : ~IsFragment(Nth(n)) \/ n = ByteSize - 2 }
           count == Min(S)
<1>1. S \in SUBSET Nat /\ ByteSize - 2 \in S
  BY Sizes
<1>2. PICK least \in S : \A n \in S : ~(n < least)
  BY <1>1, LeastNatural
<1>3. count = least
  <2>1. \A n \in S : least <= n
    BY <1>1, <1>2
  <2>2. \A x \in S : (\A y \in S : x <= y) => x = least
    BY <1>1, <1>2, <2>1
  <2> HIDE DEF S
  <2> QED BY <2>1, <2>2 DEF Min
<1>4. count \in 0 .. ByteSize - 2 /\ \A n \in S : ~(n < count)
  BY <1>2, <1>3
<1>5. ASSUME NEW n \in 1 .. count
      PROVE  HasPiece(w, n - 1) /\ PieceOf(Nth(n - 1), seq, w, n - 1)
  <2>1. n - 1 \in 0 .. ByteSize - 2 /\ n - 1 < count /\ n - 1 # ByteSize - 2
    BY <1>4, Sizes
  <2>2. IsFragment(Nth(n - 1))
    BY <2>1, <1>4
  <2>3. ASSUME Nth(n - 1) = << >> PROVE FALSE
    BY <2>2, <2>3 DEF IsFragment, OffsetFragmentPayload
  <2>4. n - 1 < Top /\ Offset(n - 1) < Len(w)
    BY <2>3 DEF PacketFragment, Offset
  <2>5. HasPiece(w, n - 1)
    BY <2>1, <2>4, Sizes DEF HasPiece
  <2> QED BY <2>5, PieceBytes
<1> HIDE DEF Nth, S, seq
<1>6. Pieces(w) = [n \in 1 .. count |-> Nth(n - 1)]
  BY DEF Pieces, Nth, S, seq
<1>7. \A n \in 1 .. count : Nth(n - 1) \in Seq(Byte)
  BY <1>5 DEF PieceOf
<1> HIDE DEF count
<1>8. Pieces(w) \in Seq(Seq(Byte)) /\ DOMAIN Pieces(w) = 1 .. count
  BY <1>4, <1>6, <1>7, Sizes
<1> QED BY <1>5, <1>6, <1>8 DEF seq

-----------------------------------------------------------------------------
(* XorCode keeps a buffer's length and undoes itself.                      *)
LEMMA XorUndone ==
  ASSUME NEW data \in Seq(Byte), NEW code \in Seq(Byte), code # << >>
  PROVE  /\ XorCode(data, code) \in Seq(Byte)
         /\ Len(XorCode(data, code)) = Len(data)
         /\ XorCode(XorCode(data, code), code) = data
<1> DEFINE c(i) == At(code, (i - 1) % Len(code))
           x == XorCode(data, code)
           y == XorCode(x, code)
<1>1. Len(code) \in Nat \ {0} /\ Len(data) \in Nat
  OBVIOUS
<1>2. ASSUME NEW i \in 1 .. Len(data) PROVE c(i) \in Byte
  <2> DEFINE j == i - 1
  <2>0. j \in Int
    BY <1>1
  <2> HIDE DEF j
  <2>1. j % Len(code) \in 0 .. Len(code) - 1
    BY <1>1, <2>0, DivideWithRest
  <2>2. (j % Len(code)) + 1 \in 1 .. Len(code)
    BY <1>1, <2>1
  <2>3. code[(j % Len(code)) + 1] \in Byte
    BY <2>2
  <2> QED BY <2>3 DEF At, j
<1>3. x = [i \in 1 .. Len(data) |-> ByteXor(data[i], c(i))]
  BY DEF XorCode
<1>4. \A i \in 1 .. Len(data) :
        /\ data[i] \in Byte
        /\ ByteXor(data[i], c(i)) \in Byte
        /\ ByteXor(ByteXor(data[i], c(i)), c(i)) = data[i]
  BY <1>2, XorAssumption
<1> HIDE DEF x
<1>5. x \in Seq(Byte) /\ Len(x) = Len(data) /\ DOMAIN x = 1 .. Len(data)
  BY <1>1, <1>3, <1>4
<1>6. y = [i \in 1 .. Len(data) |-> ByteXor(x[i], c(i))]
  BY <1>5 DEF XorCode
<1> HIDE DEF c
<1>7. \A i \in 1 .. Len(data) : ByteXor(x[i], c(i)) = data[i]
  BY <1>3, <1>4
<1> HIDE DEF y
<1>8. y = [i \in 1 .. Len(data) |-> data[i]]
  BY <1>6, <1>7
<1>9. y = data
  BY <1>8
<1> QED BY <1>5, <1>9 DEF x, y

(* The code of a delta is not empty.                                       *)
LEMMA CodeType ==
  ASSUME NEW seq \in Sequence, NEW ack \in Sequence \cup {NoAck},
         NEW key \in Seq(Byte), key # << >>
  PROVE  CodeFor(seq, ack, key) \in Seq(Byte) /\ CodeFor(seq, ack, key) # << >>
<1> DEFINE a == IF ack = NoAck THEN 0 ELSE ack
           p == Push(seq)
           q == Push(a)
           c == p \o q
<1>1. seq \in Word /\ a \in Word
  <2>1. 0 \in Word
    BY Sizes DEF Word
  <2> QED BY <2>1, PushSequence
<1> HIDE DEF a
<1>2. p \in Seq(Byte) /\ Len(p) = 2 /\ q \in Seq(Byte) /\ Len(q) = 2
  BY <1>1, PushBytes
<1> HIDE DEF p, q
<1>3. JoinOf(c, p, q)
  BY <1>2, JoinBytes
<1> HIDE DEF c
<1>4. c \in Seq(Byte) /\ Len(c) = 4
  BY <1>2, <1>3 DEF JoinOf
<1> DEFINE z == XorCode(c, key)
<1>5. z \in Seq(Byte) /\ Len(z) = 4
  BY <1>4, XorUndone
<1>6. CodeFor(seq, ack, key) = z
  BY DEF CodeFor, c, p, q, a
<1> HIDE DEF z
<1>7. z # << >>
  <2>1. SUFFICES ASSUME z = << >> PROVE FALSE
    OBVIOUS
  <2>2. Len(z) = 0
    BY <2>1
  <2> QED BY <2>2, <1>5
<1> QED BY <1>5, <1>6, <1>7

-----------------------------------------------------------------------------
(* The packet a server makes of a message, which may be cut up, and the    *)
(* one a client does.                                                      *)
Whole(m) == PacketDelta(m.to, m.ack, Distance(m), Hidden(m))
ClientWhole(m) == ClientDelta(m.to, m.ack, Distance(m), stream.id, Hidden(m))

(* d is a datagram that Send makes of m.                                   *)
FromServer(d, m) ==
  /\ MayCode(m)
  /\ \/ d = Whole(m) /\ Len(d) <= SizeMaxPacketSize
     \/ \E k \in 0 .. Top - 1 :
          HasPiece(Whole(m), k) /\ PieceOf(d, m.to, Whole(m), k)

SentAs(d, m) ==
  /\ stream.sender = "server" => FromServer(d, m)
  /\ stream.sender = "client" => MayCode(m) /\ d = ClientWhole(m)
  /\ stream.sender = "handshake" => d = Command(m.cmd, m.payload)

(* What is sent are deltas.                                                *)
IsDeltas == stream.sender \in {"server", "client"}

(* The stream and its messages are as the constants say.                   *)
LEMMA StreamType ==
  ASSUME stream \in Streams
  PROVE  /\ stream.sender \in {"server", "client", "handshake"}
         /\ stream.key \in Seq(Byte) /\ stream.key # << >>
         /\ stream.id \in Word
         /\ stream.maxFaults \in Nat
         /\ Len(stream.messages) \in Nat \ {0}
         /\ IsDeltas => stream.messages \in Seq(DeltaMessage)
         /\ ~IsDeltas => stream.messages \in Seq(HandshakeMessage)
         /\ \E S : stream.messages \in Seq(S)
         /\ stream.sender = "server" =>
              \A m, n \in ToSet(stream.messages) : m.to = n.to => m = n
<1>1. CASE stream.sender = "handshake"
  <2>1. stream.messages \in Seq(HandshakeMessage) /\ stream.messages # << >>
    BY <1>1, PayloadStreamAssumption
  <2> QED BY <1>1, <2>1, PayloadStreamAssumption DEF IsDeltas
<1>2. CASE stream.sender # "handshake"
  <2>1. stream.messages \in Seq(DeltaMessage) /\ stream.messages # << >>
    BY <1>2, PayloadStreamAssumption
  <2> QED BY <1>2, <2>1, PayloadStreamAssumption DEF IsDeltas
<1> QED BY <1>1, <1>2

(* The parts of a message.                                                 *)
LEMMA MessageType ==
  ASSUME stream \in Streams, IsDeltas, NEW m \in ToSet(stream.messages)
  PROVE  /\ m \in DeltaMessage
         /\ m.to \in Sequence /\ m.base \in Sequence
         /\ m.ack \in Sequence \cup {NoAck} /\ m.payload \in Seq(Byte)
         /\ Hidden(m) \in Seq(Byte)
         /\ Len(Hidden(m)) = Len(m.payload)
         /\ XorCode(Hidden(m), CodeFor(m.to, m.ack, stream.key)) = m.payload
         /\ Distance(m) \in Nat
         /\ MayCode(m) => Distance(m) \in Byte
         /\ MayCode(m) => Distance(m) % ByteSize = Distance(m)
         /\ MinusAssign(m.to, Distance(m)) = m.base
<1>1. m \in DeltaMessage
  <2>1. stream.messages \in Seq(DeltaMessage)
    BY StreamType
  <2> QED BY <2>1 DEF ToSet
<1>2. /\ m.to \in Sequence /\ m.base \in Sequence
      /\ m.ack \in Sequence \cup {NoAck} /\ m.payload \in Seq(Byte)
  BY <1>1 DEF DeltaMessage
<1> DEFINE code == CodeFor(m.to, m.ack, stream.key)
<1>3. code \in Seq(Byte) /\ code # << >>
  BY <1>2, StreamType, CodeType
<1> HIDE DEF code
<1>4. /\ XorCode(m.payload, code) \in Seq(Byte)
      /\ Len(XorCode(m.payload, code)) = Len(m.payload)
      /\ XorCode(XorCode(m.payload, code), code) = m.payload
  BY <1>2, <1>3, XorUndone
<1>5. Hidden(m) = XorCode(m.payload, code)
  BY DEF Hidden, code
<1> DEFINE a == m.to
           b == m.base
           d == Distance(m)
<1>6. /\ a \in 0 .. Modulus - 1 /\ b \in 0 .. Modulus - 1
      /\ a \in Int /\ b \in Int /\ Modulus \in Nat \ {0}
  BY <1>2, ModulusType DEF Sequence, MaxValue
<1>7. d = (a - b) % Modulus
  BY DEF Distance, Minus
<1> HIDE DEF a, b, d
<1> DEFINE q == (a - b) \div Modulus
<1>8. /\ d \in 0 .. Modulus - 1 /\ q \in Int
      /\ a - b = Modulus * q + d
  BY <1>6, <1>7, DivideWithRest
<1> HIDE DEF q
<1>9. (a - d) % Modulus = b
  <2>1. a - d = Modulus * q + b
    BY <1>6, <1>8
  <2>2. a - d \in Int
    BY <1>6, <1>8
  <2> QED BY <2>1, <2>2, <1>6, <1>8, RestIsUnique
<1>10. d \in Nat
  BY <1>6, <1>8
<1>11. d <= ByteSize - 1 => d \in Byte /\ d % ByteSize = d
  <2>1. SUFFICES ASSUME d <= ByteSize - 1 PROVE d \in Byte /\ d % ByteSize = d
    OBVIOUS
  <2>2. d \in 0 .. ByteSize - 1 /\ ByteSize \in Nat \ {0} /\ d = ByteSize * 0 + d
    BY <2>1, <1>10, Sizes
  <2>3. d % ByteSize = d
    BY <2>2, <1>10, RestIsUnique
  <2> QED BY <2>2, <2>3 DEF Byte
<1>12. MayCode(m) => d \in Byte /\ d % ByteSize = d
  BY <1>11 DEF MayCode, MaximumDeltaDistance, d
<1>13. MinusAssign(m.to, Distance(m)) = m.base
  BY <1>9 DEF MinusAssign, a, b, d
<1> QED BY <1>1, <1>2, <1>4, <1>5, <1>10, <1>12, <1>13 DEF code, d

(* What a receiver makes of a whole delta of a server.                     *)
LEMMA WholeRead ==
  ASSUME stream \in Streams, IsDeltas,
         NEW m \in ToSet(stream.messages), MayCode(m)
  PROVE  /\ DeltaOf(Whole(m), m.to, RawAck(m.ack), Distance(m), Hidden(m))
         /\ Whole(m) \in Seq(Byte) /\ Whole(m) # Nothing
         /\ GetSequence(Whole(m)) = m.to
         /\ GetSequenceBase(Whole(m)) = m.base
         /\ IsDelta(Whole(m)) /\ ~IsFragment(Whole(m))
         /\ GetCommand(Whole(m)) = Unrecognised
         /\ Revealed(Whole(m)) = m.payload
<1> DEFINE w == Whole(m)
<1>1. /\ m.to \in Sequence /\ m.ack \in Sequence \cup {NoAck}
      /\ Hidden(m) \in Seq(Byte) /\ Distance(m) \in Byte
      /\ XorCode(Hidden(m), CodeFor(m.to, m.ack, stream.key)) = m.payload
      /\ MinusAssign(m.to, Distance(m)) = m.base
  BY MessageType
<1>2. DeltaOf(w, m.to, RawAck(m.ack), Distance(m), Hidden(m))
  BY <1>1, DeltaBytes DEF Whole
<1> HIDE DEF w
<1>3. /\ GetSequence(w) = m.to
      /\ GetSequenceAck(w) = m.ack
      /\ GetSequenceBase(w) = MinusAssign(m.to, Distance(m))
      /\ IsDelta(w) /\ ~IsFragment(w)
      /\ GetCommand(w) = Unrecognised
      /\ GetPayloadBuffer(w, OffsetDeltaPayload) = Hidden(m)
  BY <1>1, <1>2, DeltaRead
<1>4. w \in Seq(Byte) /\ Len(w) = 5 + Len(Hidden(m))
  BY <1>2 DEF DeltaOf
<1>5. w # Nothing
  BY <1>1, <1>4 DEF Nothing
<1>6. Revealed(w) = m.payload
  BY <1>1, <1>3 DEF Revealed
<1> QED BY <1>1, <1>2, <1>3, <1>4, <1>5, <1>6 DEF w

(* What a receiver makes of a client's delta.                              *)
LEMMA ClientWholeRead ==
  ASSUME stream \in Streams, IsDeltas,
         NEW m \in ToSet(stream.messages), MayCode(m)
  PROVE  /\ ClientWhole(m) \in Seq(Byte)
         /\ GetSequence(ClientWhole(m)) = m.to
         /\ IsDelta(ClientWhole(m)) /\ ~IsFragment(ClientWhole(m))
         /\ GetCommand(ClientWhole(m)) = Unrecognised
         /\ IdConnection(ClientWhole(m)) = stream.id
         /\ ClientPayload(ClientWhole(m)) = Hidden(m)
         /\ GetSequenceBase(ClientWhole(m)) = m.base
         /\ Revealed(ClientWhole(m)) \in Seq(Byte)
<1> DEFINE w == ClientWhole(m)
           p == Push(stream.id)
           x == p \o Hidden(m)
<1>1. /\ m.to \in Sequence /\ m.ack \in Sequence \cup {NoAck}
      /\ Hidden(m) \in Seq(Byte) /\ Distance(m) \in Byte
      /\ stream.id \in Word
      /\ MinusAssign(m.to, Distance(m)) = m.base
  BY MessageType, StreamType
<1>2. p \in Seq(Byte)
  BY <1>1, PushBytes
<1> HIDE DEF p
<1>3. x \in Seq(Byte)
  BY <1>1, <1>2, JoinBytes DEF JoinOf
<1> HIDE DEF x
<1>4. DeltaOf(w, m.to, RawAck(m.ack), Distance(m), x)
  BY <1>1, <1>3, DeltaBytes DEF ClientWhole, ClientDelta, x, p
<1> HIDE DEF w
<1>5. /\ GetSequence(w) = m.to /\ GetSequenceAck(w) = m.ack
      /\ GetSequenceBase(w) = MinusAssign(m.to, Distance(m))
      /\ IsDelta(w) /\ ~IsFragment(w)
      /\ GetCommand(w) = Unrecognised
      /\ GetPayloadBuffer(w, OffsetDeltaPayload) = x
  BY <1>1, <1>3, <1>4, DeltaRead
<1>6. w \in Seq(Byte)
  BY <1>4 DEF DeltaOf
<1>7. IdConnection(w) = stream.id /\ ClientPayload(w) = Hidden(m)
  BY <1>1, <1>4, ClientDeltaRead DEF x, p
<1>8. Revealed(w) \in Seq(Byte)
  <2> DEFINE code == CodeFor(m.to, m.ack, stream.key)
  <2>1. code \in Seq(Byte) /\ code # << >>
    BY <1>1, StreamType, CodeType
  <2> HIDE DEF code
  <2>2. XorCode(x, code) \in Seq(Byte)
    BY <1>3, <2>1, XorUndone
  <2> QED BY <1>5, <2>2 DEF Revealed, code
<1> QED BY <1>1, <1>5, <1>6, <1>7, <1>8 DEF w

(* Send makes of a message what SentAs says, and nothing else.             *)
LEMMA DatagramsType ==
  ASSUME stream \in Streams, NEW m \in ToSet(stream.messages)
  PROVE  /\ Datagrams(m) \in Seq(Seq(Byte))
         /\ \A i \in DOMAIN Datagrams(m) : SentAs(Datagrams(m)[i], m)
<1>1. CASE stream.sender = "server"
  <2> DEFINE w == Whole(m)
  <2>1. IsDeltas
    BY <1>1 DEF IsDeltas
  <2>2. Datagrams(m) = ServerSends(m)
    BY <1>1 DEF Datagrams
  <2>3. CASE ~MayCode(m)
    <3>1. Datagrams(m) = << >>
      BY <2>2, <2>3 DEF ServerSends
    <3> QED BY <3>1
  <2>4. CASE MayCode(m)
    <3>1. /\ w \in Seq(Byte) /\ GetSequence(w) = m.to /\ m.to \in Sequence
          /\ Distance(m) % ByteSize = Distance(m)
      BY <2>1, <2>4, WholeRead, MessageType
    <3>2. ServerSends(m) \in {<< >>, FragmentPacket(w)}
      BY <2>4, <3>1 DEF ServerSends, Whole
    <3> HIDE DEF w
    <3>3. \/ FragmentPacket(w) = << >>
          \/ FragmentPacket(w) = Pieces(w)
          \/ FragmentPacket(w) = << w >> /\ ~(Len(w) > SizeMaxPacketSize)
      BY DEF FragmentPacket
    <3>4. CASE Datagrams(m) = << >>
      BY <3>4
    <3>5. CASE Datagrams(m) = Pieces(w)
      <4>1. /\ Pieces(w) \in Seq(Seq(Byte))
            /\ \A i \in DOMAIN Pieces(w) :
                 \E k : HasPiece(w, k) /\ PieceOf(Pieces(w)[i], m.to, w, k)
        BY <3>1, PiecesType
      <4> QED BY <1>1, <2>4, <3>5, <4>1 DEF SentAs, FromServer, HasPiece, w
    <3>6. CASE Datagrams(m) = << w >> /\ ~(Len(w) > SizeMaxPacketSize)
      <4>1. Len(w) \in Nat /\ SizeMaxPacketSize \in Nat
        BY <3>1, PacketBytesAssumption
      <4>2. Len(w) <= SizeMaxPacketSize
        BY <3>6, <4>1
      <4>3. << w >> \in Seq(Seq(Byte)) /\ DOMAIN << w >> = {1} /\ << w >>[1] = w
        BY <3>1
      <4> QED BY <1>1, <2>4, <3>6, <4>2, <4>3 DEF SentAs, FromServer, w
    <3> QED BY <2>2, <3>2, <3>3, <3>4, <3>5, <3>6
  <2> QED BY <2>3, <2>4
<1>2. CASE stream.sender = "client"
  <2> DEFINE w == ClientWhole(m)
  <2>1. IsDeltas
    BY <1>2 DEF IsDeltas
  <2>2. Datagrams(m) = ClientSends(m)
    BY <1>2 DEF Datagrams
  <2>3. CASE Datagrams(m) = << >>
    BY <2>3
  <2>4. CASE Datagrams(m) # << >>
    <3>1. MayCode(m)
      BY <2>2, <2>4 DEF ClientSends
    <3>2. w \in Seq(Byte) /\ Distance(m) % ByteSize = Distance(m)
      BY <2>1, <3>1, ClientWholeRead, MessageType
    <3>3. Datagrams(m) = << w >>
      BY <2>2, <2>4, <3>2 DEF ClientSends, ClientWhole
    <3> HIDE DEF w
    <3>4. << w >> \in Seq(Seq(Byte)) /\ DOMAIN << w >> = {1} /\ << w >>[1] = w
      BY <3>2
    <3> QED BY <1>2, <3>1, <3>3, <3>4 DEF SentAs, w
  <2> QED BY <2>3, <2>4
<1>3. CASE stream.sender = "handshake"
  <2> DEFINE w == Command(m.cmd, m.payload)
  <2>1. m \in HandshakeMessage
    <3>1. stream.messages \in Seq(HandshakeMessage)
      BY <1>3, StreamType DEF IsDeltas
    <3> QED BY <3>1 DEF ToSet
  <2>2. m.cmd \in Commands /\ m.payload \in Seq(Byte)
    BY <2>1 DEF HandshakeMessage
  <2>3. w \in Seq(Byte)
    BY <2>2, CommandRead
  <2>4. Datagrams(m) = << w >>
    BY <1>3 DEF Datagrams
  <2> HIDE DEF w
  <2>5. << w >> \in Seq(Seq(Byte)) /\ DOMAIN << w >> = {1} /\ << w >>[1] = w
    BY <2>3
  <2> QED BY <1>3, <2>4, <2>5 DEF SentAs, w
<1> QED BY <1>1, <1>2, <1>3, StreamType

-----------------------------------------------------------------------------
(* What AddPacket keeps of a piece of w, and all there are.                *)
PartOf(seq, w, k) ==
  [seq |-> seq, index |-> k, last |-> ReachesEnd(Offset(k), w),
   chunk |-> SubSeq(w, Offset(k) + 1, Offset(k) + PieceLength(w, k))]
PartsOf(seq, w) ==
  { PartOf(seq, w, k) : k \in { j \in 0 .. Top - 1 : HasPiece(w, j) } }

(* A piece that arrives is kept as one.                                    *)
LEMMA PieceIsPart ==
  ASSUME NEW seq \in Sequence, NEW w \in Seq(Byte), NEW k, HasPiece(w, k),
         NEW f, PieceOf(f, seq, w, k)
  PROVE  Piece(f) \in PartsOf(seq, w)
<1>1. Piece(f) = PartOf(seq, w, k)
  <2>1. /\ GetSequence(f) = seq /\ FragmentId(f) = k
        /\ IsLastFragment(f) <=> ReachesEnd(Offset(k), w)
        /\ GetPayloadBuffer(f, OffsetFragmentPayload)
              = SubSeq(w, Offset(k) + 1, Offset(k) + PieceLength(w, k))
    BY PieceRead
  <2>2. IsLastFragment(f) \in BOOLEAN /\ ReachesEnd(Offset(k), w) \in BOOLEAN
    BY DEF IsLastFragment, IsSet, ReachesEnd
  <2>3. IsLastFragment(f) = ReachesEnd(Offset(k), w)
    BY <2>1, <2>2
  <2> QED BY <2>1, <2>3, Zenon DEF Piece, PartOf
<1>2. k \in 0 .. Top - 1
  BY DEF HasPiece
<1> QED BY <1>1, <1>2 DEF PartsOf

(* The buffer's order of its pieces, and what it is looked up by.          *)
LEMMA SortedPart ==
  ASSUME NEW seq, NEW w, NEW parts \in Seq(PartsOf(seq, w)),
         NEW i, Parts!Filled(parts, i)
  PROVE  HasPiece(w, i) /\ Parts!Sorted(parts, i) = PartOf(seq, w, i)
<1> DEFINE S == { k \in DOMAIN parts : parts[k].index = i }
<1>1. Len(parts) \in Nat /\ DOMAIN parts = 1 .. Len(parts)
  OBVIOUS
<1>2. S \in SUBSET (0 .. Len(parts)) /\ S # {}
  BY <1>1 DEF Parts!Filled
<1>3. Max(S) \in S
  BY <1>1, <1>2, MaxOfBounded
<1>4. Parts!Max(S) = Max(S)
  BY DEF Parts!Max, Max
<1>5. Max(S) \in DOMAIN parts /\ parts[Max(S)].index = i
  BY <1>3
<1>6. Parts!Sorted(parts, i) = parts[Max(S)]
  BY <1>4 DEF Parts!Sorted
<1> HIDE DEF S
<1>7. PICK k \in 0 .. Top - 1 : HasPiece(w, k) /\ parts[Max(S)] = PartOf(seq, w, k)
  BY <1>1, <1>5 DEF PartsOf
<1>8. k = i
  BY <1>5, <1>7 DEF PartOf
<1> QED BY <1>6, <1>7, <1>8

(* How many pieces there are when the buffer is complete: all of w.        *)
LEMMA CompleteParts ==
  ASSUME NEW seq, NEW w \in Seq(Byte), NEW parts \in Seq(PartsOf(seq, w)),
         parts # << >>, Parts!Complete(parts)
  PROVE  /\ Parts!SortedSize(parts) \in Nat \ {0}
         /\ \A i \in 0 .. Parts!SortedSize(parts) - 1 :
              HasPiece(w, i) /\ Parts!Sorted(parts, i) = PartOf(seq, w, i)
         /\ ReachesEnd(Offset(Parts!SortedSize(parts) - 1), w)
<1> DEFINE n == Parts!SortedSize(parts)
           S == {Len(parts)} \cup { parts[k].index + 1 : k \in DOMAIN parts }
<1>1. Len(parts) \in Nat /\ DOMAIN parts = 1 .. Len(parts) /\ Len(parts) > 0
  OBVIOUS
<1>2. \A k \in DOMAIN parts : parts[k].index \in 0 .. Top - 1
  BY <1>1 DEF PartsOf, PartOf
<1>3. Len(parts) + Top \in Nat /\ S \in SUBSET (0 .. Len(parts) + Top) /\ S # {}
  BY <1>1, <1>2, Sizes
<1>4. Max(S) \in S /\ \A j \in S : Max(S) >= j
  BY <1>3, MaxOfBounded
<1>5. n = Max(S)
  BY DEF Parts!SortedSize, Parts!Max, Max
<1> HIDE DEF n
<1>6. n \in Nat /\ n >= Len(parts)
  BY <1>1, <1>3, <1>4, <1>5
<1>7. n \in Nat \ {0}
  BY <1>1, <1>6
<1>8. /\ \A i \in 0 .. n - 1 : Parts!Filled(parts, i)
      /\ Parts!Sorted(parts, n - 1).last
  BY DEF Parts!Complete, n
<1>9. \A i \in 0 .. n - 1 :
        HasPiece(w, i) /\ Parts!Sorted(parts, i) = PartOf(seq, w, i)
  BY <1>8, SortedPart
<1>10. n - 1 \in 0 .. n - 1
  BY <1>7
<1>11. ReachesEnd(Offset(n - 1), w)
  BY <1>8, <1>9, <1>10 DEF PartOf
<1> QED BY <1>7, <1>9, <1>11 DEF n

(* Where the piece with this index ends: where the next begins, or at the  *)
(* end of the buffer.                                                      *)
EndOf(w, k) == Offset(k) + PieceLength(w, k)

(* A piece ends inside the buffer, and the next begins where it ends.      *)
LEMMA PiecesMeet ==
  ASSUME NEW w \in Seq(Byte), NEW k, HasPiece(w, k)
  PROVE  /\ EndOf(w, k) \in Nat /\ EndOf(w, k) <= Len(w)
         /\ Offset(k) \in Nat /\ Offset(k) <= EndOf(w, k)
         /\ HasPiece(w, k + 1) => EndOf(w, k) = Offset(k + 1)
         /\ ReachesEnd(Offset(k), w) => EndOf(w, k) = Len(w)
<1>1. /\ k \in Nat /\ Offset(k) \in Nat /\ Len(w) \in Nat
      /\ PieceLength(w, k) \in 1 .. FragmentSize
      /\ Offset(k) + PieceLength(w, k) <= Len(w)
  BY PieceLengthType
<1>2. FragmentSize \in Nat
  BY Sizes
<1>3. Offset(k + 1) = Offset(k) + FragmentSize
  BY <1>1, <1>2 DEF Offset
<1>4. HasPiece(w, k + 1) => EndOf(w, k) = Offset(k + 1)
  BY <1>1, <1>2, <1>3 DEF HasPiece, PieceLength, ReachesEnd, EndOf
<1>5. ReachesEnd(Offset(k), w) => EndOf(w, k) = Len(w)
  BY <1>1 DEF PieceLength, EndOf
<1> QED BY <1>1, <1>2, <1>4, <1>5 DEF EndOf

(* What lies before a position and what lies behind it make the whole.     *)
LEMMA SplitAt ==
  ASSUME NEW w \in Seq(Byte), NEW a \in Nat, NEW b \in Nat, a <= b, b <= Len(w)
  PROVE  SubSeq(w, 1, a) \o SubSeq(w, a + 1, b) = SubSeq(w, 1, b)
<1> DEFINE x == SubSeq(w, 1, a)
           y == SubSeq(w, a + 1, b)
           z == SubSeq(w, 1, b)
           c == x \o y
<1>1. /\ x \in Seq(Byte) /\ Len(x) = a
      /\ \A i \in 1 .. a : x[i] = w[i]
  OBVIOUS
<1>2. /\ y \in Seq(Byte) /\ Len(y) = b - a
      /\ \A i \in 1 .. b - a : y[i] = w[a + i]
  OBVIOUS
<1>3. /\ z \in Seq(Byte) /\ Len(z) = b
      /\ \A i \in 1 .. b : z[i] = w[i]
  OBVIOUS
<1> HIDE DEF x, y, z
<1>4. JoinOf(c, x, y)
  BY <1>1, <1>2, JoinBytes
<1> HIDE DEF c
<1>5. c \in Seq(Byte) /\ Len(c) = b
  BY <1>1, <1>2, <1>4 DEF JoinOf
<1>6. ASSUME NEW i \in 1 .. b PROVE c[i] = z[i]
  <2>1. CASE i <= a
    BY <2>1, <1>1, <1>3, <1>4 DEF JoinOf
  <2>2. CASE i > a
    <3>1. i - a \in 1 .. b - a /\ a + (i - a) = i
      BY <2>2
    <3>2. c[a + (i - a)] = y[i - a]
      BY <3>1, <1>1, <1>2, <1>4 DEF JoinOf
    <3>3. y[i - a] = w[a + (i - a)]
      BY <3>1, <1>2
    <3> QED BY <3>1, <3>2, <3>3, <1>3
  <2> QED BY <2>1, <2>2
<1>7. c = z
  BY <1>3, <1>5, <1>6, SameBytes
<1> QED BY <1>7 DEF c, x, y, z

(* The recursive function in FlattenSeq.                                   *)
Flattening(seqs, flatten) ==
  flatten = [i \in 1 .. Len(seqs) |->
               IF i = 1 THEN seqs[i] ELSE flatten[i - 1] \o seqs[i]]

(* FlattenSeq is what it is defined to be, when there is such a function.  *)
LEMMA FlattenDefined ==
  ASSUME NEW seqs, Len(seqs) \in Nat \ {0}, NEW f, Flattening(seqs, f)
  PROVE  \E g : Flattening(seqs, g) /\ FlattenSeq(seqs) = g[Len(seqs)]
BY DEF FlattenSeq, Flattening

(* Pieces that meet, joined in order, are the whole.                       *)
LEMMA FlattenPieces ==
  ASSUME NEW w \in Seq(Byte), NEW n \in Nat \ {0},
         \A i \in 0 .. n - 1 : HasPiece(w, i),
         ReachesEnd(Offset(n - 1), w),
         NEW chunks, Len(chunks) = n,
         \A i \in 1 .. n :
           chunks[i] = SubSeq(w, Offset(i - 1) + 1, EndOf(w, i - 1))
  PROVE  FlattenSeq(chunks) = w
<1> DEFINE upTo(i) == SubSeq(w, 1, EndOf(w, i - 1))
           f == [i \in 1 .. n |-> upTo(i)]
<1>1. ASSUME NEW i \in 1 .. n
      PROVE  /\ HasPiece(w, i - 1)
             /\ EndOf(w, i - 1) \in Nat /\ EndOf(w, i - 1) <= Len(w)
             /\ Offset(i - 1) \in Nat /\ Offset(i - 1) <= EndOf(w, i - 1)
             /\ ReachesEnd(Offset(i - 1), w) => EndOf(w, i - 1) = Len(w)
  <2>1. i - 1 \in 0 .. n - 1
    OBVIOUS
  <2> QED BY <2>1, PiecesMeet
<1>2. chunks[1] = upTo(1)
  <2>1. 1 \in 1 .. n /\ 1 - 1 = 0
    OBVIOUS
  <2>2. Offset(0) = 0
    BY Sizes DEF Offset
  <2> QED BY <2>1, <2>2
<1>3. ASSUME NEW i \in 2 .. n
      PROVE  upTo(i - 1) \o chunks[i] = upTo(i)
  <2>1. /\ i \in 1 .. n /\ i - 1 \in 1 .. n /\ i - 2 \in 0 .. n - 1
        /\ i - 1 \in 0 .. n - 1 /\ (i - 2) + 1 = i - 1 /\ (i - 1) - 1 = i - 2
    OBVIOUS
  <2>2. EndOf(w, i - 2) = Offset(i - 1)
    BY <2>1, PiecesMeet
  <2>3. /\ Offset(i - 1) \in Nat /\ EndOf(w, i - 1) \in Nat
        /\ Offset(i - 1) <= EndOf(w, i - 1) /\ EndOf(w, i - 1) <= Len(w)
    BY <2>1, <1>1
  <2>4. SubSeq(w, 1, Offset(i - 1)) \o SubSeq(w, Offset(i - 1) + 1, EndOf(w, i - 1))
          = SubSeq(w, 1, EndOf(w, i - 1))
    BY <2>3, SplitAt
  <2>5. chunks[i] = SubSeq(w, Offset(i - 1) + 1, EndOf(w, i - 1))
    BY <2>1
  <2>6. upTo(i - 1) = SubSeq(w, 1, Offset(i - 1))
    BY <2>1, <2>2
  <2> QED BY <2>4, <2>5, <2>6
<1>4. upTo(n) = w
  <2>1. n \in 1 .. n
    OBVIOUS
  <2>2. EndOf(w, n - 1) = Len(w)
    BY <2>1, <1>1
  <2>3. SubSeq(w, 1, Len(w)) = w
    OBVIOUS
  <2> QED BY <2>2, <2>3
<1> HIDE DEF upTo
<1>5. Flattening(chunks, f)
  <2>1. ASSUME NEW i \in 1 .. n
        PROVE  f[i] = IF i = 1 THEN chunks[i] ELSE f[i - 1] \o chunks[i]
    <3>1. CASE i = 1
      BY <3>1, <1>2
    <3>2. CASE i # 1
      <4>1. i \in 2 .. n /\ i - 1 \in 1 .. n
        BY <3>2
      <4> QED BY <3>2, <4>1, <1>3
    <3> QED BY <3>1, <3>2
  <2>2. f = [i \in 1 .. n |-> f[i]]
    OBVIOUS
  <2> HIDE DEF f
  <2> QED BY <2>1, <2>2 DEF Flattening
<1>6. PICK g : Flattening(chunks, g) /\ FlattenSeq(chunks) = g[n]
  <2> HIDE DEF f
  <2> QED BY <1>5, FlattenDefined
<1>7. \A i \in 1 .. n :
        g[i] = IF i = 1 THEN chunks[i] ELSE g[i - 1] \o chunks[i]
  <2>1. g = [i \in 1 .. n |-> IF i = 1 THEN chunks[i] ELSE g[i - 1] \o chunks[i]]
    BY <1>6 DEF Flattening
  <2> QED BY <2>1
<1>8. \A i \in 1 .. n : g[i] = upTo(i)
  <2> DEFINE Bad == { i \in 1 .. n : g[i] # upTo(i) }
  <2>1. SUFFICES ASSUME Bad # {} PROVE FALSE
    OBVIOUS
  <2>2. Bad \in SUBSET Nat
    OBVIOUS
  <2>3. PICK i \in Bad : \A j \in Bad : ~(j < i)
    BY <2>1, <2>2, LeastNatural
  <2>4. CASE i = 1
    BY <2>3, <2>4, <1>2, <1>7
  <2>5. CASE i # 1
    <3>1. i \in 2 .. n /\ i - 1 \in 1 .. n /\ i - 1 < i
      BY <2>3, <2>5
    <3>2. g[i - 1] = upTo(i - 1)
      BY <3>1, <2>3
    <3> QED BY <2>3, <2>5, <3>1, <3>2, <1>3, <1>7
  <2> QED BY <2>4, <2>5
<1> QED BY <1>4, <1>6, <1>8

(* What GetDefragmentedPacket returns of a buffer that has nothing but     *)
(* pieces of w: nothing yet, or w.                                         *)
LEMMA JoinedIsWhole ==
  ASSUME NEW seq, NEW w \in Seq(Byte), NEW m, m.parts \in Seq(PartsOf(seq, w))
  PROVE  /\ Joined(m) \in {Nothing, w}
         /\ m.parts # << >> /\ Parts!Complete(m.parts) => Joined(m) = w
<1> DEFINE parts == m.parts
           n == Parts!SortedSize(parts)
           chunks == [i \in 1 .. n |-> Parts!Sorted(parts, i - 1).chunk]
<1>1. CASE ~(parts # << >> /\ Parts!Complete(parts))
  BY <1>1 DEF Joined
<1>2. CASE parts # << >> /\ Parts!Complete(parts)
  <2>1. /\ n \in Nat \ {0}
        /\ \A i \in 0 .. n - 1 :
             HasPiece(w, i) /\ Parts!Sorted(parts, i) = PartOf(seq, w, i)
        /\ ReachesEnd(Offset(n - 1), w)
    BY <1>2, CompleteParts
  <2>2. Joined(m) = FlattenSeq(chunks)
    BY <1>2 DEF Joined
  <2> HIDE DEF n
  <2>3. Len(chunks) = n /\ \A i \in 1 .. n :
          chunks[i] = SubSeq(w, Offset(i - 1) + 1, EndOf(w, i - 1))
    <3>1. DOMAIN chunks = 1 .. n /\ Len(chunks) = n
      BY <2>1
    <3>2. ASSUME NEW i \in 1 .. n
          PROVE  chunks[i] = SubSeq(w, Offset(i - 1) + 1, EndOf(w, i - 1))
      <4>1. i - 1 \in 0 .. n - 1
        BY <2>1
      <4>2. Parts!Sorted(parts, i - 1) = PartOf(seq, w, i - 1)
        BY <4>1, <2>1
      <4> QED BY <4>2 DEF PartOf, EndOf
    <3> QED BY <3>1, <3>2
  <2> HIDE DEF chunks
  <2>4. FlattenSeq(chunks) = w
    BY <2>1, <2>3, FlattenPieces
  <2> QED BY <2>2, <2>4
<1> QED BY <1>1, <1>2

-----------------------------------------------------------------------------
(* What may be on the way, in the buffer, kept as the last delta and given *)
(* to DeltaParse, when SentMessages have been sent.                        *)
OnWire == { d \in Seq(Byte) : \E m \in SentMessages : SentAs(d, m) }

AnyPart ==
  UNION { PartsOf(m.to, Whole(m)) :
            m \in { n \in ToSet(stream.messages) : IsDeltas } }

Buffers ==
  { b \in [current : Sequence, parts : Seq(AnyPart)] :
      \/ b.parts = << >>
      \/ \E m \in SentMessages :
           /\ IsDeltas /\ MayCode(m)
           /\ b.current = m.to
           /\ b.parts \in Seq(PartsOf(m.to, Whole(m))) }

Kept ==
  { d \in Seq(Byte) :
      \E m \in SentMessages :
        /\ IsDeltas /\ MayCode(m)
        /\ d = IF stream.sender = "server" THEN Whole(m) ELSE ClientWhole(m) }

Parsed ==
  { g \in [base : Sequence, to : Sequence, payload : Seq(Byte)] :
      stream.sender = "server" =>
        \E m \in SentMessages :
          g = [base |-> m.base, to |-> m.to, payload |-> m.payload] }

(* What is yet to be sent is the end of the stream's messages.             *)
Queue ==
  /\ todo \in Seq(ToSet(stream.messages))
  /\ Len(todo) <= Len(stream.messages)
  /\ \A i \in 1 .. Len(todo) :
       todo[i] = stream.messages[Len(stream.messages) - Len(todo) + i]

(* The invariant: TypeOK, Recognised and PayloadArrives do not say what    *)
(* the pieces in the buffer are pieces of, nor that a datagram on the way  *)
(* is one that Send makes, without which the next step proves nothing.     *)
IInv ==
  /\ stream \in Streams
  /\ Queue
  /\ wire \in Seq(OnWire)
  /\ faults \in Seq({"lost", "repeated", "delayed"})
  /\ received \in Sequence /\ processed \in Sequence
  /\ fragments \in Buffers
  /\ last \in {Nothing} \cup Kept
  /\ got \in Seq(Parsed)

-----------------------------------------------------------------------------
(* What has been sent are messages of the stream.                          *)
LEMMA SentType ==
  ASSUME stream \in Streams, Queue
  PROVE  SentMessages \subseteq ToSet(stream.messages)
<1>1. Len(stream.messages) \in Nat /\ Len(todo) \in Nat
  BY StreamType DEF Queue
<1>2. DOMAIN stream.messages = 1 .. Len(stream.messages)
  BY StreamType
<1> QED BY <1>1, <1>2 DEF SentMessages, ToSet

(* A larger set has more sequences.                                        *)
LEMMA SeqOfSubset ==
  ASSUME NEW S, NEW T, S \subseteq T, NEW s \in Seq(S)
  PROVE  s \in Seq(T)
OBVIOUS

(* One element more; two sequences in one; all but the first; all but one. *)
LEMMA SeqSteps ==
  ASSUME NEW S, NEW s \in Seq(S)
  PROVE  /\ \A x \in S : Append(s, x) \in Seq(S)
         /\ \A t \in Seq(S) : s \o t \in Seq(S)
         /\ s # << >> => Head(s) \in S /\ Tail(s) \in Seq(S)
         /\ \A i \in DOMAIN s : s[i] \in S /\ RemoveAt(s, i) \in Seq(S)
<1>1. ASSUME NEW i \in DOMAIN s PROVE RemoveAt(s, i) \in Seq(S)
  <2>1. Len(s) \in Nat /\ i \in 1 .. Len(s)
    OBVIOUS
  <2>2. SubSeq(s, 1, i - 1) \in Seq(S)
    <3>1. \A j \in 1 .. i - 1 : s[j] \in S
      BY <2>1
    <3>2. i - 1 \in Nat
      BY <2>1
    <3> QED BY <3>1, <3>2
  <2>3. SubSeq(s, i + 1, Len(s)) \in Seq(S)
    BY <2>1
  <2> QED BY <2>2, <2>3 DEF RemoveAt
<1>2. s # << >> => Head(s) \in S /\ Tail(s) \in Seq(S)
  OBVIOUS
<1>3. \A x \in S : Append(s, x) \in Seq(S)
  OBVIOUS
<1>4. \A t \in Seq(S) : s \o t \in Seq(S)
  OBVIOUS
<1> QED BY <1>1, <1>2, <1>3, <1>4

(* What has been sent stays possible while more is.                        *)
LEMMA MoreIsPossible ==
  ASSUME stream' = stream, SentMessages \subseteq SentMessages'
  PROVE  /\ OnWire \subseteq OnWire' /\ Buffers \subseteq Buffers'
         /\ Kept \subseteq Kept' /\ Parsed \subseteq Parsed'
<1>1. ASSUME NEW m PROVE /\ Hidden(m)' = Hidden(m)
                         /\ Whole(m)' = Whole(m)
                         /\ ClientWhole(m)' = ClientWhole(m)
  BY DEF Hidden, Whole, ClientWhole
<1>2. IsDeltas' <=> IsDeltas
  BY DEF IsDeltas
<1>3. ASSUME NEW d, NEW m, SentAs(d, m) PROVE SentAs(d, m)'
  BY <1>1, <1>3 DEF SentAs, FromServer
<1>4. AnyPart' = AnyPart
  BY <1>1, <1>2 DEF AnyPart
<1>5. OnWire \subseteq OnWire'
  BY <1>3 DEF OnWire
<1>6. Buffers \subseteq Buffers'
  BY <1>1, <1>2, <1>4 DEF Buffers
<1>7. Kept \subseteq Kept'
  BY <1>1, <1>2 DEF Kept
<1>8. Parsed \subseteq Parsed'
  BY DEF Parsed
<1> QED BY <1>5, <1>6, <1>7, <1>8

(* A step that sends nothing keeps what it does not touch.                 *)
LEMMA NothingSent ==
  ASSUME stream' = stream, todo' = todo
  PROVE  /\ SentMessages' = SentMessages
         /\ Queue => Queue'
BY DEF SentMessages, Queue

(* The constructor of both ends, and the messages of a stream, satisfy the *)
(* invariant.                                                              *)
LEMMA InitIInv == Init => IInv
<1> SUFFICES ASSUME Init PROVE IInv
  OBVIOUS
<1>1. stream \in Streams
  BY DEF Init
<1>2. Len(stream.messages) \in Nat \ {0} /\ (\E S : stream.messages \in Seq(S))
  BY <1>1, StreamType
<1>3. Queue
  BY <1>2 DEF Init, Queue, ToSet
<1>4. received \in Sequence /\ processed \in Sequence
  <2> DEFINE m == Head(stream.messages)
  <2>1. m \in ToSet(stream.messages)
    BY <1>2 DEF ToSet
  <2>2. m.to \in Int
    <3>1. CASE IsDeltas
      BY <3>1, <1>1, <2>1, MessageType DEF Sequence
    <3>2. CASE ~IsDeltas
      <4>1. stream.messages \in Seq(HandshakeMessage)
        BY <1>1, <3>2, StreamType
      <4>2. m \in HandshakeMessage
        BY <2>1, <4>1 DEF ToSet
      <4> QED BY <4>2 DEF HandshakeMessage
    <3> QED BY <3>1, <3>2
  <2>3. Wrap(m.to - 1) \in Sequence
    BY <2>2, WrapType
  <2> QED BY <2>3 DEF Init, MinusAssign, Wrap
<1>5. fragments \in Buffers
  <2>1. 0 \in Sequence
    BY Sizes DEF Sequence, MaxValue
  <2>2. << >> \in Seq(AnyPart)
    OBVIOUS
  <2> QED BY <2>1, <2>2 DEF Init, Buffers, Parts!NoFragments
<1> QED BY <1>1, <1>3, <1>4, <1>5 DEF Init, IInv

(* Send: the first of todo joins what has been sent, and its datagrams     *)
(* what is on the way.                                                     *)
LEMMA SendIInv == IInv /\ Send => IInv'
<1> SUFFICES ASSUME IInv, Send PROVE IInv'
  OBVIOUS
<1> DEFINE M == stream.messages
           m == Head(todo)
           sent == Len(M) - Len(todo)
<1>1. /\ stream \in Streams /\ Queue /\ wire \in Seq(OnWire)
      /\ todo # << >> /\ todo' = Tail(todo) /\ wire' = wire \o Datagrams(m)
      /\ stream' = stream
  BY DEF IInv, Send
<1>2. /\ Len(M) \in Nat /\ Len(todo) \in Nat \ {0} /\ Len(todo) <= Len(M)
      /\ todo \in Seq(ToSet(M)) /\ DOMAIN M = 1 .. Len(M)
      /\ \A i \in 1 .. Len(todo) : todo[i] = M[sent + i]
  BY <1>1, StreamType DEF Queue
<1>3. m \in ToSet(M) /\ m = M[sent + 1]
  BY <1>1, <1>2
<1>4. /\ todo' \in Seq(ToSet(M)) /\ Len(todo') = Len(todo) - 1
      /\ \A i \in 1 .. Len(todo) - 1 : todo'[i] = todo[i + 1]
  BY <1>1, <1>2
<1>5. Queue'
  <2>1. ASSUME NEW i \in 1 .. Len(todo')
        PROVE  todo'[i] = M[Len(M) - Len(todo') + i]
    <3> DEFINE all == Len(M)
               before == Len(todo)
               after == Len(todo')
    <3>0. /\ all \in Nat /\ before \in Nat /\ after = before - 1
          /\ i \in 1 .. after
      BY <1>2, <1>4
    <3> HIDE DEF all, before, after
    <3>1. /\ i \in 1 .. before - 1 /\ i + 1 \in 1 .. before
          /\ all - after + i = all - before + (i + 1)
      BY <3>0
    <3> USE DEF all, before, after
    <3> QED BY <3>1, <1>2, <1>4
  <2>2. Len(todo') <= Len(M)
    BY <1>2, <1>4
  <2> HIDE DEF M, sent, m
  <2> QED BY <2>1, <2>2, <1>1, <1>4 DEF Queue, M
<1>6. SentMessages' = SentMessages \cup {m}
  <2>1. SentMessages = { M[i] : i \in 1 .. sent }
    BY DEF SentMessages
  <2>2. SentMessages' = { M[i] : i \in 1 .. sent + 1 }
    <3>1. Len(M) - Len(todo') = sent + 1
      BY <1>2, <1>4
    <3> QED BY <3>1, <1>1 DEF SentMessages
  <2>3. sent \in Nat
    BY <1>2
  <2> HIDE DEF sent, M
  <2>4. 1 .. sent + 1 = (1 .. sent) \cup {sent + 1}
    BY <2>3
  <2> QED BY <1>3, <2>1, <2>2, <2>4
<1>7. /\ OnWire \subseteq OnWire' /\ Buffers \subseteq Buffers'
      /\ Kept \subseteq Kept' /\ Parsed \subseteq Parsed'
  BY <1>1, <1>6, MoreIsPossible
<1> HIDE DEF m, M, sent
<1>8. Datagrams(m) \in Seq(OnWire')
  <2>1. /\ Datagrams(m) \in Seq(Seq(Byte))
        /\ \A i \in DOMAIN Datagrams(m) : SentAs(Datagrams(m)[i], m)
    BY <1>1, <1>3, DatagramsType DEF M
  <2>2. \A d \in Seq(Byte) : SentAs(d, m) => d \in OnWire'
    <3> SUFFICES ASSUME NEW d \in Seq(Byte), SentAs(d, m) PROVE d \in OnWire'
      OBVIOUS
    <3>1. \E n \in SentMessages' : SentAs(d, n)
      BY <1>6
    <3>2. PICK n \in SentMessages' : SentAs(d, n)
      BY <3>1
    <3>3. SentAs(d, n)'
      BY <3>2, <1>1 DEF SentAs, FromServer, Whole, ClientWhole, Hidden
    <3> QED BY <3>2, <3>3 DEF OnWire
  <2> DEFINE D == Datagrams(m)
  <2> HIDE DEF D
  <2>3. D \in Seq(Seq(Byte)) /\ \A i \in DOMAIN D : SentAs(D[i], m)
    BY <2>1 DEF D
  <2>4. \A i \in DOMAIN D : D[i] \in OnWire'
    BY <2>2, <2>3
  <2>5. D \in Seq(OnWire')
    BY <2>3, <2>4
  <2> QED BY <2>5 DEF D
<1>9. wire' \in Seq(OnWire')
  <2>1. wire \in Seq(OnWire')
    BY <1>1, <1>7, SeqOfSubset
  <2> QED BY <2>1, <1>1, <1>8, SeqSteps
<1>10. got' \in Seq(Parsed')
  <2>1. got \in Seq(Parsed) /\ got' = got
    BY DEF IInv, Send
  <2> QED BY <2>1, <1>7, SeqOfSubset
<1>11. /\ faults' \in Seq({"lost", "repeated", "delayed"})
       /\ received' \in Sequence /\ processed' \in Sequence
       /\ fragments' \in Buffers'
       /\ last' \in {Nothing} \cup Kept'
  BY <1>7 DEF IInv, Send
<1> QED BY <1>1, <1>5, <1>9, <1>10, <1>11 DEF IInv

(* A step that changes none of what has been sent keeps the conjuncts      *)
(* about what it leaves alone.                                             *)
LEMMA QuietStep ==
  ASSUME IInv, stream' = stream, todo' = todo
  PROVE  /\ stream' \in Streams /\ Queue'
         /\ SentMessages' = SentMessages
         /\ OnWire \subseteq OnWire' /\ Buffers \subseteq Buffers'
         /\ Kept \subseteq Kept' /\ Parsed \subseteq Parsed'
BY NothingSent, MoreIsPossible DEF IInv

(* Losing, repeating and delaying bring no other datagram.                 *)
LEMMA FaultIInv == IInv /\ (Lose \/ Repeat \/ Delay) => IInv'
<1> SUFFICES ASSUME IInv, Lose \/ Repeat \/ Delay PROVE IInv'
  OBVIOUS
<1> SUFFICES ASSUME NEW kind \in {"lost", "repeated", "delayed"},
                    NEW changed \in Seq(OnWire), Fault(kind, changed)
             PROVE  IInv'
  <2>1. wire \in Seq(OnWire)
    BY DEF IInv
  <2>2. \A i \in DOMAIN wire : wire[i] \in OnWire /\ RemoveAt(wire, i) \in Seq(OnWire)
    BY <2>1, SeqSteps
  <2>3. \A i \in DOMAIN wire : Append(wire, wire[i]) \in Seq(OnWire)
    BY <2>1, <2>2, SeqSteps
  <2>4. \A i \in DOMAIN wire : Append(RemoveAt(wire, i), wire[i]) \in Seq(OnWire)
    BY <2>2, SeqSteps
  <2> QED BY <2>2, <2>3, <2>4 DEF Lose, Repeat, Delay
<1>1. stream' = stream /\ todo' = todo
  BY DEF Fault
<1>2. /\ stream' \in Streams /\ Queue'
      /\ OnWire \subseteq OnWire' /\ Buffers \subseteq Buffers'
      /\ Kept \subseteq Kept' /\ Parsed \subseteq Parsed'
  BY <1>1, QuietStep
<1>3. wire' \in Seq(OnWire')
  BY <1>2, SeqOfSubset DEF Fault
<1>4. got' \in Seq(Parsed')
  <2>1. got \in Seq(Parsed) /\ got' = got
    BY DEF IInv, Fault
  <2> QED BY <2>1, <1>2, SeqOfSubset
<1>5. faults' \in Seq({"lost", "repeated", "delayed"})
  BY SeqSteps DEF IInv, Fault
<1>6. /\ received' \in Sequence /\ processed' \in Sequence
      /\ fragments' \in Buffers'
      /\ last' \in {Nothing} \cup Kept'
  BY <1>2 DEF IInv, Fault
<1> QED BY <1>2, <1>3, <1>4, <1>5, <1>6 DEF IInv

-----------------------------------------------------------------------------
(* A delta that is kept comes from a message that was sent.                *)
LEMMA KeepKept ==
  ASSUME NEW data \in {Nothing} \cup Kept, stream \in Streams, Queue,
         received \in Sequence, last \in {Nothing} \cup Kept, Keep(data)
  PROVE  last' \in {Nothing} \cup Kept /\ received' \in Sequence
<1>1. CASE UNCHANGED <<last, received>>
  BY <1>1
<1>2. CASE /\ IsDelta(data)
           /\ last' = data /\ received' = GetSequence(data)
  <2>1. data # Nothing
    <3>1. SUFFICES ASSUME data = << >> PROVE FALSE
      BY DEF Nothing
    <3>2. Len(data) = 0
      BY <3>1
    <3> QED BY <3>2, <1>2 DEF IsDelta, OffsetDeltaPayload
  <2>2. PICK m \in SentMessages :
          /\ IsDeltas /\ MayCode(m)
          /\ data = IF stream.sender = "server" THEN Whole(m) ELSE ClientWhole(m)
    BY <2>1 DEF Kept
  <2>3. m \in ToSet(stream.messages)
    BY SentType
  <2>4. GetSequence(data) = m.to /\ m.to \in Sequence
    BY <2>2, <2>3, WholeRead, ClientWholeRead, MessageType
  <2> QED BY <1>2, <2>4
<1> QED BY <1>1, <1>2 DEF Keep

(* A datagram of the server that is no piece is the whole of a message,    *)
(* and one that is is a piece of one.                                      *)
LEMMA ServerDatagram ==
  ASSUME stream \in Streams, Queue, stream.sender = "server", NEW d \in OnWire
  PROVE  /\ ~IsFragment(d) => d \in Kept
         /\ IsFragment(d) =>
              \E m \in SentMessages :
                MayCode(m) /\ Piece(d) \in PartsOf(m.to, Whole(m))
<1>1. PICK m \in SentMessages : SentAs(d, m)
  BY DEF OnWire
<1>2. FromServer(d, m) /\ MayCode(m) /\ d \in Seq(Byte)
  BY <1>1 DEF OnWire, SentAs, FromServer
<1>3. IsDeltas /\ m \in ToSet(stream.messages)
  BY SentType DEF IsDeltas
<1>4. Whole(m) \in Seq(Byte) /\ ~IsFragment(Whole(m)) /\ m.to \in Sequence
  BY <1>2, <1>3, WholeRead, MessageType
<1>5. CASE d = Whole(m)
  BY <1>2, <1>3, <1>4, <1>5 DEF Kept
<1>6. CASE d # Whole(m)
  <2>1. PICK k \in 0 .. Top - 1 :
          HasPiece(Whole(m), k) /\ PieceOf(d, m.to, Whole(m), k)
    BY <1>2, <1>6 DEF FromServer
  <2>2. IsFragment(d)
    BY <1>4, <2>1, PieceRead
  <2>3. Piece(d) \in PartsOf(m.to, Whole(m))
    BY <1>4, <2>1, PieceIsPart
  <2> QED BY <1>2, <2>2, <2>3
<1> QED BY <1>5, <1>6

(* What a buffer with pieces of one message is.                            *)
LEMMA InBuffers ==
  ASSUME NEW b, NEW m \in SentMessages, IsDeltas, MayCode(m),
         b \in [current : Sequence, parts : Seq(AnyPart)],
         b.current = m.to, b.parts \in Seq(PartsOf(m.to, Whole(m)))
  PROVE  b \in Buffers
BY DEF Buffers

(* The buffer has the pieces of one message only: a piece of a newer one   *)
(* empties it, and no two messages have the same sequence.                 *)
LEMMA AddPacketKeepsOne ==
  ASSUME stream \in Streams, Queue, stream.sender = "server",
         fragments \in Buffers,
         NEW m \in SentMessages, MayCode(m),
         NEW f \in PartsOf(m.to, Whole(m))
  PROVE  Parts!AddPacket(fragments, f) \in Buffers
<1> DEFINE b == Parts!AddPacket(fragments, f)
           kept == IF Parts!Less(fragments.current, f.seq) THEN << >>
                   ELSE fragments.parts
<1>1. IsDeltas /\ m \in ToSet(stream.messages)
  BY SentType DEF IsDeltas
<1>2. m.to \in Sequence /\ f.seq = m.to
  BY <1>1, MessageType DEF PartsOf, PartOf
<1>3. f \in AnyPart
  BY <1>1 DEF AnyPart
<1>4. fragments.parts \in Seq(AnyPart) /\ fragments.current \in Sequence
  BY DEF Buffers
<1>5. \/ kept = << >> /\ b = [current |-> f.seq, parts |-> << f >>]
      \/ /\ kept # << >> /\ fragments.current = f.seq
         /\ b = [fragments EXCEPT !.parts = Append(kept, f)]
      \/ b = fragments
  BY DEF Parts!AddPacket
<1>6. CASE kept = << >> /\ b = [current |-> f.seq, parts |-> << f >>]
  <2>1. << f >> \in Seq(AnyPart) /\ << f >> \in Seq(PartsOf(m.to, Whole(m)))
    BY <1>3
  <2>2. /\ b \in [current : Sequence, parts : Seq(AnyPart)]
        /\ b.current = m.to /\ b.parts = << f >>
    BY <1>2, <1>6, <2>1
  <2> HIDE DEF b
  <2>3. b.parts \in Seq(PartsOf(m.to, Whole(m)))
    BY <2>1, <2>2
  <2>4. b \in Buffers
    BY <1>1, <2>2, <2>3, InBuffers
  <2> QED BY <2>4 DEF b
<1>7. CASE /\ kept # << >> /\ fragments.current = f.seq
           /\ b = [fragments EXCEPT !.parts = Append(kept, f)]
  <2>1. kept = fragments.parts /\ fragments.parts # << >>
    BY <1>7
  <2>2. PICK n \in SentMessages :
          /\ fragments.current = n.to
          /\ fragments.parts \in Seq(PartsOf(n.to, Whole(n)))
    BY <2>1 DEF Buffers
  <2>3. n = m
    <3>1. n \in ToSet(stream.messages) /\ n.to = m.to
      BY <1>2, <1>7, <2>2, SentType
    <3> QED BY <1>1, <3>1, StreamType
  <2> DEFINE p == Append(fragments.parts, f)
  <2>4. p \in Seq(AnyPart) /\ p \in Seq(PartsOf(m.to, Whole(m)))
    BY <1>3, <1>4, <2>2, <2>3, SeqSteps
  <2> HIDE DEF p
  <2>5. b = [fragments EXCEPT !.parts = p]
    BY <1>7, <2>1 DEF p
  <2>6. /\ b \in [current : Sequence, parts : Seq(AnyPart)]
        /\ b.current = m.to /\ b.parts = p
    BY <1>2, <1>4, <1>7, <2>4, <2>5 DEF Buffers
  <2> HIDE DEF b
  <2>7. b.parts \in Seq(PartsOf(m.to, Whole(m)))
    BY <2>4, <2>6
  <2>8. b \in Buffers
    BY <1>1, <2>6, <2>7, InBuffers
  <2> QED BY <2>8 DEF b
<1>8. CASE b = fragments
  BY <1>8
<1> QED BY <1>5, <1>6, <1>7, <1>8

(* What GetDefragmentedPacket returns of it is that message's delta.       *)
LEMMA JoinedKept ==
  ASSUME stream \in Streams, Queue, stream.sender = "server", NEW b \in Buffers
  PROVE  Joined(b) \in {Nothing} \cup Kept
<1>1. CASE b.parts = << >>
  BY <1>1 DEF Joined
<1>2. CASE b.parts # << >>
  <2>1. PICK m \in SentMessages :
          /\ IsDeltas /\ MayCode(m)
          /\ b.parts \in Seq(PartsOf(m.to, Whole(m)))
    BY <1>2 DEF Buffers
  <2>2. m \in ToSet(stream.messages)
    BY SentType
  <2>3. Whole(m) \in Seq(Byte)
    BY <2>1, <2>2, WholeRead
  <2>4. Joined(b) \in {Nothing, Whole(m)}
    BY <2>1, <2>3, JoinedIsWhole
  <2>5. Whole(m) \in Kept
    BY <2>1, <2>3 DEF Kept
  <2> QED BY <2>4, <2>5
<1> QED BY <1>1, <1>2

-----------------------------------------------------------------------------
(* Receive: the first datagram on the way is kept as the last delta, goes  *)
(* into the buffer and may complete it, or changes nothing.                *)
LEMMA ReceiveIInv == IInv /\ Receive => IInv'
<1> SUFFICES ASSUME IInv, Receive PROVE IInv'
  OBVIOUS
<1> DEFINE d == Head(wire)
<1>1. /\ stream \in Streams /\ Queue
      /\ received \in Sequence /\ fragments \in Buffers
      /\ last \in {Nothing} \cup Kept
      /\ stream' = stream /\ todo' = todo
      /\ Process(d) /\ wire' = Tail(wire)
      /\ faults' = faults /\ processed' = processed /\ got' = got
  BY DEF IInv, Receive
<1>2. d \in OnWire /\ Tail(wire) \in Seq(OnWire)
  BY SeqSteps DEF IInv, Receive
<1> HIDE DEF d
<1>3. /\ stream' \in Streams /\ Queue'
      /\ OnWire \subseteq OnWire' /\ Buffers \subseteq Buffers'
      /\ Kept \subseteq Kept' /\ Parsed \subseteq Parsed'
  BY <1>1, QuietStep
<1>4. /\ fragments' \in Buffers /\ received' \in Sequence
      /\ last' \in {Nothing} \cup Kept
  <2>1. CASE stream.sender = "server" /\ IsFragment(d)
    <3>1. CASE ~Greater(GetSequence(d), received)
      BY <1>1, <2>1, <3>1 DEF Process
    <3>2. CASE Greater(GetSequence(d), received)
      <4>1. /\ fragments' = Parts!AddPacket(fragments, Piece(d))
            /\ Keep(Joined(fragments'))
        BY <1>1, <2>1, <3>2 DEF Process
      <4>2. PICK m \in SentMessages :
              MayCode(m) /\ Piece(d) \in PartsOf(m.to, Whole(m))
        BY <1>1, <1>2, <2>1, ServerDatagram
      <4>3. fragments' \in Buffers
        BY <1>1, <2>1, <4>1, <4>2, AddPacketKeepsOne
      <4>4. Joined(fragments') \in {Nothing} \cup Kept
        BY <1>1, <2>1, <4>3, JoinedKept
      <4> QED BY <1>1, <4>1, <4>3, <4>4, KeepKept
    <3> QED BY <3>1, <3>2
  <2>2. CASE ~(stream.sender = "server" /\ IsFragment(d))
    <3>1. Keep(d) /\ fragments' = fragments
      BY <1>1, <2>2 DEF Process
    <3>2. CASE IsDeltas
      <4>1. d \in Kept
        <5>1. CASE stream.sender = "server"
          BY <1>1, <1>2, <2>2, <5>1, ServerDatagram
        <5>2. CASE stream.sender # "server"
          <6>1. PICK m \in SentMessages : SentAs(d, m)
            BY <1>2 DEF OnWire
          <6>2. d \in Seq(Byte) /\ MayCode(m) /\ d = ClientWhole(m)
            BY <1>2, <3>2, <5>2, <6>1 DEF OnWire, SentAs, IsDeltas
          <6> QED BY <3>2, <5>2, <6>2 DEF Kept
        <5> QED BY <5>1, <5>2
      <4> QED BY <1>1, <3>1, <4>1, KeepKept
    <3>3. CASE ~IsDeltas
      <4>1. PICK m \in SentMessages : SentAs(d, m)
        BY <1>2 DEF OnWire
      <4>2. m \in HandshakeMessage
        <5>1. stream.messages \in Seq(HandshakeMessage)
          BY <1>1, <3>3, StreamType
        <5>2. m \in ToSet(stream.messages)
          BY <1>1, SentType
        <5> QED BY <5>1, <5>2 DEF ToSet
      <4>3. d = Command(m.cmd, m.payload)
        BY <1>1, <3>3, <4>1, StreamType DEF IsDeltas, SentAs
      <4>4. m.cmd \in Commands /\ m.payload \in Seq(Byte)
        BY <4>2 DEF HandshakeMessage
      <4>5. ~IsDelta(d)
        BY <4>3, <4>4, CommandRead
      <4> QED BY <1>1, <3>1, <4>5 DEF Keep
    <3> QED BY <3>2, <3>3
  <2> QED BY <2>1, <2>2
<1>5. wire' \in Seq(OnWire')
  BY <1>1, <1>2, <1>3, SeqOfSubset
<1>6. got' \in Seq(Parsed')
  <2>1. got \in Seq(Parsed) /\ got' = got
    BY <1>1 DEF IInv
  <2> QED BY <2>1, <1>3, SeqOfSubset
<1>7. faults' \in Seq({"lost", "repeated", "delayed"}) /\ processed' \in Sequence
  BY <1>1 DEF IInv
<1> QED BY <1>3, <1>4, <1>5, <1>6, <1>7 DEF IInv

(* Take: the last delta is read and given to DeltaParse.                   *)
LEMMA TakeIInv == IInv /\ Take => IInv'
<1> SUFFICES ASSUME IInv, Take PROVE IInv'
  OBVIOUS
<1> DEFINE g == [base |-> GetSequenceBase(last), to |-> GetSequence(last),
                 payload |-> Revealed(last)]
<1>1. /\ stream \in Streams /\ Queue
      /\ last # Nothing /\ last' = Nothing
      /\ stream' = stream /\ todo' = todo /\ wire' = wire
      /\ faults' = faults /\ received' = received /\ fragments' = fragments
      /\ \/ got' = Append(got, g) /\ processed' = GetSequence(last)
         \/ got' = got /\ processed' = processed
  BY DEF IInv, Take
<1>2. /\ stream' \in Streams /\ Queue'
      /\ OnWire \subseteq OnWire' /\ Buffers \subseteq Buffers'
      /\ Kept \subseteq Kept' /\ Parsed \subseteq Parsed'
  BY <1>1, QuietStep
<1>3. GetSequence(last) \in Sequence /\ g \in Parsed
  <2>1. last \in Kept
    BY <1>1 DEF IInv
  <2>2. PICK m \in SentMessages :
          /\ IsDeltas /\ MayCode(m)
          /\ last = IF stream.sender = "server" THEN Whole(m) ELSE ClientWhole(m)
    BY <2>1 DEF Kept
  <2>3. m \in ToSet(stream.messages)
    BY <1>1, SentType
  <2>4. /\ m.to \in Sequence /\ m.base \in Sequence
        /\ m.payload \in Seq(Byte)
    BY <1>1, <2>2, <2>3, MessageType
  <2>5. CASE stream.sender = "server"
    <3>1. last = Whole(m)
      BY <2>2, <2>5
    <3>2. /\ GetSequence(last) = m.to /\ GetSequenceBase(last) = m.base
          /\ Revealed(last) = m.payload
      BY <1>1, <2>2, <2>3, <3>1, WholeRead
    <3>3. g = [base |-> m.base, to |-> m.to, payload |-> m.payload]
      BY <3>2
    <3>4. g \in [base : Sequence, to : Sequence, payload : Seq(Byte)]
      BY <2>4, <3>3
    <3> HIDE DEF g
    <3>5. g \in Parsed
      BY <2>5, <3>3, <3>4 DEF Parsed
    <3> QED BY <2>4, <3>2, <3>5
  <2>6. CASE stream.sender # "server"
    <3>1. last = ClientWhole(m)
      BY <2>2, <2>6
    <3>2. /\ GetSequence(last) = m.to /\ GetSequenceBase(last) = m.base
          /\ Revealed(last) \in Seq(Byte)
      BY <1>1, <2>2, <2>3, <3>1, ClientWholeRead
    <3>3. g \in [base : Sequence, to : Sequence, payload : Seq(Byte)]
      BY <2>4, <3>2
    <3> HIDE DEF g
    <3>4. g \in Parsed
      BY <2>6, <3>3 DEF Parsed
    <3> QED BY <2>4, <3>2, <3>4
  <2> QED BY <2>5, <2>6
<1> HIDE DEF g
<1>4. got' \in Seq(Parsed')
  <2>1. got \in Seq(Parsed)
    BY DEF IInv
  <2>2. got' \in Seq(Parsed)
    BY <1>1, <1>3, <2>1
  <2> QED BY <2>2, <1>2, SeqOfSubset
<1>5. wire' \in Seq(OnWire')
  <2>1. wire \in Seq(OnWire)
    BY DEF IInv
  <2> QED BY <2>1, <1>1, <1>2, SeqOfSubset
<1>6. /\ faults' \in Seq({"lost", "repeated", "delayed"})
      /\ received' \in Sequence /\ processed' \in Sequence
      /\ fragments' \in Buffers'
      /\ last' \in {Nothing} \cup Kept'
  BY <1>1, <1>2, <1>3 DEF IInv
<1> QED BY <1>2, <1>4, <1>5, <1>6 DEF IInv

(* A step that changes nothing.                                            *)
LEMMA StutterIInv == IInv /\ UNCHANGED vars => IInv'
<1> SUFFICES ASSUME IInv, UNCHANGED vars PROVE IInv'
  OBVIOUS
<1>1. stream' = stream /\ todo' = todo
  BY DEF vars
<1>2. /\ stream' \in Streams /\ Queue'
      /\ OnWire \subseteq OnWire' /\ Buffers \subseteq Buffers'
      /\ Kept \subseteq Kept' /\ Parsed \subseteq Parsed'
  BY <1>1, QuietStep
<1>3. wire' \in Seq(OnWire') /\ got' \in Seq(Parsed')
  <2>1. /\ wire \in Seq(OnWire) /\ wire' = wire
        /\ got \in Seq(Parsed) /\ got' = got
    BY DEF IInv, vars
  <2> QED BY <2>1, <1>2, SeqOfSubset
<1>4. /\ faults' \in Seq({"lost", "repeated", "delayed"})
      /\ received' \in Sequence /\ processed' \in Sequence
      /\ fragments' \in Buffers'
      /\ last' \in {Nothing} \cup Kept'
  BY <1>2 DEF IInv, vars
<1> QED BY <1>2, <1>3, <1>4 DEF IInv

(* Every state of a stream satisfies the invariant.                        *)
THEOREM Inductive == Spec => []IInv
<1>1. Init => IInv
  BY InitIInv
<1>2. IInv /\ [Next]_vars => IInv'
  BY SendIInv, FaultIInv, ReceiveIInv, TakeIInv, StutterIInv DEF Next
<1> QED BY <1>1, <1>2, PTL DEF Spec

-----------------------------------------------------------------------------
(* Every buffer is a sequence of bytes and every number in its range: no   *)
(* constructor writes what a byte cannot hold.                             *)
THEOREM TypeCorrect == Spec => []TypeOK
<1>1. IInv => TypeOK
  <2> SUFFICES ASSUME IInv PROVE TypeOK
    OBVIOUS
  <2>1. wire \in Seq(Seq(Byte))
    <3>1. OnWire \subseteq Seq(Byte) /\ wire \in Seq(OnWire)
      BY DEF OnWire, IInv
    <3> QED BY <3>1, SeqOfSubset
  <2>2. last \in Seq(Byte)
    <3>1. << >> \in Seq(Byte) /\ Kept \subseteq Seq(Byte)
      BY DEF Kept
    <3> QED BY <3>1 DEF IInv, Nothing
  <2>3. \A i \in DOMAIN got :
          got[i] \in [base : Sequence, to : Sequence, payload : Seq(Byte)]
    <3>1. got \in Seq(Parsed)
      BY DEF IInv
    <3>2. \A i \in DOMAIN got : got[i] \in Parsed
      BY <3>1
    <3> QED BY <3>2 DEF Parsed
  <2> QED BY <2>1, <2>2, <2>3 DEF IInv, TypeOK, Queue
<1> QED BY <1>1, Inductive, PTL

(* Every datagram on the way, of every stream, is recognised as the one    *)
(* thing it is, with what it was made of.                                  *)
THEOREM AllRecognised == Spec => []Recognised
<1>1. IInv => Recognised
  <2> SUFFICES ASSUME IInv, NEW i \in DOMAIN wire
               PROVE  \E m \in SentMessages :
                        /\ GetSequence(wire[i]) = m.to
                        /\ IF stream.sender = "handshake"
                           THEN /\ ~IsDelta(wire[i]) /\ ~IsFragment(wire[i])
                                /\ GetCommand(wire[i]) = m.cmd
                                /\ GetPayloadBuffer(wire[i], OffsetPayload)
                                     = m.payload
                           ELSE /\ GetCommand(wire[i]) = Unrecognised
                                /\ IsDelta(wire[i]) # IsFragment(wire[i])
                        /\ stream.sender = "client"
                             => /\ IdConnection(wire[i]) = stream.id
                                /\ ClientPayload(wire[i]) = Hidden(m)
    BY DEF Recognised
  <2> DEFINE d == wire[i]
  <2>1. stream \in Streams /\ Queue /\ d \in OnWire
    <3>1. wire \in Seq(OnWire)
      BY DEF IInv
    <3> QED BY <3>1 DEF IInv
  <2> HIDE DEF d
  <2>2. PICK m \in SentMessages : SentAs(d, m)
    BY <2>1 DEF OnWire
  <2>3. m \in ToSet(stream.messages)
    BY <2>1, SentType
  <2>4. CASE stream.sender = "server"
    <3>1. FromServer(d, m) /\ MayCode(m) /\ IsDeltas
      BY <2>2, <2>4 DEF SentAs, FromServer, IsDeltas
    <3>2. Whole(m) \in Seq(Byte) /\ m.to \in Sequence
      BY <2>1, <2>3, <3>1, WholeRead, MessageType
    <3>3. /\ GetSequence(d) = m.to /\ GetCommand(d) = Unrecognised
          /\ \/ IsDelta(d) /\ ~IsFragment(d)
             \/ IsFragment(d) /\ ~IsDelta(d)
      <4>1. CASE d = Whole(m)
        BY <2>1, <2>3, <3>1, <4>1, WholeRead
      <4>2. CASE d # Whole(m)
        <5>1. PICK k \in 0 .. Top - 1 :
                HasPiece(Whole(m), k) /\ PieceOf(d, m.to, Whole(m), k)
          BY <3>1, <4>2 DEF FromServer
        <5> QED BY <3>2, <5>1, PieceRead
      <4> QED BY <4>1, <4>2
    <3>4. IsDelta(d) # IsFragment(d)
      BY <3>3
    <3> QED BY <2>4, <3>3, <3>4 DEF d
  <2>5. CASE stream.sender = "client"
    <3>1. d = ClientWhole(m) /\ MayCode(m) /\ IsDeltas
      BY <2>2, <2>5 DEF SentAs, IsDeltas
    <3>2. /\ GetSequence(d) = m.to /\ GetCommand(d) = Unrecognised
          /\ IsDelta(d) /\ ~IsFragment(d)
          /\ IdConnection(d) = stream.id /\ ClientPayload(d) = Hidden(m)
      BY <2>1, <2>3, <3>1, ClientWholeRead
    <3>3. IsDelta(d) # IsFragment(d)
      BY <3>2
    <3> QED BY <2>5, <3>2, <3>3 DEF d
  <2>6. CASE stream.sender = "handshake"
    <3>1. m \in HandshakeMessage
      <4>1. stream.messages \in Seq(HandshakeMessage)
        BY <2>1, <2>6, StreamType DEF IsDeltas
      <4> QED BY <2>3, <4>1 DEF ToSet
    <3>2. m.to = 0 /\ m.cmd \in Commands /\ m.payload \in Seq(Byte)
      BY <3>1 DEF HandshakeMessage
    <3>3. d = Command(m.cmd, m.payload)
      BY <2>2, <2>6 DEF SentAs
    <3>4. /\ GetSequence(d) = m.to /\ ~IsDelta(d) /\ ~IsFragment(d)
          /\ GetCommand(d) = m.cmd
          /\ GetPayloadBuffer(d, OffsetPayload) = m.payload
      BY <3>2, <3>3, CommandRead
    <3> QED BY <2>6, <3>4 DEF d
  <2> QED BY <2>1, <2>4, <2>5, <2>6, StreamType
<1> QED BY <1>1, Inductive, PTL

(* Whatever a client gives to DeltaParse is, to the byte, what the         *)
(* server's DeltaCreate returned for that state.                           *)
THEOREM PayloadsArrive == Spec => []PayloadArrives
<1>1. IInv => PayloadArrives
  <2> SUFFICES ASSUME IInv, stream.sender = "server", NEW i \in DOMAIN got
               PROVE  \E m \in SentMessages :
                        got[i] = [base |-> m.base, to |-> m.to,
                                  payload |-> m.payload]
    BY DEF PayloadArrives, AsSent
  <2>1. got \in Seq(Parsed)
    BY DEF IInv
  <2>2. got[i] \in Parsed
    BY <2>1
  <2> QED BY <2>2 DEF Parsed
<1> QED BY <1>1, Inductive, PTL

(* No datagram a server sends is one the network would cut up.             *)
THEOREM NoneIsTooLarge == Spec => []NoneTooLarge
<1>1. IInv => NoneTooLarge
  <2> SUFFICES ASSUME IInv, stream.sender = "server", NEW i \in DOMAIN wire
               PROVE  Len(wire[i]) <= SizeMaxPacketSize
    BY DEF NoneTooLarge
  <2> DEFINE d == wire[i]
  <2>1. stream \in Streams /\ Queue /\ d \in OnWire
    <3>1. wire \in Seq(OnWire)
      BY DEF IInv
    <3> QED BY <3>1 DEF IInv
  <2> HIDE DEF d
  <2>2. PICK m \in SentMessages : SentAs(d, m)
    BY <2>1 DEF OnWire
  <2>3. FromServer(d, m) /\ MayCode(m) /\ IsDeltas
    BY <2>2 DEF SentAs, FromServer, IsDeltas
  <2>4. m \in ToSet(stream.messages)
    BY <2>1, SentType
  <2>5. Whole(m) \in Seq(Byte) /\ m.to \in Sequence
    BY <2>1, <2>3, <2>4, WholeRead, MessageType
  <2>6. CASE Len(d) <= SizeMaxPacketSize
    BY <2>6 DEF d
  <2>7. CASE ~(Len(d) <= SizeMaxPacketSize)
    <3>1. PICK k \in 0 .. Top - 1 :
            HasPiece(Whole(m), k) /\ PieceOf(d, m.to, Whole(m), k)
      BY <2>3, <2>7 DEF FromServer
    <3> QED BY <2>5, <2>7, <3>1, PieceRead
  <2> QED BY <2>6, <2>7
<1> QED BY <1>1, Inductive, PTL

-----------------------------------------------------------------------------
(* The newest message.  Of two sequences one is newer, and not the other.  *)
LEMMA OneIsNewer ==
  ASSUME NEW a \in Sequence, NEW b \in Sequence
  PROVE  /\ a = b \/ Greater(a, b) \/ Greater(b, a)
         /\ Greater(a, b) => a # b /\ ~Greater(b, a) /\ Less(b, a) /\ ~Less(a, b)
<1>1. a \in Int /\ b \in Int
  BY Sizes DEF Sequence, MaxValue
<1>2. Minus(a, b) \in Int /\ Minus(b, a) \in Int
  BY <1>1, Sizes DEF Minus
<1>3. (MaxValue \div 2) + 1 \in Int
  BY HalfOfMax, HalfAssumption
<1> DEFINE ab == Minus(a, b)
           ba == Minus(b, a)
           h == (MaxValue \div 2) + 1
<1>4. /\ Less(a, b) <=> a # b /\ ((b > a /\ ba <= h) \/ (b < a /\ ab > h))
      /\ Less(b, a) <=> b # a /\ ((a > b /\ ab <= h) \/ (a < b /\ ba > h))
  BY DEF Less
<1>5. ab \in Int /\ ba \in Int /\ h \in Int
  BY <1>2, <1>3
<1> HIDE DEF ab, ba, h
<1> QED BY <1>1, <1>4, <1>5 DEF Greater

(* An element that does not count has no tag.                              *)
None == -1

(* The tags that the elements of s have, and that no two have the same.    *)
Tags(s, tag) == { tag[s[i]] : i \in DOMAIN s } \ {None}

Once(s, tag) ==
  \A i, j \in DOMAIN s : tag[s[i]] # None /\ tag[s[i]] = tag[s[j]] => i = j

(* The first element of a sequence and the others.                         *)
LEMMA TagsOfTail ==
  ASSUME NEW S, NEW s \in Seq(S), s # << >>, NEW tag, Once(s, tag)
  PROVE  /\ Once(Tail(s), tag)
         /\ tag[Head(s)] = None => Tags(Tail(s), tag) = Tags(s, tag)
         /\ tag[Head(s)] # None =>
              /\ Tags(Tail(s), tag) = Tags(s, tag) \ {tag[Head(s)]}
              /\ tag[Head(s)] \in Tags(s, tag)
<1> DEFINE t == Tail(s)
<1>1. /\ DOMAIN s = 1 .. Len(s) /\ Len(s) \in Nat /\ Len(s) >= 1
      /\ DOMAIN t = 1 .. Len(s) - 1 /\ Head(s) = s[1]
      /\ \A i \in 1 .. Len(s) - 1 : t[i] = s[i + 1]
  OBVIOUS
<1> HIDE DEF t
<1>2. Once(t, tag)
  BY <1>1 DEF Once
<1>3. Tags(s, tag) = (Tags(t, tag) \cup {tag[s[1]]}) \ {None}
  <2>1. ASSUME NEW i \in DOMAIN s, i # 1
        PROVE  i - 1 \in DOMAIN t /\ s[i] = t[i - 1]
    BY <1>1, <2>1
  <2>2. ASSUME NEW i \in DOMAIN t
        PROVE  i + 1 \in DOMAIN s /\ t[i] = s[i + 1]
    BY <1>1
  <2>3. 1 \in DOMAIN s
    BY <1>1
  <2>4. \A x \in Tags(s, tag) : x \in Tags(t, tag) \cup {tag[s[1]]}
    <3> SUFFICES ASSUME NEW x \in Tags(s, tag), x # tag[s[1]]
                 PROVE  x \in Tags(t, tag)
      OBVIOUS
    <3>1. PICK i \in DOMAIN s : x = tag[s[i]] /\ x # None
      BY DEF Tags
    <3>2. i # 1
      BY <3>1
    <3>3. i - 1 \in DOMAIN t /\ s[i] = t[i - 1]
      BY <3>2, <2>1
    <3> QED BY <3>1, <3>3 DEF Tags
  <2>5. \A x \in Tags(t, tag) : x \in Tags(s, tag)
    <3> SUFFICES ASSUME NEW x \in Tags(t, tag) PROVE x \in Tags(s, tag)
      OBVIOUS
    <3>1. PICK i \in DOMAIN t : x = tag[t[i]] /\ x # None
      BY DEF Tags
    <3> QED BY <3>1, <2>2 DEF Tags
  <2>6. tag[s[1]] # None => tag[s[1]] \in Tags(s, tag)
    BY <2>3 DEF Tags
  <2>7. None \notin Tags(s, tag)
    BY DEF Tags
  <2> QED BY <2>4, <2>5, <2>6, <2>7
<1>4. tag[s[1]] # None => tag[s[1]] \notin Tags(t, tag)
  <2> SUFFICES ASSUME tag[s[1]] # None, NEW i \in DOMAIN t, tag[s[1]] = tag[t[i]]
               PROVE  FALSE
    BY DEF Tags
  <2>1. i + 1 \in DOMAIN s /\ 1 \in DOMAIN s /\ t[i] = s[i + 1] /\ i + 1 # 1
    BY <1>1
  <2> QED BY <2>1 DEF Once
<1>5. None \notin Tags(t, tag)
  BY DEF Tags
<1> QED BY <1>1, <1>2, <1>3, <1>4, <1>5 DEF t

(* One element more.                                                       *)
LEMMA TagsOfAppend ==
  ASSUME NEW S, NEW s \in Seq(S), NEW x \in S, NEW tag, Once(s, tag),
         tag[x] # None, tag[x] \notin Tags(s, tag)
  PROVE  /\ Once(Append(s, x), tag)
         /\ Tags(Append(s, x), tag) = Tags(s, tag) \cup {tag[x]}
<1> DEFINE t == Append(s, x)
           n == Len(s)
<1>1. /\ n \in Nat /\ DOMAIN s = 1 .. n /\ DOMAIN t = 1 .. n + 1
      /\ t[n + 1] = x /\ \A i \in 1 .. n : t[i] = s[i]
  OBVIOUS
<1> HIDE DEF t, n
<1>2. \A i \in 1 .. n : tag[s[i]] # tag[x]
  BY <1>1 DEF Tags
<1>3. \A i \in DOMAIN t : i = n + 1 \/ i \in 1 .. n
  BY <1>1
<1>4. Once(t, tag)
  BY <1>1, <1>2, <1>3 DEF Once
<1>5. \A y \in Tags(t, tag) : y = tag[x] \/ y \in Tags(s, tag)
  BY <1>1, <1>3 DEF Tags
<1>6. \A y \in Tags(s, tag) : y \in Tags(t, tag)
  <2>1. \A i \in DOMAIN s : i \in DOMAIN t /\ t[i] = s[i]
    BY <1>1
  <2> QED BY <2>1 DEF Tags
<1>7. tag[x] \in Tags(t, tag)
  <2>1. n + 1 \in DOMAIN t
    BY <1>1
  <2> QED BY <1>1, <2>1 DEF Tags
<1> QED BY <1>4, <1>5, <1>6, <1>7 DEF t

(* Two sequences in one, of which the first has no tags.                   *)
LEMMA TagsOfJoin ==
  ASSUME NEW S, NEW s \in Seq(S), NEW t \in Seq(S), NEW tag,
         Tags(s, tag) = {}, Once(t, tag)
  PROVE  /\ Once(s \o t, tag)
         /\ Tags(s \o t, tag) = Tags(t, tag)
<1> DEFINE u == s \o t
           n == Len(s)
           k == Len(t)
<1>1. /\ n \in Nat /\ k \in Nat /\ DOMAIN s = 1 .. n /\ DOMAIN t = 1 .. k
      /\ DOMAIN u = 1 .. n + k
      /\ \A i \in 1 .. n : u[i] = s[i]
      /\ \A i \in 1 .. k : u[n + i] = t[i]
  OBVIOUS
<1> HIDE DEF u, n, k
<1>2. \A i \in 1 .. n : tag[u[i]] = None
  BY <1>1 DEF Tags
<1>3. ASSUME NEW i \in DOMAIN u, tag[u[i]] # None
      PROVE  i - n \in DOMAIN t /\ u[i] = t[i - n]
  <2>1. i \notin 1 .. n
    BY <1>2, <1>3
  <2>2. i - n \in 1 .. k /\ n + (i - n) = i
    BY <1>1, <2>1
  <2> QED BY <1>1, <2>2
<1>4. Once(u, tag)
  <2> SUFFICES ASSUME NEW i \in DOMAIN u, NEW j \in DOMAIN u,
                      tag[u[i]] # None, tag[u[i]] = tag[u[j]]
               PROVE  i = j
    BY DEF Once
  <2>1. i - n = j - n
    BY <1>3 DEF Once
  <2>2. i \in Int /\ j \in Int
    BY <1>1
  <2> QED BY <1>1, <2>1, <2>2
<1>5. \A x \in Tags(u, tag) : x \in Tags(t, tag)
  <2> SUFFICES ASSUME NEW i \in DOMAIN u, tag[u[i]] # None
               PROVE  tag[u[i]] \in Tags(t, tag)
    BY DEF Tags
  <2> QED BY <1>3 DEF Tags
<1>6. \A x \in Tags(t, tag) : x \in Tags(u, tag)
  <2> SUFFICES ASSUME NEW i \in DOMAIN t, tag[t[i]] # None
               PROVE  tag[t[i]] \in Tags(u, tag)
    BY DEF Tags
  <2>1. n + i \in DOMAIN u /\ u[n + i] = t[i]
    BY <1>1
  <2> QED BY <2>1 DEF Tags
<1> QED BY <1>4, <1>5, <1>6 DEF u

(* What two sequences in one have.                                         *)
LEMMA JoinElements ==
  ASSUME NEW S, NEW a \in Seq(S), NEW b \in Seq(S)
  PROVE  /\ Len(a \o b) = Len(a) + Len(b)
         /\ \A j \in 1 .. Len(a) : (a \o b)[j] = a[j]
         /\ \A j \in 1 .. Len(b) : (a \o b)[Len(a) + j] = b[j]
OBVIOUS

(* An element that is put at the end.                                      *)
LEMMA PutLast ==
  ASSUME NEW S, NEW s \in Seq(S), NEW i \in DOMAIN s,
         NEW t, t = Append(RemoveAt(s, i), s[i])
  PROVE  /\ t \in Seq(S)
         /\ DOMAIN t = DOMAIN s
         /\ \A j \in DOMAIN t :
              t[j] = s[IF j < i THEN j ELSE IF j = Len(s) THEN i ELSE j + 1]
<1> DEFINE n == Len(s)
           r == RemoveAt(s, i)
           a == SubSeq(s, 1, i - 1)
           b == SubSeq(s, i + 1, n)
<1>1. n \in Nat /\ DOMAIN s = 1 .. n /\ i \in 1 .. n /\ i \in Int
  OBVIOUS
<1>2. r = a \o b
  BY DEF RemoveAt
<1>3. r \in Seq(S) /\ s[i] \in S
  BY SeqSteps
<1>4. /\ a \in Seq(S) /\ Len(a) = i - 1
      /\ \A j \in 1 .. i - 1 : a[j] = s[j]
  <2>1. 1 <= i /\ i - 1 <= n
    BY <1>1
  <2> HIDE DEF n
  <2>2. a = [j \in 1 .. i - 1 |-> s[j]]
    BY <1>1, <2>1
  <2>3. \A j \in 1 .. i - 1 : s[j] \in S
    BY <1>1
  <2> HIDE DEF a
  <2> QED BY <1>1, <2>1, <2>2, <2>3
<1>5. /\ b \in Seq(S) /\ Len(b) = n - i
      /\ \A j \in 1 .. n - i : b[j] = s[i + j]
  <2>1. b \in Seq(S)
    BY <1>1
  <2>2. Len(b) = n - i
    BY <1>1
  <2>3. \A j \in 1 .. n - i : b[j] = s[i + j]
    BY <1>1
  <2> QED BY <2>1, <2>2, <2>3
<1> HIDE DEF a, b, n
<1>6. /\ Len(r) = n - 1
      /\ \A j \in 1 .. i - 1 : r[j] = s[j]
      /\ \A j \in i .. n - 1 : r[j] = s[j + 1]
  <2> DEFINE c == a \o b
  <2>0. /\ Len(c) = Len(a) + Len(b)
        /\ \A j \in 1 .. Len(a) : c[j] = a[j]
        /\ \A j \in 1 .. Len(b) : c[Len(a) + j] = b[j]
    <3>1. a \in Seq(S) /\ b \in Seq(S)
      BY <1>4, <1>5
    <3> QED BY <3>1, JoinElements
  <2>4. r = c
    BY <1>2
  <2> HIDE DEF c, r
  <2>1. Len(r) = n - 1
    BY <1>1, <1>4, <1>5, <2>0, <2>4
  <2>2. \A j \in 1 .. i - 1 : r[j] = s[j]
    BY <1>1, <1>4, <2>0, <2>4
  <2>3. ASSUME NEW j \in i .. n - 1 PROVE r[j] = s[j + 1]
    <3> DEFINE k == j - (i - 1)
    <3>1. k \in 1 .. n - i /\ j = (i - 1) + k /\ i + k = j + 1
      BY <1>1
    <3> HIDE DEF k
    <3>2. r[(i - 1) + k] = b[k]
      BY <1>4, <1>5, <2>0, <2>4, <3>1
    <3>3. b[k] = s[i + k]
      BY <1>5, <3>1
    <3> QED BY <3>1, <3>2, <3>3
  <2> QED BY <2>1, <2>2, <2>3
<1> HIDE DEF r
<1>7. /\ t \in Seq(S) /\ Len(t) = n /\ t[n] = s[i]
      /\ \A j \in 1 .. n - 1 : t[j] = r[j]
  BY <1>1, <1>3, <1>6 DEF r
<1>8. DOMAIN t = 1 .. n
  BY <1>7
<1>9. ASSUME NEW j \in DOMAIN t
      PROVE  t[j] = s[IF j < i THEN j ELSE IF j = n THEN i ELSE j + 1]
  BY <1>1, <1>6, <1>7, <1>8
<1> QED BY <1>1, <1>7, <1>8, <1>9 DEF n

(* Delay puts an element at the end.                                       *)
ToEnd(s, i) == Append(RemoveAt(s, i), s[i])

(* That leaves every element and every tag where there is one.             *)
LEMMA TagsOfPutLast ==
  ASSUME NEW S, NEW s \in Seq(S), NEW i \in DOMAIN s, NEW t, t = ToEnd(s, i)
  PROVE  /\ Range(t) = Range(s)
         /\ \A tag : /\ Tags(t, tag) = Tags(s, tag)
                     /\ Once(s, tag) => Once(t, tag)
<1> DEFINE n == Len(s)
           p(j) == IF j < i THEN j ELSE IF j = n THEN i ELSE j + 1
           q(j) == IF j < i THEN j ELSE IF j = i THEN n ELSE j - 1
<1>1. n \in Nat /\ DOMAIN s = 1 .. n /\ i \in 1 .. n
  OBVIOUS
<1>0. /\ DOMAIN t = DOMAIN s
      /\ \A j \in DOMAIN t :
           t[j] = s[IF j < i THEN j ELSE IF j = Len(s) THEN i ELSE j + 1]
  <2> HIDE DEF n, p, q
  <2> QED BY PutLast DEF ToEnd
<1>2. DOMAIN t = 1 .. n /\ \A j \in DOMAIN t : t[j] = s[p(j)]
  BY <1>0, <1>1
<1> HIDE DEF n
<1>3. ASSUME NEW j \in 1 .. n
      PROVE  p(j) \in 1 .. n /\ q(j) \in 1 .. n /\ p(q(j)) = j /\ q(p(j)) = j
  BY <1>1
<1> HIDE DEF p, q
<1>4. /\ \A j \in DOMAIN t : p(j) \in DOMAIN s /\ t[j] = s[p(j)] /\ q(p(j)) = j
      /\ \A j \in DOMAIN s : q(j) \in DOMAIN t /\ s[j] = t[q(j)]
  BY <1>1, <1>2, <1>3
<1>5. Range(t) = Range(s)
  BY <1>4 DEF Range
<1>6. ASSUME NEW tag PROVE Tags(t, tag) = Tags(s, tag)
  <2>1. ASSUME NEW x \in Tags(t, tag) PROVE x \in Tags(s, tag)
    <3>1. PICK j \in DOMAIN t : x = tag[t[j]] /\ x # None
      BY <2>1 DEF Tags
    <3> QED BY <1>4, <3>1 DEF Tags
  <2>2. ASSUME NEW x \in Tags(s, tag) PROVE x \in Tags(t, tag)
    <3>1. PICK j \in DOMAIN s : x = tag[s[j]] /\ x # None
      BY <2>2 DEF Tags
    <3> QED BY <1>4, <3>1 DEF Tags
  <2> QED BY <2>1, <2>2
<1>7. ASSUME NEW tag, Once(s, tag) PROVE Once(t, tag)
  BY <1>4, <1>7 DEF Once
<1> QED BY <1>5, <1>6, <1>7

(* FragmentPacket cuts a packet that is small enough into all its pieces,  *)
(* each once, if a tag is the index a piece has.                           *)
LEMMA AllPieces ==
  ASSUME NEW seq \in Sequence, NEW w \in Seq(Byte), GetSequence(w) = seq,
         NEW tag,
         \A k \in 0 .. Top - 1, d \in Seq(Byte) :
           HasPiece(w, k) /\ PieceOf(d, seq, w, k) => tag[d] = k
  PROVE  /\ Once(Pieces(w), tag)
         /\ Tags(Pieces(w), tag) = { k \in 0 .. Top - 1 : HasPiece(w, k) }
<1> DEFINE Nth(n) == PacketFragment(seq, w, n)
           S == { n \in 0 .. ByteSize - 2 : ~IsFragment(Nth(n)) \/ n = ByteSize - 2 }
           count == Min(S)
<1>1. S \in SUBSET Nat /\ ByteSize - 2 \in S
  BY Sizes
<1>2. PICK least \in S : \A n \in S : ~(n < least)
  BY <1>1, LeastNatural
<1>3. count = least
  <2>1. \A n \in S : least <= n
    BY <1>1, <1>2
  <2>2. \A x \in S : (\A y \in S : x <= y) => x = least
    BY <1>1, <1>2, <2>1
  <2> HIDE DEF S
  <2> QED BY <2>1, <2>2 DEF Min
<1>4. /\ count \in 0 .. ByteSize - 2 /\ \A n \in S : ~(n < count)
      /\ ~IsFragment(Nth(count)) \/ count = ByteSize - 2
  BY <1>2, <1>3
<1>5. ASSUME NEW n \in 0 .. count - 1
      PROVE  HasPiece(w, n) /\ PieceOf(Nth(n), seq, w, n) /\ tag[Nth(n)] = n
             /\ n \in 0 .. Top - 1
  <2>1. n \in 0 .. ByteSize - 2 /\ n < count /\ n # ByteSize - 2
    BY <1>4, Sizes
  <2>2. IsFragment(Nth(n))
    BY <2>1, <1>4
  <2>3. ASSUME Nth(n) = << >> PROVE FALSE
    BY <2>2, <2>3 DEF IsFragment, OffsetFragmentPayload
  <2>4. n < Top /\ Offset(n) < Len(w)
    BY <2>3 DEF PacketFragment, Offset
  <2>5. HasPiece(w, n) /\ n \in 0 .. Top - 1
    BY <2>1, <2>4, Sizes DEF HasPiece
  <2>6. PieceOf(Nth(n), seq, w, n)
    BY <2>5, PieceBytes
  <2>7. Nth(n) \in Seq(Byte)
    BY <2>6 DEF PieceOf
  <2> HIDE DEF Nth
  <2> QED BY <2>5, <2>6, <2>7
<1>6. ASSUME NEW k \in 0 .. Top - 1, HasPiece(w, k), ~(k < count) PROVE FALSE
  <2>1. count \in 0 .. Top - 1 /\ count <= k /\ count # ByteSize - 2
    BY <1>4, <1>6, Sizes
  <2>2. Offset(count) <= Offset(k)
    <3> HIDE DEF count
    <3>1. count \in Nat /\ k \in Nat /\ FragmentSize \in Nat
      BY <2>1, Sizes
    <3>2. k = count + (k - count) /\ k - count \in Nat
      BY <2>1, <3>1
    <3> DEFINE r == k - count
    <3> HIDE DEF r
    <3>3. k = count + r /\ r \in Nat
      BY <3>2 DEF r
    <3>4. FragmentSize * k = FragmentSize * count + FragmentSize * r
      BY <3>1, <3>3
    <3>5. FragmentSize * r \in Nat /\ FragmentSize * count \in Nat
      BY <3>1, <3>3
    <3> QED BY <3>4, <3>5 DEF Offset
  <2>3. HasPiece(w, count)
    <3> HIDE DEF count
    <3>1. /\ Offset(count) \in Int /\ Offset(k) \in Int /\ Len(w) \in Int
          /\ Offset(k) < Len(w)
      BY <1>6, <2>1, Sizes DEF Offset, HasPiece
    <3> QED BY <2>1, <2>2, <3>1 DEF HasPiece
  <2>4. PieceOf(Nth(count), seq, w, count)
    BY <2>3, PieceBytes
  <2>5. IsFragment(Nth(count))
    <3> HIDE DEF Nth, count
    <3> QED BY <2>3, <2>4, PieceRead
  <2> QED BY <1>4, <2>1, <2>5
<1> HIDE DEF Nth, S
<1>7. Pieces(w) = [n \in 1 .. count |-> Nth(n - 1)]
  BY DEF Pieces, Nth, S
<1>8. count \in Nat
  BY <1>4, Sizes
<1> DEFINE P == Pieces(w)
<1> HIDE DEF count
<1>9. /\ DOMAIN P = 1 .. count
      /\ \A i \in 1 .. count : tag[P[i]] = i - 1 /\ i - 1 \in 0 .. count - 1
  BY <1>5, <1>7, <1>8
<1> HIDE DEF P
<1>10. Once(P, tag)
  BY <1>8, <1>9 DEF Once
<1>11. \A k \in Tags(P, tag) : k \in 0 .. Top - 1 /\ HasPiece(w, k)
  BY <1>5, <1>9 DEF Tags
<1>12. ASSUME NEW k \in 0 .. Top - 1, HasPiece(w, k) PROVE k \in Tags(P, tag)
  <2>1. k < count
    BY <1>6, <1>12
  <2>2. k + 1 \in DOMAIN P /\ tag[P[k + 1]] = k
    BY <1>8, <1>9, <2>1, Sizes
  <2>3. k # None
    BY DEF None
  <2> QED BY <2>2, <2>3 DEF Tags
<1> QED BY <1>10, <1>11, <1>12 DEF P

(* So many pieces has a packet that is small enough, and the last of them  *)
(* reaches its end.                                                        *)
LEMMA PieceCount ==
  ASSUME NEW w \in Seq(Byte), w # << >>, Len(w) < MaxTotalPayloadSize
  PROVE  \E n \in 1 .. Top - 1 :
           /\ \A k : HasPiece(w, k) <=> k \in 0 .. n - 1
           /\ ReachesEnd(Offset(n - 1), w)
<1> DEFINE S == { n \in Nat : Offset(n) >= Len(w) }
<1>0. FragmentSize \in Nat \ {0} /\ Top \in Nat /\ Top > 8 /\ Len(w) \in Nat \ {0}
  BY Sizes
<1>1. Top - 1 \in S
  <2>1. Offset(Top - 1) = MaxTotalPayloadSize
    <3> DEFINE t == Top - 1
    <3>1. t \in Int
      BY <1>0
    <3> HIDE DEF t
    <3>2. FragmentSize * t = t * FragmentSize
      BY <1>0, <3>1
    <3> QED BY <3>2 DEF t, Offset, MaxTotalPayloadSize
  <2>2. Offset(Top - 1) \in Int
    BY <1>0 DEF Offset
  <2> QED BY <1>0, <2>1, <2>2
<1>2. PICK n \in S : \A x \in S : ~(x < n)
  <2>1. S \in SUBSET Nat /\ S # {}
    BY <1>1
  <2> HIDE DEF S
  <2> QED BY <2>1, LeastNatural
<1>3. n \in Nat /\ n <= Top - 1
  BY <1>0, <1>1, <1>2
<1>4. n # 0
  <2>1. Offset(0) = 0
    BY <1>0 DEF Offset
  <2> QED BY <1>0, <1>2, <2>1
<1>5. \A a, b \in Nat : a <= b => Offset(a) <= Offset(b) /\ Offset(a) \in Nat
  <2> SUFFICES ASSUME NEW a \in Nat, NEW b \in Nat, a <= b
               PROVE  Offset(a) <= Offset(b) /\ Offset(a) \in Nat
    OBVIOUS
  <2>1. PICK r \in Nat : b = a + r
    <3>1. b - a \in Nat /\ b = a + (b - a)
      OBVIOUS
    <3> QED BY <3>1
  <2>2. FragmentSize * b = FragmentSize * a + FragmentSize * r
    BY <1>0, <2>1
  <2>3. FragmentSize * r \in Nat /\ FragmentSize * a \in Nat
    BY <1>0
  <2> QED BY <2>2, <2>3 DEF Offset
<1>6. ASSUME NEW k PROVE HasPiece(w, k) <=> k \in 0 .. n - 1
  <2>1. ASSUME HasPiece(w, k) PROVE k \in 0 .. n - 1
    <3>1. k \in Nat /\ Offset(k) < Len(w)
      BY <2>1, <1>0 DEF HasPiece
    <3>2. ~(n <= k)
      <4> SUFFICES ASSUME n <= k PROVE FALSE
        OBVIOUS
      <4>1. /\ Offset(n) <= Offset(k) /\ Offset(n) \in Nat /\ Offset(k) \in Nat
        BY <1>3, <1>5, <3>1
      <4>2. Offset(n) >= Len(w)
        BY <1>2
      <4> QED BY <1>0, <3>1, <4>1, <4>2
    <3> QED BY <1>3, <3>1, <3>2
  <2>2. ASSUME k \in 0 .. n - 1 PROVE HasPiece(w, k)
    <3>1. k \in Nat /\ k < n /\ k \in 0 .. Top - 1
      BY <1>0, <1>3, <2>2
    <3>2. Offset(k) \in Nat
      BY <1>5, <3>1
    <3>3. ~(Offset(k) >= Len(w))
      BY <1>2, <3>1
    <3> QED BY <1>0, <3>1, <3>2, <3>3 DEF HasPiece
  <2> QED BY <2>1, <2>2
<1>7. ReachesEnd(Offset(n - 1), w)
  <2>1. PICK p \in Nat : n = p + 1
    <3>1. n - 1 \in Nat /\ n = (n - 1) + 1
      BY <1>3, <1>4
    <3> QED BY <3>1
  <2>2. Offset(p) + FragmentSize = Offset(n)
    BY <1>0, <2>1 DEF Offset
  <2>3. n - 1 = p /\ Offset(n) >= Len(w)
    BY <1>2, <2>1
  <2> QED BY <2>2, <2>3 DEF ReachesEnd
<1>8. n \in 1 .. Top - 1
  BY <1>0, <1>3, <1>4
<1> HIDE DEF S
<1> QED BY <1>6, <1>7, <1>8

(* n different numbers below k are at most k.                              *)
LEMMA NotMore ==
  ASSUME NEW n \in Nat, NEW k \in Nat, NEW f \in [1 .. n -> 0 .. k - 1],
         \A i, j \in 1 .. n : f[i] = f[j] => i = j
  PROVE  n <= k
<1> DEFINE S == 1 .. n
           T == 0 .. k - 1
<1>1. IsFiniteSet(S) /\ Cardinality(S) = n
  BY FS_Interval
<1>2. IsFiniteSet(T) /\ Cardinality(T) = k
  BY FS_Interval
<1>3. f \in Injection(S, T)
  BY DEF Injection, IsInjective
<1> HIDE DEF S, T
<1>4. Cardinality(S) <= Cardinality(T)
  BY <1>2, <1>3, FS_Injection
<1> QED BY <1>1, <1>2, <1>4

(* The index of a piece of w.                                              *)
IndexOf(seq, w) == [p \in PartsOf(seq, w) |-> p.index]

(* A buffer with all the pieces of a packet, each once, is joined.         *)
LEMMA AllJoined ==
  ASSUME NEW seq, NEW w \in Seq(Byte), w # << >>, Len(w) < MaxTotalPayloadSize,
         NEW b, b.parts \in Seq(PartsOf(seq, w)),
         Once(b.parts, IndexOf(seq, w)),
         Tags(b.parts, IndexOf(seq, w)) = { k \in 0 .. Top - 1 : HasPiece(w, k) }
  PROVE  Joined(b) = w
<1> DEFINE parts == b.parts
           tag == IndexOf(seq, w)
           S == {Len(parts)} \cup { parts[k].index + 1 : k \in DOMAIN parts }
<1>1. PICK n \in 1 .. Top - 1 :
        /\ \A k : HasPiece(w, k) <=> k \in 0 .. n - 1
        /\ ReachesEnd(Offset(n - 1), w)
  BY PieceCount
<1>2. Len(parts) \in Nat /\ DOMAIN parts = 1 .. Len(parts) /\ n \in Nat /\ n > 0
      /\ n <= Top - 1 /\ Top \in Nat
  BY Sizes
<1>3. \A k \in DOMAIN parts : tag[parts[k]] = parts[k].index /\ parts[k].index \in 0 .. n - 1
  <2>1. \A p \in PartsOf(seq, w) : p.index \in 0 .. n - 1
    BY <1>1 DEF PartsOf, PartOf
  <2>2. \A k \in DOMAIN parts : parts[k] \in PartsOf(seq, w)
    BY <1>2
  <2> QED BY <2>1, <2>2 DEF IndexOf
<1> HIDE DEF parts, tag
<1>4. Len(parts) <= n
  <2> DEFINE f == [k \in 1 .. Len(parts) |-> parts[k].index]
  <2>1. f \in [1 .. Len(parts) -> 0 .. n - 1]
    BY <1>2, <1>3
  <2>2. ASSUME NEW i \in 1 .. Len(parts), NEW j \in 1 .. Len(parts), f[i] = f[j]
        PROVE  i = j
    <3>1. tag[parts[i]] = tag[parts[j]] /\ tag[parts[i]] # None
      BY <1>2, <1>3, <2>2 DEF None
    <3> QED BY <1>2, <3>1 DEF Once, parts, tag
  <2> HIDE DEF f
  <2> QED BY <1>2, <2>1, <2>2, NotMore
<1>5. ASSUME NEW i \in 0 .. n - 1 PROVE Parts!Filled(parts, i)
  <2>1. i \in 0 .. Top - 1 /\ HasPiece(w, i)
    BY <1>1, <1>2
  <2>2. i \in Tags(parts, tag)
    BY <2>1 DEF parts, tag
  <2>3. PICK k \in DOMAIN parts : tag[parts[k]] = i
    BY <2>2 DEF Tags
  <2> QED BY <1>3, <2>3 DEF Parts!Filled
<1>6. Parts!SortedSize(parts) = n
  <2>1. n - 1 \in 0 .. n - 1
    BY <1>2
  <2>2. PICK k \in DOMAIN parts : parts[k].index = n - 1
    BY <1>5, <2>1 DEF Parts!Filled
  <2>3. n \in S
    <3>1. parts[k].index + 1 = n
      BY <1>2, <2>2
    <3> QED BY <2>2, <3>1
  <2>4. \A x \in S : x \in Nat /\ n >= x
    BY <1>2, <1>3, <1>4
  <2>6. Parts!SortedSize(parts) = Max(S)
    BY DEF Parts!SortedSize, Parts!Max, Max
  <2> HIDE DEF S
  <2>5. S \in SUBSET (0 .. n) /\ S # {}
    BY <1>2, <2>3, <2>4
  <2>7. Max(S) \in S /\ \A j \in S : Max(S) >= j
    BY <1>2, <2>5, MaxOfBounded
  <2>8. Max(S) \in Nat /\ n >= Max(S) /\ Max(S) >= n
    BY <2>3, <2>4, <2>7
  <2> DEFINE max == Max(S)
  <2>9. max \in Nat /\ n >= max /\ max >= n
    BY <2>8
  <2> HIDE DEF max
  <2>10. max = n
    BY <1>2, <2>9
  <2> QED BY <2>6, <2>10 DEF max
<1>7. n - 1 \in 0 .. n - 1 /\ 0 \in 0 .. n - 1
  BY <1>2
<1>8. Parts!Sorted(parts, n - 1) = PartOf(seq, w, n - 1)
  <2>1. parts \in Seq(PartsOf(seq, w)) /\ Parts!Filled(parts, n - 1)
    BY <1>5, <1>7 DEF parts
  <2> QED BY <2>1, SortedPart
<1>9. Parts!Complete(parts)
  <2>1. Parts!Sorted(parts, n - 1).last
    BY <1>1, <1>8 DEF PartOf
  <2> QED BY <1>5, <1>6, <1>7, <2>1 DEF Parts!Complete
<1>10. parts # << >>
  <2>1. Parts!Filled(parts, 0)
    BY <1>5, <1>7
  <2> QED BY <1>2, <2>1 DEF Parts!Filled
<1> QED BY <1>9, <1>10, JoinedIsWhole DEF parts

(* That a message may be sent: the conditions of Due.                      *)
MaySend(m) ==
  /\ MayCode(m)
  /\ IF stream.sender = "client" THEN m.size <= MaxPacketSizeInBytes
     ELSE Len(m.payload) + OffsetDeltaPayload <= MaxPacketSizeInBytes

(* The messages that Due is the set of, and what they are.                 *)
LEMMA DueType ==
  ASSUME stream \in Streams, Queue
  PROVE  /\ \A m : m \in Due <=> m \in SentMessages /\ IsDeltas /\ MaySend(m)
         /\ \A m \in Due : /\ m \in ToSet(stream.messages) /\ IsDeltas
                           /\ MayCode(m) /\ m.to \in Sequence
<1>1. \A m : m \in Due <=> m \in SentMessages /\ IsDeltas /\ MaySend(m)
  BY DEF Due, IsDeltas, MaySend, MayCode
<1>2. ASSUME NEW m \in Due
      PROVE  /\ m \in ToSet(stream.messages) /\ IsDeltas
             /\ MayCode(m) /\ m.to \in Sequence
  <2>1. m \in ToSet(stream.messages) /\ IsDeltas /\ MayCode(m)
    BY <1>1, SentType DEF MaySend
  <2> QED BY <2>1, MessageType
<1> QED BY <1>1, <1>2

(* What is sent of a message: nothing, all of it, or all its pieces.       *)
LEMMA DatagramsOf ==
  ASSUME stream \in Streams, IsDeltas, NEW m \in ToSet(stream.messages)
  PROVE  /\ ~MaySend(m) => Datagrams(m) = << >>
         /\ MaySend(m) /\ stream.sender = "client"
              => Datagrams(m) = << ClientWhole(m) >>
         /\ MaySend(m) /\ stream.sender = "server"
              => /\ Len(Whole(m)) < MaxTotalPayloadSize
                 /\ Datagrams(m) = IF Len(Whole(m)) > SizeMaxPacketSize
                                   THEN Pieces(Whole(m)) ELSE << Whole(m) >>
<1>1. CASE stream.sender = "client"
  <2>1. Datagrams(m) = ClientSends(m)
    BY <1>1 DEF Datagrams
  <2>2. MayCode(m) => Distance(m) % ByteSize = Distance(m)
    BY MessageType
  <2> QED BY <1>1, <2>1, <2>2 DEF ClientSends, MaySend, ClientWhole
<1>2. CASE stream.sender = "server"
  <2>1. Datagrams(m) = ServerSends(m)
    BY <1>2 DEF Datagrams
  <2>2. CASE ~MayCode(m)
    BY <2>1, <2>2, <1>2 DEF ServerSends, MaySend
  <2>3. CASE MayCode(m)
    <3> DEFINE w == Whole(m)
    <3>1. /\ w \in Seq(Byte) /\ IsDelta(w)
          /\ DeltaOf(w, m.to, RawAck(m.ack), Distance(m), Hidden(m))
      BY <2>3, WholeRead
    <3>2. Distance(m) % ByteSize = Distance(m) /\ Len(Hidden(m)) = Len(m.payload)
          /\ m.payload \in Seq(Byte)
      BY <2>3, MessageType
    <3>3. Len(w) = Len(m.payload) + OffsetDeltaPayload
      BY <3>1, <3>2 DEF DeltaOf, OffsetDeltaPayload
    <3>4. ServerSends(m) = IF Len(w) <= MaxPacketSizeInBytes THEN FragmentPacket(w)
                                                             ELSE << >>
      BY <2>3, <3>2 DEF ServerSends, Whole
    <3> HIDE DEF w
    <3>5. CASE ~MaySend(m)
      BY <1>2, <2>1, <2>3, <3>3, <3>4, <3>5 DEF MaySend
    <3>6. CASE MaySend(m)
      <4>1. Len(w) <= MaxPacketSizeInBytes
        BY <1>2, <3>3, <3>6 DEF MaySend
      <4>2. Len(w) < MaxTotalPayloadSize
        <5>1. MaxTotalPayloadSize \in Int
          BY Sizes DEF MaxTotalPayloadSize
        <5>2. Len(w) \in Int /\ MaxPacketSizeInBytes \in Int
          BY <3>1, PacketBytesAssumption
        <5> QED BY <4>1, <5>1, <5>2, NewestAssumption
      <4>3. FragmentPacket(w) = IF Len(w) > SizeMaxPacketSize THEN Pieces(w)
                                                              ELSE << w >>
        BY <3>1, <4>2 DEF FragmentPacket
      <4> QED BY <1>2, <2>1, <3>4, <3>6, <4>1, <4>2, <4>3 DEF w
    <3> QED BY <3>5, <3>6
  <2> QED BY <2>2, <2>3
<1> QED BY <1>1, <1>2 DEF IsDeltas

(* The sequence before the first, and all that the receiver may have had.  *)
Start == MinusAssign(Head(stream.messages).to, 1)

Before == {Start} \cup { m.to : m \in Due }

(* A stream's messages are in order, so that no two have the same          *)
(* sequence.                                                               *)
LEMMA MessagesInOrder ==
  ASSUME stream \in Streams, IsDeltas
  PROVE  LET M == stream.messages IN
         /\ \A i \in 1 .. Len(M) : Greater(M[i].to, Start)
         /\ \A i, j \in 1 .. Len(M) : i < j => Greater(M[j].to, M[i].to)
         /\ \A m, n \in ToSet(M) : m.to = n.to => m = n
         /\ Start \in Sequence
<1> DEFINE M == stream.messages
<1>1. /\ \A i \in 1 .. Len(M) : Greater(M[i].to, Start)
      /\ \A i, j \in 1 .. Len(M) : i < j => Greater(M[j].to, M[i].to)
  BY NewestAssumption DEF IsDeltas, Start
<1>2. M \in Seq(DeltaMessage) /\ Len(M) \in Nat \ {0}
  BY StreamType
<1>3. ASSUME NEW m \in ToSet(M), NEW n \in ToSet(M), m.to = n.to PROVE m = n
  <2>1. PICK i \in 1 .. Len(M) : m = M[i]
    BY <1>2 DEF ToSet
  <2>2. PICK j \in 1 .. Len(M) : n = M[j]
    BY <1>2 DEF ToSet
  <2>3. ~(i < j) /\ ~(j < i)
    BY <1>1, <1>3, <2>1, <2>2 DEF Greater
  <2> QED BY <1>2, <2>1, <2>2, <2>3
<1>4. Start \in Sequence
  <2>1. Head(M) \in DeltaMessage
    BY <1>2
  <2>2. Head(M).to \in Sequence
    BY <2>1 DEF DeltaMessage
  <2>3. Head(M).to \in Int
    BY <2>2 DEF Sequence
  <2>4. Wrap(Head(M).to - 1) \in Sequence
    BY <2>3, WrapType
  <2> QED BY <2>4 DEF Start, MinusAssign, Wrap
<1> HIDE DEF M
<1> QED BY <1>1, <1>3, <1>4 DEF M

(* All of it are sequences.                                                *)
LEMMA BeforeType ==
  ASSUME stream \in Streams, Queue, IsDeltas
  PROVE  Before \subseteq Sequence
BY DueType, MessagesInOrder DEF Before

(* The newest message that may be sent.                                    *)
Newest(m) == m \in Due /\ \A n \in Due : n.to = m.to \/ Greater(m.to, n.to)

(* It is newer than all else that the receiver may have had.               *)
LEMMA NewestIsNewer ==
  ASSUME stream \in Streams, Queue, NEW m, Newest(m), NEW x \in Before
  PROVE  x = m.to \/ Greater(m.to, x)
<1>1. m \in Due /\ IsDeltas /\ m \in ToSet(stream.messages)
  BY DueType DEF Newest
<1>2. CASE x = Start
  <2>1. PICK i \in 1 .. Len(stream.messages) : m = stream.messages[i]
    <3>1. stream.messages \in Seq(DeltaMessage)
      BY <1>1, StreamType
    <3> QED BY <1>1, <3>1 DEF ToSet
  <2> QED BY <1>1, <1>2, <2>1, MessagesInOrder
<1>3. CASE x # Start
  <2>1. PICK n \in Due : x = n.to
    BY <1>3 DEF Before
  <2> QED BY <2>1 DEF Newest
<1> QED BY <1>2, <1>3

(* Once a message may be sent there is a newest, or one is newer than it.  *)
LEMMA NewestOrOlder ==
  ASSUME stream \in Streams, Queue, NEW m \in Due
  PROVE  Newest(m) \/ \E n \in Due : Greater(n.to, m.to)
<1>1. ASSUME NEW n \in Due
      PROVE  n.to = m.to \/ Greater(m.to, n.to) \/ Greater(n.to, m.to)
  BY DueType, OneIsNewer
<1> QED BY <1>1 DEF Newest

(* The datagram that is all of a message.                                  *)
Kind(m) == IF stream.sender = "server" THEN Whole(m) ELSE ClientWhole(m)

(* The indexes of the pieces of m: among datagrams, among the parts in the *)
(* buffer, and all that there are.                                         *)
WireTag(m) ==
  [d \in Seq(Byte) |-> IF IsFragment(d) /\ GetSequence(d) = m.to
                       THEN FragmentId(d) ELSE None]

PartTag(m) == IndexOf(m.to, Whole(m))

AllOf(m) == { k \in 0 .. Top - 1 : HasPiece(Whole(m), k) }

(* The parts in the buffer if they are pieces of m.                        *)
PartsFor(m, b) == IF b.parts # << >> /\ b.current = m.to THEN b.parts ELSE << >>

(* Every piece of m is among the datagrams w or in the buffer b, none of   *)
(* them twice, and at least one is still among the datagrams.              *)
Gathering(m, w, b) ==
  /\ Once(w, WireTag(m)) /\ Once(PartsFor(m, b), PartTag(m))
  /\ Tags(w, WireTag(m)) \cap Tags(PartsFor(m, b), PartTag(m)) = {}
  /\ Tags(w, WireTag(m)) # {}
  /\ Tags(w, WireTag(m)) \cup Tags(PartsFor(m, b), PartTag(m)) = AllOf(m)

(* What a receiver makes of a datagram of a message that may be sent.      *)
LEMMA KindRead ==
  ASSUME stream \in Streams, Queue, NEW n \in Due
  PROVE  /\ Kind(n) \in Seq(Byte) /\ IsDelta(Kind(n)) /\ ~IsFragment(Kind(n))
         /\ GetSequence(Kind(n)) = n.to
         /\ stream.sender = "server" => Whole(n) \in Seq(Byte) /\ Whole(n) # << >>
<1>1. n \in ToSet(stream.messages) /\ IsDeltas /\ MayCode(n)
  BY DueType
<1>2. CASE stream.sender = "server"
  BY <1>1, <1>2, WholeRead DEF Kind, Nothing
<1>3. CASE stream.sender # "server"
  BY <1>1, <1>3, ClientWholeRead DEF Kind
<1> QED BY <1>2, <1>3

(* The same of every datagram of a message that may be sent: it is all of  *)
(* it, or a piece.                                                         *)
LEMMA DueDatagram ==
  ASSUME stream \in Streams, Queue, NEW n \in Due, NEW d, SentAs(d, n)
  PROVE  /\ d \in Seq(Byte) /\ GetSequence(d) = n.to
         /\ \/ d = Kind(n) /\ IsDelta(d) /\ ~IsFragment(d)
            \/ /\ stream.sender = "server" /\ IsFragment(d)
               /\ FragmentId(d) \in 0 .. Top - 1
               /\ Piece(d) \in PartsOf(n.to, Whole(n))
               /\ Piece(d).index = FragmentId(d) /\ Piece(d).seq = n.to
<1>1. n \in ToSet(stream.messages) /\ IsDeltas /\ n.to \in Sequence
  BY DueType
<1>2. CASE d = Kind(n)
  BY <1>2, KindRead
<1>3. CASE d # Kind(n)
  <2>1. stream.sender = "server"
    <3>1. ASSUME stream.sender = "client" PROVE FALSE
      BY <1>3, <3>1 DEF SentAs, Kind
    <3> QED BY <1>1, <3>1 DEF IsDeltas
  <2>2. FromServer(d, n) /\ d # Whole(n)
    BY <1>3, <2>1 DEF SentAs, Kind
  <2>3. PICK k \in 0 .. Top - 1 :
          HasPiece(Whole(n), k) /\ PieceOf(d, n.to, Whole(n), k)
    BY <2>2 DEF FromServer
  <2>4. Whole(n) \in Seq(Byte)
    BY <2>1, KindRead
  <2>5. IsFragment(d) /\ GetSequence(d) = n.to /\ FragmentId(d) = k
    BY <1>1, <2>3, <2>4, PieceRead
  <2>6. Piece(d) \in PartsOf(n.to, Whole(n))
    BY <1>1, <2>3, <2>4, PieceIsPart
  <2>7. Piece(d).index = FragmentId(d) /\ Piece(d).seq = GetSequence(d)
    BY DEF Piece
  <2>8. d \in Seq(Byte)
    BY <2>3 DEF PieceOf
  <2> QED BY <2>1, <2>3, <2>5, <2>6, <2>7, <2>8
<1> QED BY <1>2, <1>3

(* Its tag.                                                                *)
LEMMA TagOfDatagram ==
  ASSUME stream \in Streams, Queue, NEW m \in Due, NEW n \in Due,
         NEW d, SentAs(d, n)
  PROVE  /\ m = n /\ IsFragment(d) => /\ WireTag(m)[d] = FragmentId(d)
                                      /\ WireTag(m)[d] # None
         /\ ~(m = n /\ IsFragment(d)) => WireTag(m)[d] = None
<1>1. /\ d \in Seq(Byte) /\ GetSequence(d) = n.to
      /\ IsFragment(d) => FragmentId(d) \in 0 .. Top - 1
  BY DueDatagram
<1>2. n.to = m.to => n = m
  BY DueType, MessagesInOrder
<1>3. WireTag(m)[d] = IF IsFragment(d) /\ GetSequence(d) = m.to
                      THEN FragmentId(d) ELSE None
  BY <1>1 DEF WireTag
<1>4. \A k \in 0 .. Top - 1 : k # None
  BY Sizes DEF None
<1> QED BY <1>1, <1>2, <1>3, <1>4

(* The buffer's pieces are of one message that may be sent.                *)
OfDue(b) ==
  b.parts # << >> =>
    \E m \in Due : b.current = m.to /\ b.parts \in Seq(PartsOf(m.to, Whole(m)))

(* A piece that is added joins the others of its message if that is the    *)
(* newest; another leaves them.                                            *)
LEMMA AddedToNewest ==
  ASSUME stream \in Streams, Queue, NEW m, Newest(m), NEW n \in Due,
         NEW b \in Buffers, OfDue(b), NEW f, f.seq = n.to
  PROVE  /\ n = m => PartsFor(m, Parts!AddPacket(b, f)) = Append(PartsFor(m, b), f)
         /\ n # m => PartsFor(m, Parts!AddPacket(b, f)) = PartsFor(m, b)
<1> DEFINE c == Parts!AddPacket(b, f)
           kept == IF Parts!Less(b.current, f.seq) THEN << >> ELSE b.parts
<1>1. /\ m \in Due /\ m.to \in Sequence /\ n.to \in Sequence
      /\ m \in ToSet(stream.messages) /\ n \in ToSet(stream.messages) /\ IsDeltas
  BY DueType DEF Newest
<1>2. \A x, y : Parts!Less(x, y) = Less(x, y)
  BY DEF Parts!Less, Less, Parts!Minus, Minus, Parts!Modulus, Modulus,
         Parts!MaxValue, MaxValue
<1>3. n.to = m.to => n = m
  BY <1>1, MessagesInOrder
<1>4. b.parts # << >> => b.current = m.to \/ Less(b.current, m.to)
  <2> SUFFICES ASSUME b.parts # << >> PROVE b.current = m.to \/ Less(b.current, m.to)
    OBVIOUS
  <2>1. PICK q \in Due : b.current = q.to
    BY DEF OfDue
  <2>2. q.to = m.to \/ Greater(m.to, q.to)
    BY DEF Newest
  <2>3. q.to \in Sequence
    BY DueType
  <2> QED BY <1>1, <2>1, <2>2, <2>3, OneIsNewer
<1>5. b \in [current : Sequence, parts : Seq(AnyPart)]
  BY DEF Buffers
<1>6. c = IF kept = << >> THEN [current |-> f.seq, parts |-> << f >>]
          ELSE IF b.current = f.seq THEN [b EXCEPT !.parts = Append(kept, f)]
          ELSE b
  BY DEF Parts!AddPacket
<1>7. << f >> # << >> /\ << f >> = Append(<< >>, f) /\ Append(b.parts, f) # << >>
  BY <1>5
<1>8. ASSUME n = m PROVE PartsFor(m, c) = Append(PartsFor(m, b), f)
  <2>1. CASE b.parts # << >> /\ b.current = m.to
    <3>1. ~Less(b.current, f.seq)
      BY <1>8, <2>1 DEF Less
    <3>2. kept = b.parts
      BY <1>2, <3>1
    <3> HIDE DEF kept
    <3>3. c = [b EXCEPT !.parts = Append(b.parts, f)]
      BY <1>6, <1>8, <2>1, <3>2
    <3>4. c.parts = Append(b.parts, f) /\ c.current = m.to
      BY <1>5, <2>1, <3>3
    <3> HIDE DEF c
    <3> QED BY <1>7, <2>1, <3>4 DEF PartsFor
  <2>2. CASE ~(b.parts # << >> /\ b.current = m.to)
    <3>1. kept = << >>
      <4>1. CASE b.parts = << >>
        BY <4>1
      <4>2. CASE b.parts # << >>
        <5>1. Less(b.current, f.seq)
          BY <1>4, <1>8, <2>2, <4>2
        <5> QED BY <1>2, <5>1
      <4> QED BY <4>1, <4>2
    <3> HIDE DEF kept
    <3>2. c = [current |-> f.seq, parts |-> << f >>]
      BY <1>6, <3>1
    <3>3. c.parts = << f >> /\ c.current = m.to
      BY <1>8, <3>2
    <3> HIDE DEF c
    <3> QED BY <1>7, <2>2, <3>3 DEF PartsFor
  <2> QED BY <2>1, <2>2
<1>9. ASSUME n # m PROVE PartsFor(m, c) = PartsFor(m, b)
  <2>0. n.to # m.to /\ Greater(m.to, n.to)
    BY <1>3, <1>9 DEF Newest
  <2>1. CASE b.parts # << >> /\ b.current = m.to
    <3>1. ~Less(m.to, n.to)
      BY <1>1, <2>0, OneIsNewer
    <3>2. kept = b.parts
      BY <1>2, <2>1, <3>1
    <3> HIDE DEF kept
    <3>3. c = b
      BY <1>6, <2>0, <2>1, <3>2
    <3> QED BY <3>3
  <2>2. CASE ~(b.parts # << >> /\ b.current = m.to)
    <3>1. PartsFor(m, b) = << >>
      BY <2>2 DEF PartsFor
    <3>2. CASE c = b
      BY <3>1, <3>2
    <3>3. CASE c # b
      <4>1. c.current = f.seq
        <5> HIDE DEF kept
        <5>1. \/ c = [current |-> f.seq, parts |-> << f >>]
              \/ c = [b EXCEPT !.parts = Append(kept, f)] /\ b.current = f.seq
          BY <1>6, <3>3
        <5> HIDE DEF c
        <5> QED BY <1>5, <5>1
      <4> HIDE DEF c
      <4>2. c.current # m.to
        BY <2>0, <4>1
      <4> QED BY <3>1, <4>2 DEF PartsFor
    <3> QED BY <3>2, <3>3
  <2> QED BY <2>1, <2>2
<1> QED BY <1>8, <1>9

(* Whatever is added, the pieces stay those of one message that may be     *)
(* sent.                                                                   *)
LEMMA AddedOfDue ==
  ASSUME stream \in Streams, Queue, NEW n \in Due,
         NEW b \in Buffers, OfDue(b), NEW f \in PartsOf(n.to, Whole(n))
  PROVE  OfDue(Parts!AddPacket(b, f))
<1> DEFINE c == Parts!AddPacket(b, f)
           kept == IF Parts!Less(b.current, f.seq) THEN << >> ELSE b.parts
<1>1. f.seq = n.to /\ n \in ToSet(stream.messages) /\ IsDeltas
  BY DueType DEF PartsOf, PartOf
<1>2. b \in [current : Sequence, parts : Seq(AnyPart)]
  BY DEF Buffers
<1>3. \/ kept = << >> /\ c = [current |-> f.seq, parts |-> << f >>]
      \/ /\ kept # << >> /\ b.current = f.seq
         /\ c = [b EXCEPT !.parts = Append(kept, f)]
      \/ c = b
  BY DEF Parts!AddPacket
<1>4. CASE c = b
  BY <1>4
<1>5. CASE kept = << >> /\ c = [current |-> f.seq, parts |-> << f >>]
  <2>1. c.current = n.to /\ c.parts = << f >>
    BY <1>1, <1>5
  <2>2. << f >> \in Seq(PartsOf(n.to, Whole(n)))
    OBVIOUS
  <2> HIDE DEF c
  <2>3. OfDue(c)
    BY <2>1, <2>2 DEF OfDue
  <2> QED BY <2>3 DEF c
<1>6. CASE /\ kept # << >> /\ b.current = f.seq
           /\ c = [b EXCEPT !.parts = Append(kept, f)]
  <2>1. kept = b.parts /\ b.parts # << >>
    BY <1>6
  <2>2. PICK m \in Due :
          b.current = m.to /\ b.parts \in Seq(PartsOf(m.to, Whole(m)))
    BY <2>1 DEF OfDue
  <2>3. m = n
    <3>1. m \in ToSet(stream.messages) /\ m.to = n.to
      BY <1>1, <1>6, <2>2, DueType
    <3> QED BY <1>1, <3>1, MessagesInOrder
  <2> HIDE DEF kept
  <2> DEFINE p == Append(b.parts, f)
  <2>4. p \in Seq(PartsOf(n.to, Whole(n)))
    BY <2>2, <2>3, SeqSteps
  <2> HIDE DEF p
  <2>5. c = [b EXCEPT !.parts = p]
    BY <1>6, <2>1 DEF p
  <2>6. c.current = n.to /\ c.parts = p
    BY <1>1, <1>2, <1>6, <2>5
  <2> HIDE DEF c
  <2>7. OfDue(c)
    BY <2>4, <2>6 DEF OfDue
  <2> QED BY <2>7 DEF c
<1> QED BY <1>3, <1>4, <1>5, <1>6

(* The pieces in the buffer of a message that may be sent are its own.     *)
LEMMA PartsForType ==
  ASSUME stream \in Streams, Queue, NEW m \in Due, NEW b, OfDue(b)
  PROVE  PartsFor(m, b) \in Seq(PartsOf(m.to, Whole(m)))
<1>1. CASE b.parts # << >> /\ b.current = m.to
  <2>1. PICK n \in Due :
          b.current = n.to /\ b.parts \in Seq(PartsOf(n.to, Whole(n)))
    BY <1>1 DEF OfDue
  <2>2. n = m
    <3>1. /\ n \in ToSet(stream.messages) /\ m \in ToSet(stream.messages)
          /\ n.to = m.to /\ IsDeltas
      BY <1>1, <2>1, DueType
    <3> QED BY <3>1, MessagesInOrder
  <2> QED BY <1>1, <2>1, <2>2 DEF PartsFor
<1>2. CASE ~(b.parts # << >> /\ b.current = m.to)
  <2>1. PartsFor(m, b) = << >>
    BY <1>2 DEF PartsFor
  <2> QED BY <2>1
<1> QED BY <1>1, <1>2

(* When the first datagram arrives: it is no piece of m, or it is one more *)
(* in the buffer, and maybe the last.                                      *)
LEMMA OneLess ==
  ASSUME NEW m, NEW w \in Seq(Seq(Byte)), w # << >>, NEW b, NEW c,
         Gathering(m, w, b), PartsFor(m, b) \in Seq(PartsOf(m.to, Whole(m)))
  PROVE  /\ (/\ WireTag(m)[Head(w)] = None
             /\ PartsFor(m, c) = PartsFor(m, b))
              => Gathering(m, Tail(w), c)
         /\ (/\ WireTag(m)[Head(w)] # None
             /\ Piece(Head(w)) \in PartsOf(m.to, Whole(m))
             /\ Piece(Head(w)).index = WireTag(m)[Head(w)]
             /\ PartsFor(m, c) = Append(PartsFor(m, b), Piece(Head(w))))
              => \/ Gathering(m, Tail(w), c)
                 \/ /\ Once(PartsFor(m, c), PartTag(m))
                    /\ Tags(PartsFor(m, c), PartTag(m)) = AllOf(m)
<1> DEFINE k == WireTag(m)[Head(w)]
           old == Tags(w, WireTag(m))
           new == Tags(Tail(w), WireTag(m))
           kept == Tags(PartsFor(m, b), PartTag(m))
<1>1. /\ Once(w, WireTag(m)) /\ Once(PartsFor(m, b), PartTag(m))
      /\ old \cap kept = {} /\ old # {} /\ old \cup kept = AllOf(m)
  BY DEF Gathering
<1>2. /\ Once(Tail(w), WireTag(m))
      /\ k = None => new = old
      /\ k # None => new = old \ {k} /\ k \in old
  BY <1>1, TagsOfTail
<1>3. ASSUME k = None, PartsFor(m, c) = PartsFor(m, b)
      PROVE  Gathering(m, Tail(w), c)
  BY <1>1, <1>2, <1>3 DEF Gathering
<1>4. ASSUME k # None,
             Piece(Head(w)) \in PartsOf(m.to, Whole(m)),
             Piece(Head(w)).index = k,
             PartsFor(m, c) = Append(PartsFor(m, b), Piece(Head(w)))
      PROVE  \/ Gathering(m, Tail(w), c)
             \/ /\ Once(PartsFor(m, c), PartTag(m))
                /\ Tags(PartsFor(m, c), PartTag(m)) = AllOf(m)
  <2> DEFINE p == Piece(Head(w))
             s == PartsFor(m, b)
  <2>1. PartTag(m)[p] = k
    BY <1>4 DEF PartTag, IndexOf
  <2>2. k \notin kept
    BY <1>1, <1>2, <1>4
  <2>3. /\ s \in Seq(PartsOf(m.to, Whole(m))) /\ p \in PartsOf(m.to, Whole(m))
        /\ Once(s, PartTag(m)) /\ PartTag(m)[p] # None
        /\ PartTag(m)[p] \notin Tags(s, PartTag(m))
    BY <1>1, <1>4, <2>1, <2>2
  <2> HIDE DEF p, s
  <2>4. /\ Once(Append(s, p), PartTag(m))
        /\ Tags(Append(s, p), PartTag(m)) = Tags(s, PartTag(m)) \cup {PartTag(m)[p]}
    BY <2>3, TagsOfAppend
  <2>5. /\ Once(PartsFor(m, c), PartTag(m))
        /\ Tags(PartsFor(m, c), PartTag(m)) = kept \cup {k}
    BY <1>4, <2>1, <2>4 DEF s, p
  <2> HIDE DEF k, old, new, kept
  <2>6. /\ new \cap (kept \cup {k}) = {} /\ new \cup (kept \cup {k}) = AllOf(m)
    BY <1>1, <1>2, <1>4
  <2>7. CASE new = {}
    BY <2>5, <2>6, <2>7
  <2>8. CASE new # {}
    <3>1. Tags(PartsFor(m, c), PartTag(m)) = kept \cup {k} /\ new = Tags(Tail(w), WireTag(m))
      BY <2>5 DEF new
    <3> QED BY <1>2, <2>5, <2>6, <2>8, <3>1 DEF Gathering
  <2> QED BY <2>7, <2>8
<1> QED BY <1>3, <1>4

(* When the buffer has all of m, it is joined to m.                        *)
LEMMA NewestJoined ==
  ASSUME stream \in Streams, Queue, stream.sender = "server", NEW m \in Due,
         NEW c, PartsFor(m, c) \in Seq(PartsOf(m.to, Whole(m))),
         AllOf(m) # {},
         Once(PartsFor(m, c), PartTag(m)),
         Tags(PartsFor(m, c), PartTag(m)) = AllOf(m)
  PROVE  Joined(c) = Kind(m)
<1>1. Whole(m) \in Seq(Byte) /\ Whole(m) # << >> /\ Kind(m) = Whole(m)
  BY KindRead DEF Kind
<1>2. PartsFor(m, c) = c.parts
  <2>1. PartsFor(m, c) # << >>
    <3>1. SUFFICES ASSUME PartsFor(m, c) = << >> PROVE FALSE
      OBVIOUS
    <3>2. Tags(<< >>, PartTag(m)) = {}
      BY DEF Tags
    <3> QED BY <3>1, <3>2
  <2> QED BY <2>1 DEF PartsFor
<1>3. Len(Whole(m)) < MaxTotalPayloadSize
  BY DueType, DatagramsOf
<1> QED BY <1>1, <1>2, <1>3, AllJoined DEF PartTag, AllOf

(* What was on the way comes from messages that may be sent, and so does   *)
(* what the receiver had.                                                  *)
Proper ==
  /\ \A i \in DOMAIN wire : \E n \in Due : SentAs(wire[i], n)
  /\ received \in Before /\ processed \in Before
  /\ OfDue(fragments)
  /\ last # Nothing => GetSequence(last) = received

(* The message is on the way, whole or in pieces.                          *)
Waiting(m) ==
  /\ received # m.to /\ processed # m.to
  /\ \/ \E i \in DOMAIN wire : wire[i] = Kind(m)
     \/ stream.sender = "server" /\ Gathering(m, wire, fragments)

(* It was given to DeltaParse, is kept for it, or is on the way.           *)
Arriving(m) ==
  \/ received = m.to /\ \E i \in DOMAIN got : got[i].to = m.to
  \/ /\ received = m.to /\ last # Nothing
     /\ stream.sender = "server" => Greater(m.to, processed)
  \/ Waiting(m)

OnlyDelayed == \A i \in DOMAIN faults : faults[i] = "delayed"

(* The invariant for NewestIsTaken, which only speaks of an empty network: *)
(* where the newest message is until then.                                 *)
Delivery ==
  IsDeltas => Proper /\ (OnlyDelayed => \A m : Newest(m) => Arriving(m))

(* What does not change while the stream is the same.                      *)
LEMMA SameStream ==
  ASSUME stream' = stream
  PROVE  /\ IsDeltas' <=> IsDeltas
         /\ Start' = Start
         /\ \A m : /\ Whole(m)' = Whole(m) /\ Kind(m)' = Kind(m)
                   /\ MaySend(m)' <=> MaySend(m)
                   /\ WireTag(m)' = WireTag(m) /\ PartTag(m)' = PartTag(m)
                   /\ AllOf(m)' = AllOf(m)
         /\ \A i, m : SentAs(wire'[i], m) => SentAs(wire[i], m)'
         /\ \A m : Gathering(m, wire', fragments') => Gathering(m, wire, fragments)'
<1>1. ASSUME NEW m PROVE /\ Hidden(m)' = Hidden(m)
                         /\ Whole(m)' = Whole(m)
                         /\ ClientWhole(m)' = ClientWhole(m)
  BY DEF Hidden, Whole, ClientWhole
<1>2. (IsDeltas' <=> IsDeltas) /\ Start' = Start
  BY DEF IsDeltas, Start
<1>3. ASSUME NEW m PROVE /\ Kind(m)' = Kind(m)
                         /\ MaySend(m)' <=> MaySend(m)
                         /\ WireTag(m)' = WireTag(m)
  BY <1>1 DEF Kind, MaySend, WireTag
<1>4. ASSUME NEW m PROVE PartTag(m)' = PartTag(m) /\ AllOf(m)' = AllOf(m)
  BY <1>1 DEF PartTag, AllOf
<1>5. ASSUME NEW i, NEW m, SentAs(wire'[i], m) PROVE SentAs(wire[i], m)'
  BY <1>1, <1>5 DEF SentAs, FromServer
<1>6. ASSUME NEW m, Gathering(m, wire', fragments') PROVE Gathering(m, wire, fragments)'
  BY <1>3, <1>4, <1>6 DEF Gathering
<1> QED BY <1>1, <1>2, <1>3, <1>4, <1>5, <1>6

(* What does not change while nothing more is sent.                        *)
LEMMA SameDue ==
  ASSUME stream' = stream, todo' = todo
  PROVE  Due' = Due /\ Before' = Before /\ \A m : Newest(m)' => Newest(m)
<1>1. SentMessages' = SentMessages
  BY NothingSent
<1>2. Due' = Due
  BY <1>1 DEF Due
<1>3. Before' = Before
  BY <1>2, SameStream DEF Before
<1> QED BY <1>2, <1>3 DEF Newest

(* At the beginning nothing was sent.                                      *)
LEMMA InitDelivery == Init => Delivery
<1> SUFFICES ASSUME Init, IsDeltas
             PROVE  Proper /\ \A m : ~Newest(m)
  BY DEF Delivery
<1>1. Len(stream.messages) \in Nat /\ todo = stream.messages
  BY StreamType DEF Init
<1>2. SentMessages = {}
  BY <1>1 DEF SentMessages
<1>3. Due = {}
  BY <1>2 DEF Due
<1>4. OfDue(fragments)
  BY DEF Init, OfDue, Parts!NoFragments
<1>5. received \in Before /\ processed \in Before
  BY DEF Init, Before, Start
<1>6. DOMAIN wire = {} /\ last = Nothing
  BY DEF Init
<1> QED BY <1>3, <1>4, <1>5, <1>6 DEF Proper, Newest

(* The message that is sent next: newer than all before it.                *)
LEMMA NextMessage ==
  ASSUME IInv, Send, IsDeltas, NEW m, m = Head(todo)
  PROVE  /\ m \in ToSet(stream.messages) /\ m.to \in Sequence
         /\ \A x \in Before : Greater(m.to, x)
         /\ \A n : n \in Due' <=> n \in Due \/ (n = m /\ MaySend(m))
<1> DEFINE M == stream.messages
           sent == Len(M) - Len(todo)
<1>1. stream \in Streams /\ Queue /\ todo # << >> /\ todo' = Tail(todo) /\ stream' = stream
  BY DEF IInv, Send
<1>2. /\ Len(M) \in Nat /\ Len(todo) \in Nat \ {0} /\ Len(todo) <= Len(M)
      /\ todo \in Seq(ToSet(M)) /\ DOMAIN M = 1 .. Len(M)
      /\ \A i \in 1 .. Len(todo) : todo[i] = M[sent + i]
  BY <1>1, StreamType DEF Queue
<1>3. m \in ToSet(M) /\ m = M[sent + 1]
  BY <1>1, <1>2
<1>4. SentMessages = { M[i] : i \in 1 .. sent }
  BY DEF SentMessages
<1>5. SentMessages' = { M[i] : i \in 1 .. sent + 1 }
  <2>1. Len(M) - Len(todo') = sent + 1
    BY <1>1, <1>2
  <2> QED BY <1>1, <2>1 DEF SentMessages
<1>6. sent \in Nat /\ sent + 1 \in 1 .. Len(M)
  BY <1>2
<1>7. SentMessages' = SentMessages \cup {m}
  <2> HIDE DEF sent, M
  <2>1. 1 .. sent + 1 = (1 .. sent) \cup {sent + 1}
    BY <1>6
  <2> QED BY <1>3, <1>4, <1>5, <2>1
<1> HIDE DEF sent
<1>8. ASSUME NEW x \in Before PROVE Greater(m.to, x)
  <2>1. CASE x = Start
    BY <1>1, <1>3, <1>6, <2>1, MessagesInOrder
  <2>2. CASE x # Start
    <3>1. PICK n \in Due : x = n.to
      BY <2>2 DEF Before
    <3>2. n \in SentMessages
      BY DEF Due
    <3>3. PICK i \in 1 .. sent : n = M[i]
      BY <1>4, <3>2
    <3>4. i \in 1 .. Len(M) /\ i < sent + 1
      BY <1>2, <1>6
    <3>5. Greater(M[sent + 1].to, M[i].to)
      BY <1>1, <1>6, <3>4, MessagesInOrder
    <3> QED BY <1>3, <3>1, <3>3, <3>5
  <2> QED BY <2>1, <2>2
<1>9. ASSUME NEW n PROVE n \in Due' <=> n \in Due \/ (n = m /\ MaySend(m))
  <2>1. n \in Due' <=> n \in SentMessages' /\ IsDeltas' /\ MaySend(n)'
    BY DEF Due, IsDeltas, MaySend, MayCode
  <2>2. (IsDeltas' <=> IsDeltas) /\ (MaySend(n)' <=> MaySend(n))
    BY <1>1, SameStream
  <2>3. n \in Due <=> n \in SentMessages /\ IsDeltas /\ MaySend(n)
    BY <1>1, DueType
  <2> QED BY <1>7, <2>1, <2>2, <2>3
<1>10. m.to \in Sequence
  BY <1>1, <1>3, MessageType
<1> QED BY <1>3, <1>8, <1>9, <1>10

(* A step that touches nothing of it leaves a message where it is.         *)
LEMMA ArrivingStays ==
  ASSUME NEW m, Arriving(m),
         UNCHANGED <<stream, wire, fragments, received, processed, last, got>>
  PROVE  Arriving(m)'
<1>1. ASSUME Waiting(m) PROVE Waiting(m)'
  <2>1. Kind(m)' = Kind(m)
    BY SameStream
  <2>2. ASSUME Gathering(m, wire, fragments) PROVE Gathering(m, wire, fragments)'
    <3>1. Gathering(m, wire', fragments')
      BY <2>2
    <3> QED BY <3>1, SameStream
  <2> QED BY <1>1, <2>1, <2>2 DEF Waiting
<1> QED BY <1>1 DEF Arriving

(* Of a message that is sent when it is the newest, everything is on the   *)
(* way.                                                                    *)
LEMMA AllSent ==
  ASSUME IInv, Proper, IsDeltas, stream.sender = "server",
         NEW m \in ToSet(stream.messages), m.to \in Sequence, MaySend(m),
         \A x \in Before : Greater(m.to, x),
         Len(Whole(m)) > SizeMaxPacketSize
  PROVE  Gathering(m, wire \o Datagrams(m), fragments)
<1> DEFINE D == Datagrams(m)
           tag == WireTag(m)
<1>1. /\ stream \in Streams /\ Queue /\ MayCode(m)
  BY DEF IInv, MaySend
<1>2. /\ Whole(m) \in Seq(Byte) /\ GetSequence(Whole(m)) = m.to
  BY <1>1, WholeRead
<1>3. D = Pieces(Whole(m)) /\ D \in Seq(Seq(Byte))
  <2>1. D = Pieces(Whole(m))
    BY <1>1, DatagramsOf
  <2>2. D \in Seq(Seq(Byte))
    BY <1>1, DatagramsType
  <2> QED BY <2>1, <2>2
<1>4. ASSUME NEW k \in 0 .. Top - 1, NEW d \in Seq(Byte),
             HasPiece(Whole(m), k), PieceOf(d, m.to, Whole(m), k)
      PROVE  tag[d] = k
  <2>1. IsFragment(d) /\ GetSequence(d) = m.to /\ FragmentId(d) = k
    BY <1>2, <1>4, PieceRead
  <2> QED BY <2>1 DEF WireTag
<1>5. Once(D, tag) /\ Tags(D, tag) = AllOf(m)
  <2> HIDE DEF tag, D
  <2>1. /\ Once(Pieces(Whole(m)), tag)
        /\ Tags(Pieces(Whole(m)), tag)
             = { k \in 0 .. Top - 1 : HasPiece(Whole(m), k) }
    BY <1>2, <1>4, AllPieces
  <2> QED BY <1>3, <2>1 DEF AllOf
<1>6. wire \in Seq(Seq(Byte))
  <2>1. OnWire \subseteq Seq(Byte) /\ wire \in Seq(OnWire)
    BY DEF OnWire, IInv
  <2> QED BY <2>1, SeqOfSubset
<1>7. m.to \notin Before
  BY DEF Greater
<1>8. Tags(wire, tag) = {}
  <2> SUFFICES ASSUME NEW i \in DOMAIN wire PROVE tag[wire[i]] = None
    BY DEF Tags
  <2>1. PICK n \in Due : SentAs(wire[i], n)
    BY DEF Proper
  <2>2. wire[i] \in Seq(Byte) /\ GetSequence(wire[i]) = n.to
    BY <1>1, <2>1, DueDatagram
  <2>3. n.to # m.to
    BY <1>7 DEF Before
  <2> QED BY <2>2, <2>3 DEF WireTag
<1>9. Once(wire \o D, tag) /\ Tags(wire \o D, tag) = AllOf(m)
  <2> HIDE DEF tag, D
  <2> QED BY <1>3, <1>5, <1>6, <1>8, TagsOfJoin
<1>10. PartsFor(m, fragments) = << >>
  <2> SUFFICES ASSUME fragments.parts # << >>, fragments.current = m.to PROVE FALSE
    BY DEF PartsFor
  <2>1. PICK n \in Due : fragments.current = n.to
    BY DEF Proper, OfDue
  <2> QED BY <1>7, <2>1 DEF Before
<1>11. AllOf(m) # {}
  <2>1. Len(Whole(m)) > 0
    BY <1>2, PacketBytesAssumption
  <2>2. 0 \in 0 .. Top - 1 /\ Offset(0) = 0
    BY Sizes DEF Offset
  <2> QED BY <2>1, <2>2 DEF AllOf, HasPiece
<1>12. /\ Once(<< >>, PartTag(m)) /\ Tags(<< >>, PartTag(m)) = {}
  BY DEF Once, Tags
<1> HIDE DEF D, tag
<1> QED BY <1>9, <1>10, <1>11, <1>12 DEF Gathering, D, tag

(* Send: the next message is the newest, if it may be sent.                *)
LEMMA SendDelivery == IInv /\ Delivery /\ Send => Delivery'
<1> SUFFICES ASSUME IInv, Delivery, Send, IsDeltas'
             PROVE  Proper' /\ (OnlyDelayed' => \A m : Newest(m)' => Arriving(m)')
  BY DEF Delivery
<1>0. PICK m : m = Head(todo)
  OBVIOUS
<1> DEFINE D == Datagrams(m)
<1>1. /\ stream \in Streams /\ Queue
      /\ stream' = stream /\ wire' = wire \o D
      /\ UNCHANGED <<faults, received, fragments, last, processed, got>>
  BY <1>0 DEF IInv, Send
<1>2. IsDeltas /\ Proper /\ (OnlyDelayed => \A n : Newest(n) => Arriving(n))
  BY <1>1, SameStream DEF Delivery
<1>3. /\ m \in ToSet(stream.messages) /\ m.to \in Sequence
      /\ \A x \in Before : Greater(m.to, x)
      /\ \A n : n \in Due' <=> n \in Due \/ (n = m /\ MaySend(m))
  BY <1>0, <1>2, NextMessage
<1>4. /\ D \in Seq(Seq(Byte)) /\ \A i \in DOMAIN D : SentAs(D[i], m)
      /\ ~MaySend(m) => D = << >>
  BY <1>1, <1>2, <1>3, DatagramsType, DatagramsOf
<1> HIDE DEF D
<1>5. wire \in Seq(Seq(Byte))
  <2>1. OnWire \subseteq Seq(Byte) /\ wire \in Seq(OnWire)
    BY DEF OnWire, IInv
  <2> QED BY <2>1, SeqOfSubset
<1>6. /\ Len(wire) \in Nat /\ Len(D) \in Nat /\ DOMAIN wire = 1 .. Len(wire)
      /\ DOMAIN D = 1 .. Len(D) /\ DOMAIN wire' = 1 .. Len(wire) + Len(D)
      /\ \A i \in DOMAIN wire : wire'[i] = wire[i]
      /\ \A i \in DOMAIN D : wire'[Len(wire) + i] = D[i]
  <2> DEFINE w == wire \o D
  <2>1. /\ Len(w) = Len(wire) + Len(D) /\ w \in Seq(Seq(Byte))
        /\ \A i \in 1 .. Len(wire) : w[i] = wire[i]
        /\ \A i \in 1 .. Len(D) : w[Len(wire) + i] = D[i]
    BY <1>4, <1>5, JoinElements, SeqSteps
  <2>2. wire' = w /\ DOMAIN w = 1 .. Len(w)
    BY <1>1, <2>1
  <2> HIDE DEF w
  <2>3. Len(wire) \in Nat /\ DOMAIN wire = 1 .. Len(wire)
    BY <1>5
  <2>4. Len(D) \in Nat /\ DOMAIN D = 1 .. Len(D)
    BY <1>4
  <2> QED BY <2>1, <2>2, <2>3, <2>4
<1>7. Proper'
  <2>1. Due \subseteq Due' /\ Before \subseteq Before'
    BY <1>1, <1>3, SameStream DEF Before
  <2>2. ASSUME NEW i \in DOMAIN wire' PROVE (\E n \in Due : SentAs(wire[i], n))'
    <3>1. CASE i \in DOMAIN wire
      <4>1. PICK n \in Due : SentAs(wire[i], n)
        BY <1>2, <3>1 DEF Proper
      <4>2. SentAs(wire'[i], n)
        BY <1>6, <3>1, <4>1
      <4>3. SentAs(wire[i], n)'
        BY <1>1, <4>2, SameStream
      <4> QED BY <2>1, <4>3
    <3>2. CASE i \notin DOMAIN wire
      <4>1. i - Len(wire) \in 1 .. Len(D) /\ i = Len(wire) + (i - Len(wire))
        BY <1>6, <3>2
      <4>2. i - Len(wire) \in DOMAIN D
        BY <1>6, <4>1
      <4>3. wire'[i] = D[i - Len(wire)]
        BY <1>6, <4>1, <4>2
      <4>4. MaySend(m)
        <5>1. D # << >>
          BY <4>2
        <5> QED BY <1>4, <5>1
      <4>5. SentAs(wire'[i], m)
        BY <1>4, <4>2, <4>3
      <4>6. SentAs(wire[i], m)'
        BY <1>1, <4>5, SameStream
      <4> QED BY <1>3, <4>4, <4>6
    <3> QED BY <3>1, <3>2
  <2>3. OfDue(fragments)'
    <3> SUFFICES ASSUME fragments.parts # << >>
                 PROVE  \E n \in Due' : /\ fragments.current = n.to
                                        /\ fragments.parts \in Seq(PartsOf(n.to, Whole(n)'))
      BY <1>1 DEF OfDue
    <3>1. PICK n \in Due : /\ fragments.current = n.to
                           /\ fragments.parts \in Seq(PartsOf(n.to, Whole(n)))
      BY <1>2 DEF Proper, OfDue
    <3> QED BY <1>1, <2>1, <3>1, SameStream
  <2> QED BY <1>1, <1>2, <2>1, <2>2, <2>3 DEF Proper
<1>8. ASSUME NEW n, Newest(n)', OnlyDelayed' PROVE Arriving(n)'
  <2>0. n \in Due' /\ \A q \in Due' : q.to = n.to \/ Greater(n.to, q.to)
    BY <1>8 DEF Newest
  <2>1. CASE n \in Due
    <3>1. n.to \in Sequence /\ n.to \in Before
      BY <1>1, <2>1, DueType DEF Before
    <3>2. ~MaySend(m)
      <4> SUFFICES ASSUME m \in Due' PROVE FALSE
        BY <1>3
      <4>1. m.to = n.to \/ Greater(n.to, m.to)
        BY <2>0
      <4> QED BY <1>3, <3>1, <4>1, OneIsNewer
    <3>3. wire' = wire
      BY <1>1, <1>4, <1>5, <3>2
    <3>4. Newest(n)
      BY <1>3, <2>0, <2>1 DEF Newest
    <3>5. Arriving(n)
      BY <1>1, <1>2, <1>8, <3>4 DEF OnlyDelayed
    <3> QED BY <1>1, <3>3, <3>5, ArrivingStays
  <2>2. CASE n \notin Due
    <3>1. n = m /\ MaySend(m)
      BY <1>3, <2>0, <2>2
    <3>2. received' # m.to /\ processed' # m.to
      BY <1>1, <1>2, <1>3 DEF Proper, Greater
    <3>3. CASE D = << Kind(m) >>
      <4>1. 1 \in DOMAIN D /\ D[1] = Kind(m)
        BY <3>3
      <4>2. Len(wire) + 1 \in DOMAIN wire' /\ wire'[Len(wire) + 1] = Kind(m)
        BY <1>6, <4>1
      <4>3. Kind(m)' = Kind(m)
        BY <1>1, SameStream
      <4> QED BY <3>1, <3>2, <4>2, <4>3 DEF Arriving, Waiting
    <3>4. CASE D # << Kind(m) >>
      <4>1. stream.sender = "server" /\ Len(Whole(m)) > SizeMaxPacketSize
        BY <1>1, <1>2, <1>3, <3>1, <3>4, DatagramsOf DEF IsDeltas, Kind, D
      <4>2. Gathering(m, wire', fragments')
        BY <1>1, <1>2, <1>3, <3>1, <4>1, AllSent DEF D
      <4>3. Gathering(m, wire, fragments)'
        BY <1>1, <4>2, SameStream
      <4> QED BY <1>1, <3>1, <3>2, <4>1, <4>3 DEF Arriving, Waiting
    <3> QED BY <3>3, <3>4
  <2> QED BY <2>1, <2>2
<1> QED BY <1>7, <1>8

(* What must be shown of a step that sends nothing.                        *)
LEMMA QuietProper ==
  ASSUME stream' = stream, todo' = todo,
         \A i \in DOMAIN wire' : \E n \in Due : SentAs(wire'[i], n),
         received' \in Before, processed' \in Before,
         OfDue(fragments'),
         last' # Nothing => GetSequence(last') = received'
  PROVE  Proper'
<1>1. Due' = Due /\ Before' = Before
  BY SameDue
<1>2. ASSUME NEW i \in DOMAIN wire' PROVE (\E n \in Due : SentAs(wire[i], n))'
  <2>1. PICK n \in Due : SentAs(wire'[i], n)
    OBVIOUS
  <2>2. SentAs(wire[i], n)'
    BY <2>1, SameStream
  <2> QED BY <1>1, <2>2
<1>3. OfDue(fragments)'
  <2> SUFFICES ASSUME fragments'.parts # << >>
               PROVE  \E n \in Due : /\ fragments'.current = n.to
                                     /\ fragments'.parts \in Seq(PartsOf(n.to, Whole(n)'))
    BY <1>1 DEF OfDue
  <2>1. PICK n \in Due : /\ fragments'.current = n.to
                         /\ fragments'.parts \in Seq(PartsOf(n.to, Whole(n)))
    BY DEF OfDue
  <2> QED BY <2>1, SameStream
<1> QED BY <1>1, <1>2, <1>3 DEF Proper

(* Losing, repeating and delaying: only the last keeps the promise, and it *)
(* leaves what is on the way.                                              *)
LEMMA FaultDelivery == IInv /\ Delivery /\ (Lose \/ Repeat \/ Delay) => Delivery'
<1> SUFFICES ASSUME IInv, Delivery, Lose \/ Repeat \/ Delay, IsDeltas'
             PROVE  Proper' /\ (OnlyDelayed' => \A m : Newest(m)' => Arriving(m)')
  BY DEF Delivery
<1> DEFINE S == { wire[j] : j \in DOMAIN wire }
<1>1. wire \in Seq(S) /\ wire \in Seq(Seq(Byte))
  <2>1. OnWire \subseteq Seq(Byte) /\ wire \in Seq(OnWire)
    BY DEF OnWire, IInv
  <2>2. wire \in Seq(Seq(Byte))
    BY <2>1, SeqOfSubset
  <2>3. wire \in Seq(S)
    BY <2>2
  <2> QED BY <2>2, <2>3
<1>2. PICK kind \in {"lost", "repeated", "delayed"},
           i \in DOMAIN wire, changed \in Seq(S) :
        /\ Fault(kind, changed)
        /\ kind = "delayed" => changed = Append(RemoveAt(wire, i), wire[i])
  <2> HIDE DEF S
  <2>1. ASSUME NEW i \in DOMAIN wire
        PROVE  /\ RemoveAt(wire, i) \in Seq(S) /\ Append(wire, wire[i]) \in Seq(S)
               /\ Append(RemoveAt(wire, i), wire[i]) \in Seq(S)
    <3>1. wire[i] \in S /\ RemoveAt(wire, i) \in Seq(S)
      BY <1>1, SeqSteps
    <3> QED BY <1>1, <3>1, SeqSteps
  <2>2. CASE Lose
    <3>1. PICK i \in DOMAIN wire : Fault("lost", RemoveAt(wire, i))
      BY <2>2 DEF Lose
    <3> QED BY <2>1, <3>1
  <2>3. CASE Repeat
    <3>1. PICK i \in DOMAIN wire : Fault("repeated", Append(wire, wire[i]))
      BY <2>3 DEF Repeat
    <3> QED BY <2>1, <3>1
  <2>4. CASE Delay
    <3>1. PICK i \in DOMAIN wire :
            Fault("delayed", Append(RemoveAt(wire, i), wire[i]))
      BY <2>4 DEF Delay
    <3> QED BY <2>1, <3>1
  <2> QED BY <2>2, <2>3, <2>4
<1>3. /\ stream' = stream /\ todo' = todo /\ wire' = changed
      /\ faults' = Append(faults, kind)
      /\ UNCHANGED <<received, fragments, last, processed, got>>
  BY <1>2 DEF Fault
<1>4. IsDeltas /\ Proper /\ (OnlyDelayed => \A n : Newest(n) => Arriving(n))
  BY <1>3, SameStream DEF Delivery
<1>5. Proper'
  <2>1. ASSUME NEW j \in DOMAIN wire' PROVE \E n \in Due : SentAs(wire'[j], n)
    <3>1. wire'[j] \in S
      <4> HIDE DEF S
      <4> QED BY <1>3
    <3>2. PICK l \in DOMAIN wire : wire'[j] = wire[l]
      BY <3>1
    <3> QED BY <1>4, <3>2 DEF Proper
  <2>2. /\ received' \in Before /\ processed' \in Before /\ OfDue(fragments')
        /\ last' # Nothing => GetSequence(last') = received'
    BY <1>3, <1>4 DEF Proper
  <2> QED BY <1>3, <2>1, <2>2, QuietProper
<1>6. ASSUME NEW m, Newest(m)', OnlyDelayed' PROVE Arriving(m)'
  <2>1. Newest(m)
    BY <1>3, <1>6, SameDue
  <2>2. /\ Len(faults) \in Nat /\ DOMAIN faults = 1 .. Len(faults)
        /\ DOMAIN faults' = 1 .. Len(faults) + 1
        /\ \A j \in DOMAIN faults : faults'[j] = faults[j]
        /\ faults'[Len(faults) + 1] = kind
    <3>1. \E T : faults \in Seq(T)
      BY DEF IInv
    <3> QED BY <1>3, <3>1
  <2>3. OnlyDelayed /\ kind = "delayed"
    BY <1>6, <2>2 DEF OnlyDelayed
  <2>4. wire' = Append(RemoveAt(wire, i), wire[i])
    BY <1>2, <1>3, <2>3
  <2>5. /\ Range(wire') = Range(wire)
        /\ \A tag : /\ Tags(wire', tag) = Tags(wire, tag)
                    /\ Once(wire, tag) => Once(wire', tag)
    <3> HIDE DEF S
    <3>1. changed = ToEnd(wire, i)
      BY <1>3, <2>4 DEF ToEnd
    <3>2. wire \in Seq(Seq(Byte))
      BY <1>1
    <3>3. Range(changed) = Range(wire)
      BY <3>1, <3>2, TagsOfPutLast
    <3>4. \A tag : /\ Tags(changed, tag) = Tags(wire, tag)
                   /\ Once(wire, tag) => Once(changed, tag)
      BY <3>1, <3>2, TagsOfPutLast
    <3> QED BY <1>3, <3>3, <3>4
  <2>6. Arriving(m)
    BY <1>4, <2>1, <2>3
  <2>7. ASSUME Waiting(m) PROVE Waiting(m)'
    <3>1. Kind(m)' = Kind(m)
      BY <1>3, SameStream
    <3>2. ASSUME Gathering(m, wire, fragments) PROVE Gathering(m, wire, fragments)'
      <4>1. Gathering(m, wire', fragments')
        BY <1>3, <2>5, <3>2 DEF Gathering
      <4> QED BY <1>3, <4>1, SameStream
    <3>3. ASSUME \E j \in DOMAIN wire : wire[j] = Kind(m)
          PROVE  (\E j \in DOMAIN wire : wire[j] = Kind(m))'
      <4>1. \E j \in DOMAIN wire' : wire'[j] = Kind(m)
        BY <2>5, <3>3 DEF Range
      <4> QED BY <3>1, <4>1
    <3> QED BY <1>3, <2>7, <3>2, <3>3 DEF Waiting
  <2> QED BY <1>3, <2>6, <2>7 DEF Arriving
<1> QED BY <1>5, <1>6

(* Take: what is kept is given to DeltaParse, or is no longer new.         *)
LEMMA TakeDelivery == IInv /\ Delivery /\ Take => Delivery'
<1> SUFFICES ASSUME IInv, Delivery, Take, IsDeltas'
             PROVE  Proper' /\ (OnlyDelayed' => \A m : Newest(m)' => Arriving(m)')
  BY DEF Delivery
<1>1. /\ stream \in Streams /\ Queue /\ last # Nothing /\ last' = Nothing
      /\ UNCHANGED <<stream, todo, wire, faults, received, fragments>>
  BY DEF IInv, Take
<1>2. IsDeltas /\ Proper /\ (OnlyDelayed => \A n : Newest(n) => Arriving(n))
  BY <1>1, SameStream DEF Delivery
<1>3. GetSequence(last) = received
  BY <1>1, <1>2 DEF Proper
<1>4. \/ /\ stream.sender = "server" => Greater(received, processed)
         /\ \E g : g.to = received /\ got' = Append(got, g)
         /\ processed' = received
      \/ /\ stream.sender = "server" /\ ~Greater(received, processed)
         /\ got' = got /\ processed' = processed
  <2> DEFINE g == [base |-> GetSequenceBase(last), to |-> GetSequence(last),
                   payload |-> Revealed(last)]
  <2>1. g.to = received
    BY <1>3
  <2>2. IF stream.sender = "server" => Greater(received, processed)
        THEN got' = Append(got, g) /\ processed' = received
        ELSE got' = got /\ processed' = processed
    BY <1>3 DEF Take
  <2> HIDE DEF g
  <2> QED BY <2>1, <2>2
<1>5. Proper'
  <2>1. \A i \in DOMAIN wire' : \E n \in Due : SentAs(wire'[i], n)
    BY <1>1, <1>2 DEF Proper
  <2>2. /\ received' \in Before /\ processed' \in Before /\ OfDue(fragments')
        /\ last' # Nothing => GetSequence(last') = received'
    BY <1>1, <1>2, <1>4 DEF Proper
  <2> QED BY <1>1, <2>1, <2>2, QuietProper
<1>6. ASSUME NEW m, Newest(m)', OnlyDelayed' PROVE Arriving(m)'
  <2>1. Arriving(m)
    BY <1>1, <1>2, <1>6, SameDue DEF OnlyDelayed
  <2>2. ASSUME NEW g, got' = Append(got, g)
        PROVE  /\ \A i \in DOMAIN got : i \in DOMAIN got' /\ got'[i] = got[i]
               /\ \E i \in DOMAIN got' : got'[i] = g
    <3>1. \E T : got \in Seq(T)
      BY DEF IInv
    <3>2. Len(got) + 1 \in DOMAIN got' /\ got'[Len(got) + 1] = g
      BY <2>2, <3>1
    <3>3. \A i \in DOMAIN got : i \in DOMAIN got' /\ got'[i] = got[i]
      BY <2>2, <3>1
    <3> QED BY <3>2, <3>3
  <2>3. CASE received = m.to /\ \E i \in DOMAIN got : got[i].to = m.to
    <3>1. \E i \in DOMAIN got' : got'[i].to = m.to
      BY <1>4, <2>2, <2>3
    <3> QED BY <1>1, <2>3, <3>1 DEF Arriving
  <2>4. CASE /\ received = m.to /\ last # Nothing
             /\ stream.sender = "server" => Greater(m.to, processed)
    <3>1. PICK g : g.to = received /\ got' = Append(got, g)
      BY <1>4, <2>4
    <3>2. \E i \in DOMAIN got' : got'[i].to = m.to
      BY <2>2, <2>4, <3>1
    <3> QED BY <1>1, <2>4, <3>2 DEF Arriving
  <2>5. CASE Waiting(m)
    <3>1. received' # m.to /\ processed' # m.to
      BY <1>1, <1>4, <2>5 DEF Waiting
    <3>2. Kind(m)' = Kind(m)
      BY <1>1, SameStream
    <3>3. ASSUME Gathering(m, wire, fragments) PROVE Gathering(m, wire, fragments)'
      <4>1. Gathering(m, wire', fragments')
        BY <1>1, <3>3
      <4> QED BY <1>1, <4>1, SameStream
    <3> QED BY <1>1, <2>5, <3>1, <3>2, <3>3 DEF Arriving, Waiting
  <2> QED BY <2>1, <2>3, <2>4, <2>5 DEF Arriving
<1> QED BY <1>5, <1>6

(* What Keep does with nothing, or with all of a message that may be sent. *)
LEMMA KeepDue ==
  ASSUME stream \in Streams, Queue, received \in Before,
         last # Nothing => GetSequence(last) = received,
         NEW data, data = Nothing \/ \E q \in Due : data = Kind(q), Keep(data)
  PROVE  /\ received' \in Before
         /\ last' # Nothing => GetSequence(last') = received'
         /\ \/ last' = last /\ received' = received
            \/ /\ last' # Nothing /\ Greater(received', received)
               /\ \E q \in Due : received' = q.to
         /\ \A q \in Due :
              data = Kind(q) /\ Greater(q.to, received) => received' = q.to
<1>1. ~IsDelta(Nothing)
  <2>1. Len(Nothing) = 0
    BY DEF Nothing
  <2> QED BY <2>1 DEF IsDelta, OffsetDeltaPayload
<1>2. \A q \in Due : /\ IsDelta(Kind(q)) /\ GetSequence(Kind(q)) = q.to
                     /\ q.to \in Before
  BY KindRead DEF Before
<1>3. CASE IsDelta(data) /\ Greater(GetSequence(data), received)
  <2>1. last' = data /\ received' = GetSequence(data)
    BY <1>3 DEF Keep
  <2>2. data # Nothing
    BY <1>1, <1>3
  <2>3. PICK q \in Due : data = Kind(q)
    BY <2>2
  <2>4. received' = q.to /\ q.to \in Before
    BY <1>2, <2>1, <2>3
  <2>5. \A n \in Due : data = Kind(n) => received' = n.to
    BY <1>2, <2>1
  <2> QED BY <1>3, <2>1, <2>2, <2>4, <2>5
<1>4. CASE ~(IsDelta(data) /\ Greater(GetSequence(data), received))
  <2>1. last' = last /\ received' = received
    BY <1>4 DEF Keep
  <2>2. \A q \in Due : ~(data = Kind(q) /\ Greater(q.to, received))
    BY <1>2, <1>4
  <2> QED BY <2>1, <2>2
<1> QED BY <1>3, <1>4

(* What a buffer is joined to.                                             *)
LEMMA JoinedDue ==
  ASSUME stream \in Streams, Queue, stream.sender = "server", NEW b, OfDue(b)
  PROVE  Joined(b) = Nothing \/ \E q \in Due : Joined(b) = Kind(q)
<1>1. CASE b.parts = << >>
  BY <1>1 DEF Joined
<1>2. CASE b.parts # << >>
  <2>1. PICK q \in Due : b.parts \in Seq(PartsOf(q.to, Whole(q)))
    BY <1>2 DEF OfDue
  <2>2. Whole(q) \in Seq(Byte) /\ Kind(q) = Whole(q)
    BY KindRead DEF Kind
  <2>3. Joined(b) \in {Nothing, Whole(q)}
    BY <2>1, <2>2, JoinedIsWhole
  <2> QED BY <2>2, <2>3
<1> QED BY <1>1, <1>2

(* Receive: the first datagram on the way.  It is ignored, or kept, or one *)
(* more piece.                                                             *)
LEMMA Received ==
  ASSUME IInv, Proper, IsDeltas, Receive, NEW d, d = Head(wire),
         NEW n \in Due, SentAs(d, n)
  PROVE  /\ OfDue(fragments')
         /\ \/ /\ d = Kind(n) /\ ~IsFragment(d)
               /\ Keep(d) /\ fragments' = fragments
            \/ /\ stream.sender = "server" /\ IsFragment(d)
               /\ Greater(n.to, received)
               /\ fragments' = Parts!AddPacket(fragments, Piece(d))
               /\ Keep(Joined(fragments'))
               /\ \/ Joined(fragments') = Nothing
                  \/ \E q \in Due : Joined(fragments') = Kind(q)
            \/ /\ stream.sender = "server" /\ IsFragment(d)
               /\ ~Greater(n.to, received)
               /\ UNCHANGED <<fragments, last, received>>
<1>1. /\ stream \in Streams /\ Queue /\ fragments \in Buffers /\ OfDue(fragments)
      /\ Process(d)
  BY DEF IInv, Receive, Proper
<1>2. /\ GetSequence(d) = n.to
      /\ \/ d = Kind(n) /\ ~IsFragment(d)
         \/ /\ stream.sender = "server" /\ IsFragment(d)
            /\ Piece(d) \in PartsOf(n.to, Whole(n))
  BY <1>1, DueDatagram
<1>3. CASE ~IsFragment(d)
  <2>1. Keep(d) /\ fragments' = fragments
    BY <1>1, <1>3 DEF Process
  <2> QED BY <1>1, <1>2, <1>3, <2>1
<1>4. CASE IsFragment(d) /\ ~Greater(n.to, received)
  <2>1. UNCHANGED <<fragments, last, received>>
    BY <1>1, <1>2, <1>4 DEF Process
  <2> QED BY <1>1, <1>2, <1>4, <2>1
<1>5. CASE IsFragment(d) /\ Greater(n.to, received)
  <2>1. /\ fragments' = Parts!AddPacket(fragments, Piece(d))
        /\ Keep(Joined(fragments'))
    BY <1>1, <1>2, <1>5 DEF Process
  <2>2. OfDue(Parts!AddPacket(fragments, Piece(d)))
    BY <1>1, <1>2, <1>5, AddedOfDue
  <2>3. OfDue(fragments')
    BY <2>1, <2>2
  <2>4. \/ Joined(fragments') = Nothing
        \/ \E q \in Due : Joined(fragments') = Kind(q)
    BY <1>1, <1>2, <1>5, <2>3, JoinedDue
  <2> QED BY <1>2, <1>5, <2>1, <2>3, <2>4
<1> QED BY <1>3, <1>4, <1>5

(* The newest message is not passed over.                                  *)
LEMMA ReceiveDelivery == IInv /\ Delivery /\ Receive => Delivery'
<1> SUFFICES ASSUME IInv, Delivery, Receive, IsDeltas'
             PROVE  Proper' /\ (OnlyDelayed' => \A m : Newest(m)' => Arriving(m)')
  BY DEF Delivery
<1>1. /\ stream \in Streams /\ Queue /\ wire # << >> /\ wire' = Tail(wire)
      /\ fragments \in Buffers /\ processed \in Sequence
      /\ UNCHANGED <<stream, todo, faults, processed, got>>
  BY DEF IInv, Receive
<1>2. IsDeltas /\ Proper /\ (OnlyDelayed => \A n : Newest(n) => Arriving(n))
  BY <1>1, SameStream DEF Delivery
<1>3. wire \in Seq(Seq(Byte))
  <2>1. OnWire \subseteq Seq(Byte) /\ wire \in Seq(OnWire)
    BY DEF OnWire, IInv
  <2> QED BY <2>1, SeqOfSubset
<1>4. PICK d : d = Head(wire)
  OBVIOUS
<1>5. /\ Len(wire) \in Nat /\ DOMAIN wire = 1 .. Len(wire) /\ 1 \in DOMAIN wire
      /\ d = wire[1] /\ DOMAIN wire' = 1 .. Len(wire) - 1
      /\ \A i \in DOMAIN wire' : wire'[i] = wire[i + 1]
  <2> DEFINE t == Tail(wire)
  <2>1. /\ Len(wire) \in Nat /\ DOMAIN wire = 1 .. Len(wire) /\ 1 \in DOMAIN wire
        /\ Head(wire) = wire[1] /\ DOMAIN t = 1 .. Len(wire) - 1
        /\ \A i \in DOMAIN t : t[i] = wire[i + 1]
    BY <1>1, <1>3
  <2>2. wire' = t
    BY <1>1
  <2> HIDE DEF t
  <2> QED BY <1>4, <2>1, <2>2
<1>6. PICK n \in Due : SentAs(d, n)
  BY <1>2, <1>5 DEF Proper
<1>7. /\ OfDue(fragments')
      /\ \/ /\ d = Kind(n) /\ ~IsFragment(d)
            /\ Keep(d) /\ fragments' = fragments
         \/ /\ stream.sender = "server" /\ IsFragment(d)
            /\ Greater(n.to, received)
            /\ fragments' = Parts!AddPacket(fragments, Piece(d))
            /\ Keep(Joined(fragments'))
            /\ \/ Joined(fragments') = Nothing
               \/ \E q \in Due : Joined(fragments') = Kind(q)
         \/ /\ stream.sender = "server" /\ IsFragment(d)
            /\ ~Greater(n.to, received)
            /\ UNCHANGED <<fragments, last, received>>
  BY <1>2, <1>4, <1>6, Received
<1>8. received \in Before /\ (last # Nothing => GetSequence(last) = received)
  BY <1>2 DEF Proper
<1>9. /\ received' \in Before
      /\ last' # Nothing => GetSequence(last') = received'
      /\ \/ last' = last /\ received' = received
         \/ /\ last' # Nothing /\ Greater(received', received)
            /\ \E q \in Due : received' = q.to
  <2>1. CASE Keep(d) /\ d = Kind(n)
    BY <1>1, <1>8, <2>1, KeepDue
  <2>2. CASE /\ Keep(Joined(fragments'))
             /\ \/ Joined(fragments') = Nothing
                \/ \E q \in Due : Joined(fragments') = Kind(q)
    BY <1>1, <1>8, <2>2, KeepDue
  <2>3. CASE last' = last /\ received' = received
    BY <1>8, <2>3
  <2> QED BY <1>7, <2>1, <2>2, <2>3
<1>10. Proper'
  <2>1. ASSUME NEW i \in DOMAIN wire' PROVE \E q \in Due : SentAs(wire'[i], q)
    <3>1. i + 1 \in DOMAIN wire /\ wire'[i] = wire[i + 1]
      BY <1>5
    <3> QED BY <1>2, <3>1 DEF Proper
  <2>2. processed' \in Before
    BY <1>1, <1>2 DEF Proper
  <2> QED BY <1>1, <1>7, <1>9, <2>1, <2>2, QuietProper
<1>11. ASSUME NEW m, Newest(m)', OnlyDelayed' PROVE Arriving(m)'
  <2>1. Newest(m) /\ Arriving(m)
    BY <1>1, <1>2, <1>11, SameDue DEF OnlyDelayed
  <2>2. m \in Due /\ m.to \in Sequence
    BY <1>1, <2>1, DueType DEF Newest
  <2>3. CASE received = m.to
    <3>1. last' = last /\ received' = received
      <4> SUFFICES ASSUME Greater(received', received),
                          \E q \in Due : received' = q.to
                   PROVE  FALSE
        BY <1>9
      <4>1. PICK q \in Due : received' = q.to
        OBVIOUS
      <4>2. q.to = m.to \/ Greater(m.to, q.to)
        BY <2>1 DEF Newest
      <4>3. q.to \in Sequence
        BY <1>1, DueType
      <4> QED BY <2>2, <2>3, <4>1, <4>2, <4>3, OneIsNewer
    <3>2. ~Waiting(m)
      BY <2>3 DEF Waiting
    <3> QED BY <1>1, <2>1, <2>3, <3>1, <3>2 DEF Arriving
  <2>4. CASE received # m.to /\ received' = m.to
    <3>1. last' # Nothing
      BY <1>9, <2>4
    <3>2. Waiting(m)
      BY <2>1, <2>4 DEF Arriving
    <3>3. Greater(m.to, processed)
      <4>1. processed \in Before /\ processed # m.to
        BY <1>2, <3>2 DEF Proper, Waiting
      <4> QED BY <1>1, <2>1, <4>1, NewestIsNewer
    <3> QED BY <1>1, <2>4, <3>1, <3>3 DEF Arriving
  <2>5. CASE received # m.to /\ received' # m.to
    <3>1. Waiting(m)
      BY <2>1, <2>5 DEF Arriving
    <3>2. Greater(m.to, received)
      BY <1>1, <1>8, <2>1, <2>5, NewestIsNewer
    <3>3. received' # m.to /\ processed' # m.to
      BY <1>1, <2>5, <3>1 DEF Waiting
    <3>4. Kind(m)' = Kind(m)
      BY <1>1, SameStream
    <3>5. CASE \E i \in DOMAIN wire : wire[i] = Kind(m)
      <4>1. PICK i \in DOMAIN wire : wire[i] = Kind(m)
        BY <3>5
      <4>2. ~IsFragment(Kind(m))
        BY <1>1, <2>2, KindRead
      <4>3. i # 1
        <5> SUFFICES ASSUME d = Kind(m) PROVE FALSE
          BY <1>5, <4>1
        <5>1. Keep(d)
          BY <1>7, <4>2
        <5> QED BY <1>1, <1>8, <2>2, <2>5, <3>2, <5>1, KeepDue
      <4>4. i - 1 \in DOMAIN wire' /\ wire'[i - 1] = Kind(m)
        <5>1. i - 1 \in DOMAIN wire' /\ (i - 1) + 1 = i
          BY <1>5, <4>3
        <5> QED BY <1>5, <4>1, <5>1
      <4> QED BY <3>3, <3>4, <4>4 DEF Arriving, Waiting
    <3>6. CASE stream.sender = "server" /\ Gathering(m, wire, fragments)
      <4>1. Gathering(m, wire', fragments')
        <5>1. /\ PartsFor(m, fragments) \in Seq(PartsOf(m.to, Whole(m)))
              /\ PartsFor(m, fragments') \in Seq(PartsOf(m.to, Whole(m)))
          BY <1>1, <1>2, <1>7, <2>2, PartsForType DEF Proper
        <5>2. CASE m = n /\ IsFragment(d)
          <6>1. /\ fragments' = Parts!AddPacket(fragments, Piece(d))
                /\ Keep(Joined(fragments'))
            BY <1>7, <3>2, <5>2
          <6>2. /\ WireTag(m)[d] = FragmentId(d) /\ WireTag(m)[d] # None
                /\ Piece(d) \in PartsOf(m.to, Whole(m))
                /\ Piece(d).index = FragmentId(d) /\ Piece(d).seq = n.to
            BY <1>1, <1>6, <2>2, <5>2, TagOfDatagram, DueDatagram
          <6>3. PartsFor(m, Parts!AddPacket(fragments, Piece(d)))
                  = Append(PartsFor(m, fragments), Piece(d))
            BY <1>1, <1>2, <2>1, <5>2, <6>2, AddedToNewest DEF Proper
          <6>4. \/ Gathering(m, Tail(wire), fragments')
                \/ /\ Once(PartsFor(m, fragments'), PartTag(m))
                   /\ Tags(PartsFor(m, fragments'), PartTag(m)) = AllOf(m)
            BY <1>1, <1>3, <1>4, <3>6, <5>1, <6>1, <6>2, <6>3, OneLess
          <6>5. CASE /\ Once(PartsFor(m, fragments'), PartTag(m))
                     /\ Tags(PartsFor(m, fragments'), PartTag(m)) = AllOf(m)
            <7>1. AllOf(m) # {}
              BY <3>6 DEF Gathering
            <7>2. Joined(fragments') = Kind(m)
              BY <1>1, <2>2, <3>6, <5>1, <6>5, <7>1, NewestJoined
            <7>3. received' = m.to
              BY <1>1, <1>8, <2>2, <3>2, <6>1, <7>2, KeepDue
            <7> QED BY <2>5, <7>3
          <6> QED BY <1>1, <6>4, <6>5
        <5>3. CASE ~(m = n /\ IsFragment(d))
          <6>1. WireTag(m)[d] = None
            BY <1>1, <1>6, <2>2, <5>3, TagOfDatagram
          <6>2. PartsFor(m, fragments') = PartsFor(m, fragments)
            <7>1. CASE fragments' = fragments
              BY <7>1
            <7>2. CASE /\ IsFragment(d)
                       /\ fragments' = Parts!AddPacket(fragments, Piece(d))
              <8>1. n # m /\ Piece(d).seq = n.to
                <9>1. Piece(d).seq = GetSequence(d)
                  BY DEF Piece
                <9> QED BY <1>1, <1>6, <5>3, <7>2, <9>1, DueDatagram
              <8>2. PartsFor(m, Parts!AddPacket(fragments, Piece(d)))
                      = PartsFor(m, fragments)
                BY <1>1, <1>2, <2>1, <8>1, AddedToNewest DEF Proper
              <8> QED BY <7>2, <8>2
            <7> QED BY <1>7, <7>1, <7>2
          <6> QED BY <1>1, <1>3, <1>4, <3>6, <5>1, <6>1, <6>2, OneLess
        <5> QED BY <5>2, <5>3
      <4>2. Gathering(m, wire, fragments)'
        BY <1>1, <4>1, SameStream
      <4> QED BY <1>1, <3>3, <3>6, <4>2 DEF Arriving, Waiting
    <3> QED BY <3>1, <3>5, <3>6 DEF Waiting
  <2> QED BY <2>3, <2>4, <2>5
<1> QED BY <1>10, <1>11

(* A step that changes nothing.                                            *)
LEMMA StutterDelivery == IInv /\ Delivery /\ UNCHANGED vars => Delivery'
<1> SUFFICES ASSUME IInv, Delivery, UNCHANGED vars, IsDeltas'
             PROVE  Proper' /\ (OnlyDelayed' => \A m : Newest(m)' => Arriving(m)')
  BY DEF Delivery
<1>1. UNCHANGED <<stream, todo, wire, faults, received, fragments, last, processed, got>>
  BY DEF vars
<1>2. IsDeltas /\ Proper /\ (OnlyDelayed => \A n : Newest(n) => Arriving(n))
  BY <1>1, SameStream DEF Delivery
<1>3. Proper'
  <2>1. \A i \in DOMAIN wire' : \E n \in Due : SentAs(wire'[i], n)
    BY <1>1, <1>2 DEF Proper
  <2>2. /\ received' \in Before /\ processed' \in Before /\ OfDue(fragments')
        /\ last' # Nothing => GetSequence(last') = received'
    BY <1>1, <1>2 DEF Proper
  <2> QED BY <1>1, <2>1, <2>2, QuietProper
<1>4. ASSUME NEW m, Newest(m)', OnlyDelayed' PROVE Arriving(m)'
  <2>1. Arriving(m)
    BY <1>1, <1>2, <1>4, SameDue DEF OnlyDelayed
  <2> QED BY <1>1, <2>1, ArrivingStays
<1> QED BY <1>3, <1>4

(* Once nothing is on the way, the newest message that may be sent was     *)
(* given to DeltaParse, if the network only delayed.                       *)
THEOREM NewestArrives == Spec => []NewestIsTaken
<1>1. Init => Delivery
  BY InitDelivery
<1>2. IInv /\ Delivery /\ [Next]_vars => Delivery'
  BY SendDelivery, FaultDelivery, ReceiveDelivery, TakeDelivery, StutterDelivery
     DEF Next
<1>3. IInv /\ Delivery => NewestIsTaken
  <2> SUFFICES ASSUME IInv, Delivery, wire = << >>, last = Nothing, OnlyDelayed,
                      NEW m \in Due
               PROVE  \/ \E n \in Due : Greater(n.to, m.to)
                      \/ \E i \in DOMAIN got : got[i].to = m.to
    BY DEF NewestIsTaken, OnlyDelayed
  <2>1. stream \in Streams /\ Queue
    BY DEF IInv
  <2>2. CASE Newest(m)
    <3>1. Arriving(m)
      BY <2>1, <2>2, DueType DEF Delivery
    <3>2. ~Waiting(m)
      <4>1. Tags(<< >>, WireTag(m)) = {}
        BY DEF Tags
      <4>2. ~Gathering(m, wire, fragments)
        BY <4>1 DEF Gathering
      <4> QED BY <4>2 DEF Waiting
    <3> QED BY <3>1, <3>2 DEF Arriving
  <2>3. CASE ~Newest(m)
    BY <2>1, <2>3, NewestOrOlder
  <2> QED BY <2>2, <2>3
<1> QED BY <1>1, <1>2, <1>3, Inductive, PTL DEF Spec

=============================================================================
