--------------------------- MODULE MCPayloadStream ---------------------------
(***************************************************************************)
(* Bytes of five bits: sequences are 0 .. 511, a distance is at most 31.   *)
(* A datagram has at most five bytes, two of them payload of a fragment.   *)
(***************************************************************************)
EXTENDS PayloadStream, Bitwise

MCXor(a, b) == a ^^ b

(* Bytes that are all ones, all zeros, and all different.                  *)
MCOnes(n)  == [i \in 1 .. n |-> ByteSize - 1]
MCZeros(n) == [i \in 1 .. n |-> 0]
MCCount(n) == [i \in 1 .. n |-> (7 * i) % ByteSize]

MCMessage(to, ack, distance, payload, size) ==
  [to |-> to, base |-> MinusAssign(to, distance), ack |-> ack,
   payload |-> payload, size |-> size]

MCKeys == { <<0, 0, 0, 0, 9>>, <<31, 5, 16, 2, 9>> }

MCStream(sender, key, messages, maxFaults) ==
  [sender |-> sender, key |-> key, id |-> 0, messages |-> messages,
   maxFaults |-> maxFaults]

(* Headers: sequences around the bytes and the wrap, every kind of ack,    *)
(* distances up to the largest and one more.                               *)
MCHeaders ==
  { MCStream("server", key, << MCMessage(to, ack, distance, payload, 0) >>, 1) :
      key \in MCKeys, to \in {0, 31, 32, 511}, ack \in {0, 32, 496, 511, NoAck},
      distance \in {0, 1, 31, 32}, payload \in {MCCount(0), MCCount(6)} }

(* Sizes: one datagram, one byte more, a last piece that is full or not,   *)
(* the largest packet and one more.                                        *)
MCSizes ==
  { MCStream("server", key, << MCMessage(to, 32, 1, payload, 0) >>, 1) :
      key \in MCKeys, to \in {496, 511},
      payload \in UNION { {MCOnes(n), MCZeros(n), MCCount(n)} :
                            n \in {1, 2, 3, 23, 24, 25} } }

(* Two deltas, whose pieces mix, across the wrap of the sequence.          *)
MCPairs ==
  { MCStream("server", key,
             << MCMessage(511, 496, 1, first, 0),
                MCMessage(0, 0, 2, second, 0) >>, 2) :
      key \in MCKeys, first \in {MCCount(0), MCOnes(4), MCCount(7)},
      second \in {MCCount(0), MCCount(1), MCZeros(5)} }

MCCommands ==
  { MCStream("handshake", key, << [to |-> 0, cmd |-> cmd, payload |-> payload] >>, 1) :
      key \in MCKeys, cmd \in Commands, payload \in {MCOnes(0), MCOnes(2), MCCount(5)} }

(* A client numbers its connection 0; the sizes before Encode.             *)
MCClientStreams ==
  { MCStream("client", key, << MCMessage(to, ack, distance, MCCount(n), size) >>, 1) :
      key \in MCKeys, to \in {31, 511}, ack \in {0, 496}, distance \in {1, 32},
      n \in {1, 4}, size \in {MaxPacketSizeInBytes, MaxPacketSizeInBytes + 1} }

MCStreams == MCHeaders \cup MCSizes \cup MCPairs \cup MCCommands \cup MCClientStreams

=============================================================================
