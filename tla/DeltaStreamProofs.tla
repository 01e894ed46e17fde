------------------------- MODULE DeltaStreamProofs -------------------------
(***************************************************************************)
(* The delta transport of one connection, for every counter size, every    *)
(* limit on distances, delays and round trips and every way deltas are     *)
(* cut: both directions implement LatestDelivery, and no complete delta    *)
(* waits for a newer one.                                                  *)
(***************************************************************************)
EXTENDS DeltaStream, ConnectionProofs, FiniteSetTheorems

-----------------------------------------------------------------------------
(* The numbers a game was handed.                                          *)

(* Each was one of the sender's and larger than those before.              *)
Handed(held, first, newest) ==
  /\ held \in Seq(Nat)
  /\ \A k \in DOMAIN held : held[k] \in first .. newest
  /\ \A j, k \in DOMAIN held : j < k => held[j] < held[k]

(* The numbers that can be acked, that before the first standing for none. *)
Known(held, first) == Range(held) \cup {first - 1}

(* What is known ends in a newest number, the one before the first if      *)
(* nothing was handed.                                                     *)
LEMMA NewestKnown ==
  ASSUME NEW first \in Nat \ {0}, NEW newest \in Nat, first <= newest,
         NEW held, Handed(held, first, newest)
  PROVE  /\ Newest(held, first) \in Known(held, first)
         /\ \A k \in Known(held, first) : k \in Nat /\ k <= Newest(held, first)
         /\ Newest(held, first) \in first - 1 .. newest
         /\ held = << >> => Newest(held, first) = first - 1
         /\ held # << >> => Newest(held, first) >= first
         /\ Newest(held, first) >= first => Newest(held, first) \in Range(held)
         /\ \A k \in Range(held) : k >= first
<1>1. \A k \in Range(held) : k \in first .. newest
  BY DEF Handed, Range
<1>2. Known(held, first) \in SUBSET (0 .. newest)
  BY <1>1 DEF Known
<1>3. Known(held, first) # {}
  BY DEF Known
<1>4. /\ Newest(held, first) \in Known(held, first)
      /\ \A k \in Known(held, first) : Newest(held, first) >= k
  BY <1>2, <1>3, MaxOfBounded DEF Newest, Known
<1>5. ASSUME held = << >> PROVE Newest(held, first) = first - 1
  <2>1. Range(held) = {}
    BY <1>5 DEF Range
  <2> QED BY <2>1, <1>4 DEF Known
<1>6. ASSUME held # << >> PROVE Newest(held, first) >= first
  <2>1. 1 \in DOMAIN held
    BY <1>6 DEF Handed
  <2>2. held[1] \in Range(held)
    BY <2>1 DEF Range
  <2>3. held[1] >= first /\ Newest(held, first) >= held[1]
    BY <2>2, <1>1, <1>4 DEF Known
  <2>4. Newest(held, first) \in Nat /\ held[1] \in Nat
    BY <1>2, <1>4, <2>2, <1>1
  <2> QED BY <2>3, <2>4
<1> QED BY <1>1, <1>2, <1>4, <1>5, <1>6 DEF Known

(* A sender that goes on does not change what was handed.                  *)
LEMMA HandedLater ==
  ASSUME NEW first \in Nat, NEW newest \in Nat, NEW later \in Nat,
         newest <= later, NEW held, Handed(held, first, newest)
  PROVE  Handed(held, first, later)
BY DEF Handed

(* The game is handed a number that is newer than all before.              *)
LEMMA HandedNext ==
  ASSUME NEW first \in Nat \ {0}, NEW newest \in Nat, first <= newest,
         NEW held, Handed(held, first, newest),
         NEW n \in first .. newest, n > Newest(held, first)
  PROVE  /\ Handed(Append(held, n), first, newest)
         /\ Range(Append(held, n)) = Range(held) \cup {n}
         /\ Newest(Append(held, n), first) = n
         /\ \A k \in DOMAIN held : held[k] < n
<1> DEFINE longer == Append(held, n)
<1>1. /\ held \in Seq(Nat) /\ Len(held) \in Nat
      /\ DOMAIN held = 1 .. Len(held)
      /\ DOMAIN longer = 1 .. Len(held) + 1
      /\ longer \in Seq(Nat)
      /\ longer[Len(held) + 1] = n
      /\ \A k \in 1 .. Len(held) : longer[k] = held[k]
  BY DEF Handed
<1> HIDE DEF longer
<1>2. \A k \in DOMAIN held : held[k] < n
  <2>1. ASSUME NEW k \in DOMAIN held PROVE held[k] < n
    <3>1. held[k] \in Known(held, first)
      BY DEF Known, Range
    <3>2. held[k] \in Nat /\ held[k] <= Newest(held, first)
      BY <3>1, NewestKnown
    <3>3. Newest(held, first) \in Int
      BY NewestKnown
    <3> QED BY <3>2, <3>3
  <2> QED BY <2>1
<1>3. Range(longer) = Range(held) \cup {n}
  <2>1. ASSUME NEW x \in Range(longer) PROVE x \in Range(held) \cup {n}
    <3>1. PICK k \in DOMAIN longer : x = longer[k]
      BY DEF Range
    <3> QED BY <3>1, <1>1 DEF Range
  <2>2. ASSUME NEW x \in Range(held) PROVE x \in Range(longer)
    <3>1. PICK k \in DOMAIN held : x = held[k]
      BY DEF Range
    <3>2. k \in DOMAIN longer /\ longer[k] = x
      BY <3>1, <1>1
    <3> QED BY <3>2 DEF Range
  <2>3. n \in Range(longer)
    <3>1. Len(held) + 1 \in DOMAIN longer
      BY <1>1
    <3> QED BY <3>1, <1>1 DEF Range
  <2> QED BY <2>1, <2>2, <2>3
<1>4. Handed(longer, first, newest)
  <2>1. ASSUME NEW k \in DOMAIN longer PROVE longer[k] \in first .. newest
    BY <1>1 DEF Handed
  <2>2. ASSUME NEW j \in DOMAIN longer, NEW k \in DOMAIN longer, j < k
        PROVE  longer[j] < longer[k]
    <3>1. /\ j \in 1 .. Len(held) + 1 /\ k \in 1 .. Len(held) + 1
          /\ j \in 1 .. Len(held)
      BY <2>2, <1>1
    <3>2. longer[j] = held[j] /\ j \in DOMAIN held
      BY <3>1, <1>1
    <3>3. CASE k = Len(held) + 1
      BY <3>2, <3>3, <1>1, <1>2
    <3>4. CASE k \in 1 .. Len(held)
      <4>1. longer[k] = held[k] /\ k \in DOMAIN held
        BY <3>4, <1>1
      <4> QED BY <4>1, <3>2, <2>2 DEF Handed
    <3> QED BY <3>1, <3>3, <3>4, <1>1
  <2> QED BY <2>1, <2>2, <1>1 DEF Handed
<1>5. Newest(longer, first) = n
  <2>1. /\ Newest(longer, first) \in Known(longer, first)
        /\ \A k \in Known(longer, first) : k \in Nat /\ k <= Newest(longer, first)
    BY <1>4, NewestKnown
  <2>2. n \in Known(longer, first) /\ n <= Newest(longer, first)
    BY <2>1, <1>3 DEF Known
  <2>3. \A k \in Known(held, first) : k \in Nat /\ k <= Newest(held, first)
    BY NewestKnown
  <2>4. CASE Newest(longer, first) \in Known(held, first)
    <3>1. /\ Newest(longer, first) <= Newest(held, first)
          /\ Newest(longer, first) \in Nat
      BY <2>3, <2>4
    <3>2. Newest(held, first) \in Int
      BY NewestKnown
    <3> QED BY <3>1, <3>2, <2>2
  <2>5. CASE Newest(longer, first) = n
    BY <2>5
  <2> QED BY <2>1, <2>4, <2>5, <1>3 DEF Known
<1> QED BY <1>2, <1>3, <1>4, <1>5 DEF longer

-----------------------------------------------------------------------------
(* What is sent.                                                           *)

(* The number k of a stream that begins at first, on the wire: before      *)
(* there is one, both managers send the value of a new Sequence.           *)
SequenceOf(k, first) == IF k < first THEN 0 ELSE Wrap(k)

(* A delta of a stream that begins at first, for a game that holds held,   *)
(* when the sender's game holds otherHeld of the stream the other way.     *)
Good(d, first, held, otherFirst, otherHeld) ==
  /\ d \in DeltaPackets
  /\ d.data \in [n : Nat, base : Nat, distance : Nat, acked : Nat]
  /\ d.data # Stitched
  /\ d.data.n >= first
  /\ d.seq = Wrap(d.data.n)
  /\ d.data.base \in Range(held) \cup {d.data.n}
  /\ d.data.distance = d.data.n - d.data.base
  /\ d.data.acked \in Known(otherHeld, otherFirst)
  /\ d.ack = SequenceOf(d.data.acked, otherFirst)

(* It stays good as the games are handed more.                             *)
LEMMA GoodLater ==
  ASSUME NEW d, NEW first, NEW held, NEW otherFirst, NEW otherHeld,
         Good(d, first, held, otherFirst, otherHeld),
         NEW more, Range(held) \subseteq Range(more),
         NEW otherMore, Range(otherHeld) \subseteq Range(otherMore)
  PROVE  Good(d, first, more, otherFirst, otherMore)
BY DEF Good, Known

(* The sequence a number in the last half of the counter was sent as leads *)
(* back to the number.                                                     *)
LEMMA RecentOfAck ==
  ASSUME NEW n \in Nat, NEW a \in Nat, a <= n, n - a < Half
  PROVE  Recent(n, Wrap(a)) = a
BY MinusForward DEF Recent

(* The sequence zero leads to the last wrap.                               *)
LEMMA RecentZero ==
  ASSUME NEW n \in Nat
  PROVE  Recent(n, 0) \in Nat /\ Recent(n, 0) <= n
<1> DEFINE q == n \div Modulus
           r == Wrap(n)
<1>1. q \in Int /\ r \in 0 .. Modulus - 1 /\ n = Modulus * q + r
  BY ModulusType, DivideWithRest DEF Wrap
<1> HIDE DEF q, r
<1>2. Minus(r, 0) = r
  BY <1>1, MinusOfSmaller, ModulusType DEF Sequence, MaxValue
<1>3. n - r >= 0
  <2>1. SUFFICES ASSUME n - r < 0 PROVE FALSE
    BY <1>1, ModulusType
  <2>2. CASE q >= 0
    <3>1. Modulus * q >= Modulus * 0
      BY <2>2, <1>1, ModulusType, TimesAtLeast
    <3> QED BY <2>1, <3>1, <1>1, ModulusType
  <2>3. CASE -q >= 1
    <3>1. Modulus * (-q) >= Modulus * 1
      BY <2>3, <1>1, ModulusType, TimesAtLeast
    <3> QED BY <3>1, <1>1, ModulusType
  <2> QED BY <1>1, <2>2, <2>3
<1> QED BY <1>1, <1>2, <1>3, ModulusType DEF Recent, r

(* A delta is coded against the acked number a, if there is one, or        *)
(* against nothing, provided that the sequence zero, which the peer sends  *)
(* before it has anything to ack, is not the sequence of a recent state.   *)
LEMMA BaseIsKnown ==
  ASSUME NEW n \in Nat, NEW first \in Nat \ {0}, first <= n,
         NEW a \in first - 1 .. n, n - a < Half,
         NEW ack, ack = SequenceOf(a, first) \/ (ack = NoAck /\ a < first),
         a < first /\ ack # NoAck => \A k \in first .. n : Wrap(k) # 0,
         NEW base \in Bases(n, ack, first)
  PROVE  base \in {n, a} /\ base >= first
<1>1. CASE ack = NoAck
  BY <1>1 DEF Bases
<1>2. CASE ack # NoAck /\ a >= first
  <2>1. ack = Wrap(a)
    BY <1>2 DEF SequenceOf
  <2>2. Minus(Wrap(n), Wrap(a)) = n - a
    BY MinusForward
  <2>3. Recent(n, ack) = a
    BY <2>1, <2>2 DEF Recent
  <2> QED BY <1>2, <2>3 DEF Bases
<1>3. CASE ack # NoAck /\ a < first
  <2>1. ack = 0
    BY <1>3 DEF SequenceOf
  <2>2. Wrap(Recent(n, 0)) = 0
    BY WrapOfMultiple DEF Recent
  <2>3. Recent(n, 0) \in Int /\ Recent(n, 0) <= n
    <3>1. Wrap(n) \in Sequence /\ 0 \in Sequence
      BY WrapType, SequenceHasZero
    <3>2. Minus(Wrap(n), 0) = Wrap(n) - 0
      BY <3>1, MinusOfSmaller DEF Sequence
    <3> QED BY <3>1, <3>2 DEF Recent, Sequence
  <2>4. ~(Recent(n, 0) >= first)
    BY <2>2, <2>3, <1>3
  <2> QED BY <1>3, <2>1, <2>4 DEF Bases
<1> QED BY <1>1, <1>2, <1>3

(* What can be said of the acks and the number of a packet made of it.     *)
Coded(d, n, id, acking) ==
  d.data.n = n /\ d.data.acked = acking /\ d.id = id

(* A delta that is sent names the state it was coded against: it is not    *)
(* sent if its distance does not fit the byte.                             *)
LEMMA DeltaIsGood ==
  ASSUME NEW n \in Nat, NEW first \in Nat \ {0}, first <= n,
         NEW held, NEW a \in first - 1 .. n, n - a < Half, a \in Known(held, first),
         NEW ackOfPeer,
         ackOfPeer = SequenceOf(a, first) \/ (ackOfPeer = NoAck /\ a < first),
         a < first /\ ackOfPeer # NoAck => \A k \in first .. n : Wrap(k) # 0,
         NEW otherFirst \in Nat \ {0}, NEW otherHeld,
         NEW acking \in Nat, acking \in Known(otherHeld, otherFirst),
         NEW ack, ack = SequenceOf(acking, otherFirst),
         NEW id \in ConnectionId \cup {NoId},
         NEW last \in Nat, n <= last, NEW lastAcked \in Nat, acking <= lastAcked,
         Contents(last, lastAcked) \subseteq Payload,
         NEW d \in Deltas(n, ackOfPeer, first, ack, acking, id)
  PROVE  Good(d, first, held, otherFirst, otherHeld) /\ Coded(d, n, id, acking)
<1>1. PICK base \in Bases(n, ackOfPeer, first) :
             /\ Sendable(Minus(Wrap(n), Wrap(base)))
             /\ d = DeltaFor(n, base, ack, acking, id)
  BY DEF Deltas
<1>2. base \in {n, a} /\ base >= first
  BY BaseIsKnown
<1>3. base \in Nat /\ base <= n /\ n - base < Half
  BY <1>2, HalfAssumption
<1>4. Minus(Wrap(n), Wrap(base)) = n - base
  BY <1>3, MinusForward
<1>5. n - base \in 0 .. MaxDistance
  BY <1>1, <1>3, <1>4 DEF Sendable
<1>6. (n - base) % (MaxDistance + 1) = n - base
  <2>1. /\ MaxDistance + 1 \in Nat \ {0}
        /\ n - base \in 0 .. (MaxDistance + 1) - 1
        /\ n - base = (MaxDistance + 1) * 0 + (n - base)
    BY <1>5, <1>3, DeltaStreamAssumption
  <2> QED BY <2>1, RestIsUnique
<1> DEFINE data == [n |-> n, base |-> base, acked |-> acking, distance |-> n - base]
<1>7. d = [cmd |-> "Delta", seq |-> Wrap(n), ack |-> ack, id |-> id, data |-> data]
  BY <1>1, <1>4, <1>6 DEF DeltaFor, Delta
<1>8. data \in Contents(last, lastAcked)
  BY <1>3, <1>5 DEF Contents
<1>9. data \in Payload /\ data # Stitched
  BY <1>8, PacketsAssumption
<1>10. ack \in Sequence
  BY WrapType, SequenceHasZero DEF SequenceOf
<1>11. d \in DeltaPackets
  BY <1>7, <1>9, <1>10, WrapType DEF DeltaPackets
<1>12. d.data = data /\ d.seq = Wrap(n) /\ d.ack = ack /\ d.id = id
  BY <1>7
<1>13. /\ data.n = n /\ data.base = base /\ data.acked = acking
       /\ data.distance = n - base
       /\ data \in [n : Nat, base : Nat, distance : Nat, acked : Nat]
  BY <1>3, <1>5
<1> HIDE DEF data
<1>14. base \in Range(held) \cup {n}
  BY <1>2, <1>3 DEF Known
<1>15. Good(d, first, held, otherFirst, otherHeld)
  BY <1>2, <1>9, <1>11, <1>12, <1>13, <1>14 DEF Good
<1> QED BY <1>12, <1>13, <1>15 DEF Coded

-----------------------------------------------------------------------------
(* Pieces.                                                                 *)

(* The delta a datagram is, or is a piece of.                              *)
Whole(p) == IF IsFragment(p) THEN p.whole ELSE p

(* A command tells deltas and fragments apart.                             *)
LEMMA DeltaOrFragment ==
  /\ \A d \in DeltaPackets : IsDelta(d) /\ ~IsFragment(d) /\ Whole(d) = d
  /\ \A f \in FragmentPackets : IsFragment(f) /\ ~IsDelta(f) /\ Whole(f) = f.whole
BY DEF DeltaPackets, FragmentPackets, IsDelta, IsFragment, Whole

(* Every datagram a delta is sent in is the delta or a piece of it.        *)
LEMMA PieceOfDelta ==
  ASSUME NEW d \in DeltaPackets, NEW pieces \in Nat \ {0},
         NEW p \in FragmentPacket(d, pieces)
  PROVE  /\ p \in DeltaPackets \cup FragmentPackets
         /\ Whole(p) = d
         /\ IsFragment(p) => p.seq = p.whole.seq
         /\ IsFragment(p) <=> pieces # 1
<1>1. CASE pieces = 1
  BY <1>1, DeltaOrFragment DEF FragmentPacket
<1>2. CASE pieces # 1
  <2>1. PICK i \in 0 .. pieces - 1 : p = Fragment(d, i, i = pieces - 1)
    BY <1>2 DEF FragmentPacket
  <2>2. p = [cmd |-> "Fragment", seq |-> d.seq, index |-> i,
             last |-> i = pieces - 1, whole |-> d]
    BY <2>1 DEF Fragment
  <2>3. d.seq \in Sequence /\ i \in Nat /\ (i = pieces - 1) \in BOOLEAN
    BY DEF DeltaPackets
  <2>4. p \in FragmentPackets
    BY <2>2, <2>3 DEF FragmentPackets
  <2>5. p.whole = d /\ p.seq = d.seq
    BY <2>2
  <2> QED BY <1>2, <2>4, <2>5, DeltaOrFragment
<1> QED BY <1>1, <1>2

(* A buffer that holds pieces of one delta only.                           *)
Uniform(m) ==
  /\ \A p \in Range(m.parts) : p.seq = p.whole.seq /\ m.current = p.seq
  /\ \A p, q \in Range(m.parts) : p.whole = q.whole

(* What a piece f joins: nothing but pieces of the same delta, provided    *)
(* that pieces with one sequence are of one delta.                         *)
Joins(m, f, n) ==
  /\ Uniform(n)
  /\ Range(n.parts) \subseteq Range(m.parts) \cup {f}

(* AddPacket.                                                              *)
LEMMA AddPacketJoins ==
  ASSUME NEW m \in FragmentsType, NEW f \in FragmentPackets, Uniform(m),
         f.seq = f.whole.seq,
         \A p \in Range(m.parts) : p.seq = f.seq => p.whole = f.whole
  PROVE  Joins(m, f, AddPacket(m, f))
<1> DEFINE kept == IF Less(m.current, f.seq) THEN << >> ELSE m.parts
           n == AddPacket(m, f)
<1>1. /\ m.parts \in Seq(FragmentPackets)
      /\ m = [current |-> m.current, parts |-> m.parts]
  BY DEF FragmentsType
<1>2. CASE kept = << >>
  <2>1. n = [current |-> f.seq, parts |-> << f >>]
    BY <1>2 DEF AddPacket
  <2>2. Range(n.parts) = {f} /\ n.current = f.seq
    BY <2>1 DEF Range
  <2> QED BY <2>2 DEF Joins, Uniform
<1>3. CASE kept # << >> /\ m.current = f.seq
  <2>1. kept = m.parts
    BY <1>3
  <2>2. n = [current |-> m.current, parts |-> Append(m.parts, f)]
    BY <1>1, <1>3, <2>1 DEF AddPacket
  <2>3. Range(Append(m.parts, f)) \subseteq Range(m.parts) \cup {f}
    BY <1>1 DEF Range
  <2>4. \A p \in Range(m.parts) : p.whole = f.whole
    BY <1>3 DEF Uniform
  <2> QED BY <2>2, <2>3, <2>4, <1>3 DEF Joins, Uniform
<1>4. CASE kept # << >> /\ m.current # f.seq
  <2>1. n = m
    BY <1>4 DEF AddPacket
  <2> QED BY <2>1 DEF Joins
<1> QED BY <1>2, <1>3, <1>4

(* Such a buffer returns nothing or its delta, never a stitched one.       *)
LEMMA JoinedIsWhole ==
  ASSUME NEW m \in FragmentsType, Uniform(m)
  PROVE  \/ GetDefragmentedPacket(m) = NoPacket
         \/ \E p \in Range(m.parts) : GetDefragmentedPacket(m) = p.whole
<1> SUFFICES ASSUME Complete(m.parts)
             PROVE  \E p \in Range(m.parts) : GetDefragmentedPacket(m) = p.whole
  BY DEF GetDefragmentedPacket
<1>1. m.parts \in Seq(FragmentPackets)
  BY DEF FragmentsType
<1>2. ASSUME NEW i, Filled(m.parts, i) PROVE Sorted(m.parts, i) \in Range(m.parts)
  <2> DEFINE S == { k \in DOMAIN m.parts : m.parts[k].index = i }
  <2>1. Len(m.parts) \in Nat /\ DOMAIN m.parts = 1 .. Len(m.parts)
    BY <1>1
  <2>2. S \in SUBSET (0 .. Len(m.parts)) /\ S # {}
    BY <1>2, <2>1 DEF Filled
  <2>3. Max(S) \in S
    BY <2>1, <2>2, MaxOfBounded
  <2> QED BY <2>3 DEF Sorted, Range
<1> DEFINE first == Sorted(m.parts, 0)
<1>3. first \in Range(m.parts)
  BY <1>2 DEF Complete
<1>4. \A i \in 0 .. SortedSize(m.parts) - 1 : Sorted(m.parts, i).whole = first.whole
  <2>1. ASSUME NEW i \in 0 .. SortedSize(m.parts) - 1
        PROVE  Sorted(m.parts, i) \in Range(m.parts)
    BY <1>2 DEF Complete
  <2> QED BY <2>1, <1>3 DEF Uniform
<1>5. GetDefragmentedPacket(m) = first.whole
  BY <1>4 DEF GetDefragmentedPacket, Joined
<1> QED BY <1>3, <1>5

-----------------------------------------------------------------------------
(* One call of Process, once the handshake is over.                        *)

(* A connection c from which d was made by taking the delta e, or none.    *)
Took(e, d) == d.last = e /\ d.received = e.seq /\ d.ack = e.ack
TookNone(c, d) == d.last = c.last /\ d.received = c.received /\ d.ack = c.ack

(* ParseDelta with a delta or with nothing.                                *)
LEMMA ParseDeltaTakes ==
  ASSUME NEW c \in ConnectionType, NEW e \in DeltaPackets \cup {NoPacket}
  PROVE  /\ ParseDelta(c, e).fragments = c.fragments
         /\ ParseDelta(c, e).id = c.id
         /\ \/ /\ e \in DeltaPackets
               /\ Greater(e.seq, c.received)
               /\ Took(e, ParseDelta(c, e))
            \/ /\ e \in DeltaPackets => ~Greater(e.seq, c.received)
               /\ TookNone(c, ParseDelta(c, e))
<1>1. ~SaysDisconnect(c, e)
  BY DEF SaysDisconnect, ValidWithKey, DeltaPackets, NoPacket
<1>2. CASE IsNewDelta(c, e)
  <2>1. ParseDelta(c, e) = [c EXCEPT !.last = e, !.received = e.seq, !.ack = e.ack]
    BY <1>1, <1>2 DEF ParseDelta, TakeDelta
  <2>2. e \in DeltaPackets
    BY <1>2 DEF IsNewDelta, IsDelta, NoPacket
  <2> QED BY <1>2, <2>1, <2>2 DEF Took, ConnectionType, IsNewDelta
<1>3. CASE ~IsNewDelta(c, e)
  <2>1. ParseDelta(c, e) = c
    BY <1>1, <1>3 DEF ParseDelta
  <2> QED BY <1>3, <2>1, DeltaOrFragment DEF TookNone, IsNewDelta
<1> QED BY <1>2, <1>3

(* What a client makes of a delta or a piece of one.                       *)
ClientFed(c, p, d) ==
  /\ Sound(d)
  /\ d.state = "ConnectedToServer"
  /\ Joins(c.fragments, p, d.fragments)
  /\ d.fragments # c.fragments => IsFragment(p) /\ Greater(p.seq, c.received)
  /\ \/ TookNone(c, d)
     \/ \E e : /\ Took(e, d)
               /\ Greater(e.seq, c.received)
               /\ IF IsFragment(p)
                  THEN \E q \in Range(d.fragments.parts) : e = q.whole
                  ELSE e = p

(* Connection::Process of a client whose buffer is of one delta.           *)
LEMMA ClientProcess ==
  ASSUME NEW c, Sound(c), c.state = "ConnectedToServer", Uniform(c.fragments),
         NEW p \in DeltaPackets \cup FragmentPackets,
         IsFragment(p) => p.seq = p.whole.seq,
         IsFragment(p) => \A q \in Range(c.fragments.parts) :
                            q.seq = p.seq => q.whole = p.whole
  PROVE  ClientFed(c, p, Process(c, p, NoHandle).c)
<1> DEFINE r == ParseConnectedToServer(c, p)
<1>1. /\ c \in ConnectionType /\ c.fragments \in FragmentsType
      /\ p \in Packet /\ NoHandle \in Handles
  BY DEF Sound, ConnectionType, FragmentsType, Packet, Handles
<1>2. Parse(c, p, NoHandle) = r
  BY DEF Parse
<1>3. StepOf(c, NoHandle, r)
  BY <1>1, ParseConnectedToServerStep
<1>4. ASSUME r.c.state = "ConnectedToServer"
      PROVE  Process(c, p, NoHandle) = r /\ Sound(r.c)
  <2>1. Generate(r) = r
    BY <1>4 DEF Generate
  <2> QED BY <1>2, <1>3, <2>1 DEF Process, StepOf
<1>5. CASE p \in DeltaPackets
  <2>1. ~IsFragment(p)
    BY <1>5, DeltaOrFragment
  <2>2. r.c = ParseDelta(c, p)
    BY <2>1 DEF ParseConnectedToServer, Quiet
  <2>3. r.c.state = "ConnectedToServer"
    <3>1. ~SaysDisconnect(c, p)
      BY <1>5 DEF SaysDisconnect, ValidWithKey, DeltaPackets
    <3> QED BY <2>2, <3>1, <1>1, <1>5, TakeDeltaType DEF ParseDelta
  <2>4. Joins(c.fragments, p, c.fragments)
    BY DEF Joins
  <2>5. /\ r.c.fragments = c.fragments
        /\ (Took(p, r.c) /\ Greater(p.seq, c.received)) \/ TookNone(c, r.c)
    BY <1>1, <1>5, <2>2, ParseDeltaTakes
  <2> QED BY <1>4, <2>1, <2>3, <2>4, <2>5 DEF ClientFed
<1>6. CASE p \in FragmentPackets /\ ~Greater(p.seq, c.received)
  <2>1. r.c = c
    BY <1>6, DeltaOrFragment DEF ParseConnectedToServer, Quiet
  <2>2. Joins(c.fragments, p, c.fragments) /\ TookNone(c, c)
    BY DEF Joins, TookNone
  <2> QED BY <1>4, <2>1, <2>2 DEF ClientFed
<1>7. CASE p \in FragmentPackets /\ Greater(p.seq, c.received)
  <2> DEFINE fragments == AddPacket(c.fragments, p)
             joined == GetDefragmentedPacket(fragments)
             held == [c EXCEPT !.fragments = fragments]
  <2>1. IsFragment(p)
    BY <1>7, DeltaOrFragment
  <2>2. /\ fragments \in FragmentsType
        /\ joined \in DeltaPackets \cup {NoPacket}
    BY <1>1, <1>7, AddPacketType, GetDefragmentedPacketType
  <2>3. Joins(c.fragments, p, fragments)
    BY <1>1, <1>7, <2>1, AddPacketJoins
  <2>4. joined = NoPacket \/ \E q \in Range(fragments.parts) : joined = q.whole
    BY <2>2, <2>3, JoinedIsWhole DEF Joins
  <2>5. r.c = ParseDelta(held, joined)
    BY <1>7, <2>1 DEF ParseConnectedToServer, Quiet
  <2> HIDE DEF fragments, joined, r
  <2>6. /\ held \in ConnectionType /\ held.fragments = fragments
        /\ held.received = c.received /\ held.last = c.last /\ held.ack = c.ack
        /\ held.state = c.state
    BY <1>1, <2>2 DEF ConnectionType, FragmentsType
  <2> HIDE DEF held
  <2>7. r.c.state = "ConnectedToServer"
    <3>1. ~SaysDisconnect(held, joined)
      BY <2>2 DEF SaysDisconnect, ValidWithKey, DeltaPackets, NoPacket
    <3>2. IsDelta(joined) => joined \in DeltaPackets
      BY <2>2 DEF IsDelta, NoPacket
    <3> QED BY <2>5, <3>1, <3>2, <2>6, TakeDeltaType DEF ParseDelta, IsNewDelta
  <2>8. /\ r.c.fragments = held.fragments
        /\ \/ /\ joined \in DeltaPackets
              /\ Greater(joined.seq, held.received)
              /\ Took(joined, r.c)
           \/ TookNone(held, r.c)
    BY <2>2, <2>5, <2>6, ParseDeltaTakes
  <2>9. \/ TookNone(c, r.c)
        \/ /\ Took(joined, r.c) /\ Greater(joined.seq, c.received)
           /\ \E q \in Range(fragments.parts) : joined = q.whole
    BY <2>4, <2>6, <2>8 DEF TookNone, DeltaPackets, NoPacket
  <2>10. Process(c, p, NoHandle) = r /\ Sound(r.c)
    BY <1>4, <2>7 DEF r
  <2>11. \/ TookNone(c, r.c)
         \/ \E e : /\ Took(e, r.c)
                   /\ Greater(e.seq, c.received)
                   /\ \E q \in Range(r.c.fragments.parts) : e = q.whole
    BY <2>6, <2>8, <2>9
  <2>12. Joins(c.fragments, p, r.c.fragments)
    BY <2>3, <2>6, <2>8
  <2> QED BY <1>7, <2>1, <2>7, <2>10, <2>11, <2>12 DEF ClientFed
<1> QED BY <1>5, <1>6, <1>7

(* What a server, listening with a handle or connected, makes of a delta.  *)
ServerFed(c, p, d) ==
  /\ Sound(d)
  /\ d.state = "ConnectedToClient"
  /\ d.id = 0
  /\ \/ c.state = "Listening" /\ Took(p, d)
     \/ c.state # "Listening" /\ Greater(p.seq, c.received) /\ Took(p, d)
     \/ c.state # "Listening" /\ ~Greater(p.seq, c.received) /\ TookNone(c, d)

(* Connection::Process of a server.                                        *)
LEMMA ServerProcess ==
  ASSUME NEW c, Sound(c), NEW p \in DeltaPackets, p.id = 0,
         \/ c.state = "Listening" /\ c.count = 0 /\ c.handle # NoHandle
         \/ c.state = "ConnectedToClient" /\ c.id = 0
  PROVE  ServerFed(c, p, Process(c, p, NoHandle).c)
<1> DEFINE r == Parse(c, p, NoHandle)
<1>1. /\ c \in ConnectionType
      /\ p \in Packet /\ NoHandle \in Handles
      /\ IsDelta(p) /\ p.cmd = "Delta"
  BY DEF Sound, Packet, Handles, DeltaPackets, IsDelta
<1>2. StepOf(c, NoHandle, r)
  BY <1>1, ParseStep
<1>3. ASSUME r.c.state = "ConnectedToClient"
      PROVE  Process(c, p, NoHandle) = r /\ Sound(r.c)
  <2>1. Generate(r) = r
    BY <1>3 DEF Generate
  <2> QED BY <1>2, <2>1 DEF Process, StepOf
<1>4. CASE c.state = "Listening"
  <2>1. ~Flooded(c) /\ MayFinish(c, p)
    <3>1. HandshakeRetries \in Nat /\ FloodTrigger \in Nat /\ FloodTrigger >= 1
      BY Bounds, ConnectionAssumption
    <3>2. p.id # NoId
      BY PacketsAssumption, DeltaStreamAssumption
    <3> QED BY <1>4, <3>1, <3>2 DEF Flooded, MayFinish, HasJoined
  <2> DEFINE known == [c EXCEPT !.id = p.id]
             d == Reset(known, "ConnectedToClient")
  <2>2. r = Quiet(TakeDelta(d, p))
    BY <1>1, <1>4, <2>1 DEF Parse, ParseListening, ParseFirstDelta
  <2>3. known \in ConnectionType /\ known.id = 0
    BY <1>1, DeltaStreamAssumption DEF ConnectionType
  <2>4. d \in ConnectionType /\ d.state = "ConnectedToClient" /\ d.id = 0
    <3>1. "ConnectedToClient" \in States
      BY DEF States
    <3>2. d.id = known.id
      BY <2>3 DEF Reset, ConnectionType
    <3> QED BY <2>3, <3>1, <3>2, ResetType
  <2> HIDE DEF d
  <2>5. r.c = [d EXCEPT !.last = p, !.received = p.seq, !.ack = p.ack]
    BY <2>2 DEF Quiet, TakeDelta
  <2>6. Took(p, r.c) /\ r.c.state = "ConnectedToClient" /\ r.c.id = 0
    BY <2>4, <2>5 DEF ConnectionType, Took
  <2> QED BY <1>3, <1>4, <2>6 DEF ServerFed
<1>5. CASE c.state = "ConnectedToClient"
  <2>1. r.c = ParseDelta(c, p)
    BY <1>5 DEF Parse, ParseConnectedToClient, Quiet
  <2>2. r.c.state = "ConnectedToClient"
    <3>1. ~SaysDisconnect(c, p)
      BY <1>1 DEF SaysDisconnect, ValidWithKey
    <3> QED BY <2>1, <3>1, <1>1, <1>5, TakeDeltaType DEF ParseDelta
  <2>3. /\ r.c.id = c.id
        /\ \/ Greater(p.seq, c.received) /\ Took(p, r.c)
           \/ ~Greater(p.seq, c.received) /\ TookNone(c, r.c)
    BY <1>1, <2>1, ParseDeltaTakes
  <2> QED BY <1>3, <1>5, <2>2, <2>3 DEF ServerFed
<1> QED BY <1>4, <1>5

-----------------------------------------------------------------------------
(* The invariant.                                                          *)

(* The bounds of a behaviour, what the games were handed, and the acked    *)
(* numbers: known to the other game, and no older than a round trip.       *)
Games ==
  /\ stream \in Streams
  /\ sent \in BOOLEAN
  /\ tick \in FirstTick .. stream.maxTick
  /\ frame \in FirstFrame .. MaxFrame
  /\ Handed(seen, FirstTick, tick)
  /\ Handed(heard, FirstFrame, frame)
  /\ acked \in [tick : Nat, frame : Nat]
  /\ acked.tick \in Known(seen, FirstTick)
  /\ acked.frame \in Known(heard, FirstFrame)
  /\ tick - acked.tick < RoundTrip
  /\ frame - acked.frame < RoundTrip

(* A later delta does not ack less.                                        *)
Ordered(deltas) ==
  \A d, e \in deltas :
    /\ d.data.n = e.data.n => d = e
    /\ d.data.n < e.data.n => d.data.acked <= e.data.acked

Parts == client.conn.fragments.parts

(* The deltas of which a piece, or all, is on its way or in the buffer.    *)
Down == { Whole(p) : p \in toClient } \cup { p.whole : p \in Range(Parts) }

Downward ==
  /\ \A d \in Down :
       /\ Good(d, FirstTick, seen, FirstFrame, heard)
       /\ d.data.n <= tick
       /\ d.data.n = tick => sent
       /\ d.data.acked >= FirstFrame
  /\ Ordered(Down)

ToClient ==
  \A p \in toClient :
    /\ p \in DeltaPackets \cup FragmentPackets
    /\ IsFragment(p) => p.seq = p.whole.seq
    /\ tick - Whole(p).data.n < Lifetime
    /\ stream.pieces = {1} => ~IsFragment(p)
    /\ 1 \notin stream.pieces => IsFragment(p)

Upward ==
  /\ \A d \in toServer :
       /\ Good(d, FirstFrame, heard, FirstTick, seen)
       /\ d.data.n <= frame
       /\ frame - d.data.n < Lifetime
       /\ d.id = 0
  /\ Ordered(toServer)

(* A connection that took the number r last, of a stream of which held was *)
(* handed on.                                                              *)
Receives(c, r, first, newest, held, otherFirst, otherHeld) ==
  /\ Sound(c)
  /\ r \in Newest(held, first) .. newest
  /\ r >= first => c.received = Wrap(r)
  /\ c.last # NoPacket => /\ Good(c.last, first, held, otherFirst, otherHeld)
                          /\ c.last.data.n = r
                          /\ r > Newest(held, first)

(* The client's fragment buffer, of which all has arrived.  If every delta *)
(* is cut, it is not older than the last delta taken.                      *)
Buffer(r) ==
  /\ Uniform(client.conn.fragments)
  /\ \A p \in Range(Parts) : p.whole.data.n <= arrived.n
  /\ 1 \notin stream.pieces => \A p \in Range(Parts) : p.whole.data.n >= r
  /\ stream.pieces = {1} => Range(Parts) = {}

(* The client: what it knows to be acked is what the last delta said, and  *)
(* deltas still to come do not say less.                                   *)
ClientEnd(r) ==
  /\ client \in [conn : ConnectionType, processed : Sequence]
  /\ client.conn.state = "ConnectedToServer"
  /\ Receives(client.conn, r, FirstTick, tick, seen, FirstFrame, heard)
  /\ IF r < FirstTick
     THEN client.conn.ack = NoAck /\ acked.frame = FirstFrame - 1
     ELSE client.conn.ack = Wrap(acked.frame) /\ acked.frame >= FirstFrame
  /\ client.processed = SequenceOf(Newest(seen, FirstTick), FirstTick)
  /\ r < FirstTick => client.conn.received = 0
  /\ \A d \in Down : d.data.n > r => d.data.acked >= acked.frame
  /\ Buffer(r)
  /\ arrived = [n |-> arrived.n, indexes |-> arrived.indexes, last |-> arrived.last]
  /\ arrived.n \in r .. tick

(* The server, which is connected once it has taken a delta.               *)
ServerState(r) ==
  IF r < FirstFrame
  THEN /\ server.conn.state = "Listening"
       /\ server.conn.count = 0
       /\ server.conn.handle # NoHandle
       /\ server.conn.ack = NoAck
       /\ acked.tick = FirstTick - 1
  ELSE /\ server.conn.state = "ConnectedToClient"
       /\ server.conn.id = 0
       /\ server.conn.ack = SequenceOf(acked.tick, FirstTick)

ServerEnd(r) ==
  /\ server \in [conn : ConnectionType, lastAcked : Sequence]
  /\ ServerState(r)
  /\ Receives(server.conn, r, FirstFrame, frame, heard, FirstTick, seen)
  /\ server.conn.last = NoPacket => r = Newest(heard, FirstFrame)
  /\ server.lastAcked = SequenceOf(Newest(heard, FirstFrame), FirstFrame)
  /\ \A d \in toServer : d.data.n > r => d.data.acked >= acked.tick

IInv ==
  /\ Games
  /\ Downward
  /\ ToClient
  /\ Upward
  /\ \E r : ClientEnd(r)
  /\ \E r : ServerEnd(r)

-----------------------------------------------------------------------------
(* What a step keeps that leaves one end alone.                            *)

(* A connection goes on having received what it has.                       *)
LEMMA ReceivesLater ==
  ASSUME NEW c, NEW r, NEW first \in Nat \ {0}, NEW newest \in Nat, first <= newest,
         NEW held, Handed(held, first, newest), NEW otherFirst, NEW otherHeld,
         Receives(c, r, first, newest, held, otherFirst, otherHeld),
         NEW later \in Nat, newest <= later,
         NEW otherMore, Range(otherHeld) \subseteq Range(otherMore)
  PROVE  Receives(c, r, first, later, held, otherFirst, otherMore)
<1>1. Newest(held, first) \in Int
  BY NewestKnown
<1>2. r \in Newest(held, first) .. later
  BY <1>1 DEF Receives
<1> QED BY <1>2, GoodLater DEF Receives

(* A step of the server or the network, seen from the client.              *)
LEMMA ClientEndKept ==
  ASSUME Games, NEW r, ClientEnd(r),
         UNCHANGED <<stream, client, seen, arrived>>, acked'.frame = acked.frame,
         Range(heard) \subseteq Range(heard'),
         tick' \in Nat, tick <= tick',
         \A d \in Down' : d \in Down \/ d.data.acked >= acked.frame
  PROVE  ClientEnd(r)'
<1>1. /\ tick \in Nat /\ FirstTick \in Nat \ {0} /\ FirstTick <= tick
      /\ Handed(seen, FirstTick, tick)
  BY DeltaStreamAssumption DEF Games
<1>2. Receives(client.conn, r, FirstTick, tick', seen, FirstFrame, heard')
  BY <1>1, ReceivesLater DEF ClientEnd
<1>3. Buffer(r)'
  BY DEF ClientEnd, Buffer, Parts
<1>4. \A d \in Down' : d.data.n > r => d.data.acked >= acked.frame
  BY DEF ClientEnd
<1>5. r \in Int
  BY <1>1, NewestKnown DEF ClientEnd, Receives
<1>6. arrived'.n \in r .. tick'
  BY <1>1, <1>5 DEF ClientEnd
<1> QED BY <1>2, <1>3, <1>4, <1>6 DEF ClientEnd

(* A step of the client or the network, seen from the server.              *)
LEMMA ServerEndKept ==
  ASSUME Games, NEW r, ServerEnd(r),
         UNCHANGED <<server, heard>>, acked'.tick = acked.tick,
         Range(seen) \subseteq Range(seen'),
         frame' \in Nat, frame <= frame',
         \A d \in toServer' : d \in toServer \/ d.data.acked >= acked.tick
  PROVE  ServerEnd(r)'
<1>1. /\ frame \in Nat /\ FirstFrame \in Nat \ {0} /\ FirstFrame <= frame
      /\ Handed(heard, FirstFrame, frame)
  BY DeltaStreamAssumption DEF Games
<1>2. Receives(server.conn, r, FirstFrame, frame', heard, FirstTick, seen')
  BY <1>1, ReceivesLater DEF ServerEnd
<1>3. ServerState(r)'
  BY DEF ServerEnd, ServerState
<1>4. \A d \in toServer' : d.data.n > r => d.data.acked >= acked.tick
  BY DEF ServerEnd
<1> QED BY <1>2, <1>3, <1>4 DEF ServerEnd

(* No new delta for the client.                                            *)
LEMMA DownwardKept ==
  ASSUME Downward, Down' \subseteq Down,
         Range(seen) \subseteq Range(seen'), Range(heard) \subseteq Range(heard'),
         tick \in Nat, tick' \in Nat, tick <= tick', tick' = tick => sent' = sent
  PROVE  Downward'
<1>1. ASSUME NEW d \in Down'
      PROVE  /\ Good(d, FirstTick, seen', FirstFrame, heard')
             /\ d.data.n <= tick'
             /\ d.data.n = tick' => sent'
             /\ d.data.acked >= FirstFrame
  <2>1. d \in Down
    BY <1>1
  <2>2. Good(d, FirstTick, seen, FirstFrame, heard) /\ d.data.n \in Nat
    BY <2>1 DEF Downward, Good
  <2>3. Good(d, FirstTick, seen', FirstFrame, heard')
    BY <2>2, GoodLater
  <2> QED BY <2>1, <2>2, <2>3 DEF Downward
<1>2. Ordered(Down')
  BY DEF Downward, Ordered
<1> QED BY <1>1, <1>2 DEF Downward

(* No new delta for the server.                                            *)
LEMMA UpwardKept ==
  ASSUME Upward, toServer' \subseteq toServer, UNCHANGED frame,
         Range(seen) \subseteq Range(seen'), Range(heard) \subseteq Range(heard')
  PROVE  Upward'
<1>1. \A d \in toServer' : Good(d, FirstFrame, heard', FirstTick, seen')
  BY GoodLater DEF Upward
<1>2. Ordered(toServer')
  BY DEF Upward, Ordered
<1> QED BY <1>1, <1>2 DEF Upward

-----------------------------------------------------------------------------
(* How old a number can be.                                                *)

(* The numbers that sequences stand for, on the server's side.             *)
LEMMA TickNumbers ==
  ASSUME Games
  PROVE  /\ FirstTick \in Nat \ {0} /\ FirstFrame \in Nat \ {0}
         /\ tick \in Nat /\ FirstTick <= tick
         /\ frame \in Nat /\ FirstFrame <= frame
         /\ Handed(seen, FirstTick, tick)
         /\ Handed(heard, FirstFrame, frame)
         /\ acked.tick \in FirstTick - 1 .. tick /\ tick - acked.tick < Half
         /\ acked.frame \in FirstFrame - 1 .. frame /\ frame - acked.frame < Half
         /\ acked.tick <= Newest(seen, FirstTick)
         /\ acked.frame <= Newest(heard, FirstFrame)
         /\ Newest(seen, FirstTick) \in FirstTick - 1 .. tick
         /\ Newest(heard, FirstFrame) \in FirstFrame - 1 .. frame
<1>1. /\ FirstTick \in Nat \ {0} /\ FirstFrame \in Nat \ {0}
      /\ tick \in Nat /\ FirstTick <= tick
      /\ frame \in Nat /\ FirstFrame <= frame
      /\ Handed(seen, FirstTick, tick)
      /\ Handed(heard, FirstFrame, frame)
      /\ Half \in Nat /\ RoundTrip \in Nat /\ RoundTrip <= Half
  BY DeltaStreamAssumption, HalfAssumption DEF Games
<1>2. /\ acked.tick \in Nat /\ acked.tick <= Newest(seen, FirstTick)
      /\ Newest(seen, FirstTick) \in FirstTick - 1 .. tick
  BY <1>1, NewestKnown DEF Games
<1>3. /\ acked.frame \in Nat /\ acked.frame <= Newest(heard, FirstFrame)
      /\ Newest(heard, FirstFrame) \in FirstFrame - 1 .. frame
  BY <1>1, NewestKnown DEF Games
<1>4. acked.tick >= FirstTick - 1
  <2>1. \A k \in Range(seen) : k \in Nat /\ k >= FirstTick
    BY <1>1, NewestKnown DEF Known
  <2> QED BY <1>1, <2>1 DEF Games, Known
<1>5. acked.frame >= FirstFrame - 1
  <2>1. \A k \in Range(heard) : k \in Nat /\ k >= FirstFrame
    BY <1>1, NewestKnown DEF Known
  <2> QED BY <1>1, <2>1 DEF Games, Known
<1>6. tick - acked.tick < Half /\ frame - acked.frame < Half
  BY <1>1, <1>2, <1>3 DEF Games
<1>7. acked.tick <= tick /\ acked.frame <= frame
  BY <1>1, <1>2, <1>3
<1> QED BY <1>1, <1>2, <1>3, <1>4, <1>5, <1>6, <1>7

(* Every delta the client may yet take is less than half the sequences old.*)
LEMMA DownInTime ==
  ASSUME IInv, CutAlike, NEW r, ClientEnd(r)
  PROVE  /\ r \in FirstTick - 1 .. tick /\ tick - r < Half
         /\ \A d \in Down : /\ d.data.n \in FirstTick .. tick
                            /\ tick - d.data.n < Half
                            /\ d.seq = Wrap(d.data.n)
<1>0. Games /\ Downward /\ ToClient
  BY DEF IInv
<1>1. /\ tick \in Nat /\ FirstTick \in Nat
      /\ acked.tick \in Nat /\ tick - acked.tick < Half
      /\ acked.tick <= Newest(seen, FirstTick)
      /\ Newest(seen, FirstTick) \in FirstTick - 1 .. tick
      /\ Half \in Nat
  BY <1>0, TickNumbers, HalfAssumption DEF Games
<1>2. r \in FirstTick - 1 .. tick /\ tick - r < Half
  BY <1>1 DEF ClientEnd, Receives
<1>3. \A d \in Down : d.data.n \in FirstTick .. tick /\ d.seq = Wrap(d.data.n)
  BY <1>0, <1>1 DEF Downward, Good
<1>4. ASSUME NEW p \in toClient PROVE tick - Whole(p).data.n < Half
  <2>1. tick - Whole(p).data.n < Lifetime /\ Whole(p).data.n \in Nat
    BY <1>0, <1>3, <1>1 DEF ToClient, Down
  <2>2. Lifetime \in Nat /\ Lifetime <= Half
    BY DeltaStreamAssumption, <1>1
  <2> QED BY <2>1, <2>2, <1>1
<1>5. ASSUME NEW p \in Range(Parts) PROVE tick - p.whole.data.n < Half
  <2>1. p.whole.data.n \in FirstTick .. tick
    BY <1>3 DEF Down
  <2>2. stream \in Streams /\ tick <= stream.maxTick /\ stream.maxTick \in Nat
    BY <1>0, <1>1, DeltaStreamAssumption DEF Games
  <2>3. CASE stream.maxTick - FirstTick < Half
    BY <1>1, <2>1, <2>2, <2>3
  <2>4. CASE 1 \notin stream.pieces
    <3>1. p.whole.data.n >= r
      BY <2>4 DEF ClientEnd, Buffer
    <3> QED BY <1>1, <1>2, <2>1, <3>1
  <2>5. CASE stream.pieces = {1}
    BY <2>5 DEF ClientEnd, Buffer
  <2> QED BY <2>2, <2>3, <2>4, <2>5 DEF CutAlike
<1> QED BY <1>2, <1>3, <1>4, <1>5 DEF Down

(* The same of the frames the server may yet take.                         *)
LEMMA UpInTime ==
  ASSUME IInv, NEW r, ServerEnd(r)
  PROVE  /\ r \in FirstFrame - 1 .. frame /\ frame - r < Half
         /\ \A d \in toServer : /\ d.data.n \in FirstFrame .. frame
                                /\ frame - d.data.n < Half
                                /\ d.seq = Wrap(d.data.n)
<1>0. Games /\ Upward
  BY DEF IInv
<1>1. /\ frame \in Nat /\ FirstFrame \in Nat
      /\ acked.frame \in Nat /\ frame - acked.frame < Half
      /\ acked.frame <= Newest(heard, FirstFrame)
      /\ Newest(heard, FirstFrame) \in FirstFrame - 1 .. frame
      /\ Half \in Nat
  BY <1>0, TickNumbers, HalfAssumption DEF Games
<1>2. r \in FirstFrame - 1 .. frame /\ frame - r < Half
  BY <1>1 DEF ServerEnd, Receives
<1>3. ASSUME NEW d \in toServer
      PROVE  /\ d.data.n \in FirstFrame .. frame
             /\ frame - d.data.n < Half
             /\ d.seq = Wrap(d.data.n)
  <2>1. /\ d.data.n \in FirstFrame .. frame /\ frame - d.data.n < Lifetime
        /\ d.seq = Wrap(d.data.n)
    BY <1>0, <1>1 DEF Upward, Good
  <2>2. Lifetime \in Nat /\ Lifetime <= Half
    BY DeltaStreamAssumption, <1>1
  <2> QED BY <2>1, <2>2, <1>1
<1> QED BY <1>2, <1>3

-----------------------------------------------------------------------------
(* The steps.                                                              *)

(* A datagram's number is that of its delta.                               *)
LEMMA NumberOfWhole == \A p : NumberOf(p) = Whole(p).data.n
BY DEF NumberOf, Whole

(* The server's game moves on.                                             *)
LEMMA TickKeeps ==
  ASSUME IInv, Tick
  PROVE  IInv'
<1>0. Games /\ Downward /\ ToClient /\ Upward
  BY DEF IInv
<1>1. /\ tick' = tick + 1 /\ tick \in Nat /\ tick' \in Nat /\ FirstTick \in Nat
      /\ UNCHANGED <<stream, server, heard, frame, client, seen, arrived,
                     toServer, acked>>
      /\ toClient' \subseteq toClient
  BY <1>0, TickNumbers DEF Tick, clientVars
<1>2. Down' \subseteq Down
  BY <1>1 DEF Down, Parts
<1>3. Games'
  <2>1. Handed(seen, FirstTick, tick')
    BY <1>0, <1>1, TickNumbers, HandedLater
  <2>2. tick' \in FirstTick .. stream.maxTick
    <3>1. stream.maxTick \in Nat
      BY <1>0, DeltaStreamAssumption DEF Games
    <3> QED BY <1>0, <1>1, <3>1 DEF Tick, Games
  <2>3. tick' - acked.tick < RoundTrip
    <3>1. acked.tick \in Nat /\ RoundTrip \in Int
      BY <1>0, DeltaStreamAssumption, HalfAssumption DEF Games
    <3>2. tick + 1 - acked.tick < RoundTrip
      BY DEF Tick
    <3> QED BY <1>1, <3>1, <3>2
  <2>4. sent' \in BOOLEAN
    BY DEF Tick
  <2> HIDE DEF Tick
  <2> QED BY <1>0, <1>1, <2>1, <2>2, <2>3, <2>4 DEF Games
<1>4. Downward'
  BY <1>0, <1>1, <1>2, DownwardKept
<1>5. ToClient'
  BY <1>0, <1>1, NumberOfWhole DEF Tick, ToClient
<1>6. Upward'
  BY <1>0, <1>1, UpwardKept
<1>7. \E r : ClientEnd(r)'
  BY <1>0, <1>1, <1>2, ClientEndKept DEF IInv
<1>8. \E r : ServerEnd(r)'
  BY <1>0, <1>1, TickNumbers, ServerEndKept DEF IInv
<1> QED BY <1>3, <1>4, <1>5, <1>6, <1>7, <1>8 DEF IInv

(* A delta that is the newest of all acks no less than they do.            *)
LEMMA OrderedWithNewest ==
  ASSUME NEW deltas, Ordered(deltas), NEW d,
         d.data.n \in Int,
         \A e \in deltas : /\ e.data.n \in Int /\ e.data.n < d.data.n
                           /\ e.data.acked <= d.data.acked
  PROVE  Ordered(deltas \cup {d})
<1>1. ASSUME NEW e \in deltas \cup {d}, NEW f \in deltas \cup {d}
      PROVE  /\ e.data.n = f.data.n => e = f
             /\ e.data.n < f.data.n => e.data.acked <= f.data.acked
  <2>1. CASE e \in deltas /\ f \in deltas
    BY <2>1 DEF Ordered
  <2>2. CASE e \in deltas /\ f = d
    BY <2>2
  <2>3. CASE e = d /\ f \in deltas
    BY <2>3
  <2>4. CASE e = d /\ f = d
    BY <2>4
  <2> QED BY <2>1, <2>2, <2>3, <2>4
<1> QED BY <1>1 DEF Ordered

(* The server sends its newest state.                                      *)
LEMMA ServerSendKeeps ==
  ASSUME IInv, ZeroIsOld, ServerSend
  PROVE  /\ IInv'
         /\ \E delta \in DeltaPackets, pieces \in stream.pieces :
              /\ delta.data.n = tick
              /\ toClient' = toClient \cup FragmentPacket(delta, pieces)
<1>0. Games /\ Downward /\ ToClient /\ Upward
  BY DEF IInv
<1>1. PICK r : ServerEnd(r)
  BY DEF IInv
<1>2. PICK delta \in Deltas(tick, server.conn.ack, FirstTick, server.lastAcked,
                            Newest(heard, FirstFrame), NoId),
           pieces \in stream.pieces :
             toClient' = toClient \cup FragmentPacket(delta, pieces)
  BY DEF ServerSend
<1>3. /\ UNCHANGED <<stream, tick, server, heard, frame, client,
                     seen, arrived, toServer, acked>>
      /\ sent' = TRUE /\ ~sent
  BY DEF ServerSend, clientVars
<1>4. /\ FirstTick \in Nat \ {0} /\ tick \in Nat /\ FirstTick <= tick
      /\ FirstFrame \in Nat \ {0} /\ frame \in Nat
      /\ acked.tick \in FirstTick - 1 .. tick /\ tick - acked.tick < Half
      /\ acked.tick \in Known(seen, FirstTick)
      /\ Handed(heard, FirstFrame, frame) /\ FirstFrame <= frame
      /\ Newest(heard, FirstFrame) \in FirstFrame - 1 .. frame
      /\ stream \in Streams /\ stream.maxTick \in Nat /\ tick <= stream.maxTick
      /\ MaxFrame \in Nat /\ frame <= MaxFrame
      /\ pieces \in Nat \ {0}
      /\ Contents(stream.maxTick, MaxFrame) \subseteq Payload
  BY <1>0, <1>2, TickNumbers, DeltaStreamAssumption DEF Games
<1>5. /\ r >= FirstFrame /\ r = Newest(heard, FirstFrame)
      /\ server.conn.ack = SequenceOf(acked.tick, FirstTick)
      /\ server.lastAcked = SequenceOf(Newest(heard, FirstFrame), FirstFrame)
  <2>1. IsConnected(server.conn) /\ server.conn.last = NoPacket
    BY DEF ServerSend
  <2>2. r = Newest(heard, FirstFrame)
    BY <1>1, <2>1 DEF ServerEnd
  <2>3. ~(r < FirstFrame)
    BY <1>1, <2>1 DEF ServerEnd, ServerState, IsConnected
  <2> QED BY <1>1, <1>4, <2>2, <2>3 DEF ServerEnd, ServerState
<1>6. acked.tick < FirstTick => \A n \in FirstTick .. tick : Wrap(n) # 0
  <2>1. SUFFICES ASSUME acked.tick < FirstTick
                 PROVE  \A n \in FirstTick .. tick : Wrap(n) # 0
    OBVIOUS
  <2>2. tick - acked.tick < RoundTrip /\ RoundTrip \in Nat
    BY <1>0, DeltaStreamAssumption, HalfAssumption DEF Games
  <2>3. tick <= FirstTick + RoundTrip - 2
    BY <1>4, <2>1, <2>2
  <2> QED BY <1>4, <2>2, <2>3 DEF ZeroIsOld
<1>7. /\ Good(delta, FirstTick, seen, FirstFrame, heard)
      /\ Coded(delta, tick, NoId, Newest(heard, FirstFrame))
  <2>1. Newest(heard, FirstFrame) \in Known(heard, FirstFrame)
    BY <1>4, NewestKnown
  <2>2. Newest(heard, FirstFrame) \in Nat /\ Newest(heard, FirstFrame) <= MaxFrame
    BY <1>4
  <2> QED BY <1>2, <1>4, <1>5, <1>6, <2>1, <2>2, DeltaIsGood
<1>8. /\ delta \in DeltaPackets
      /\ delta.data.n = tick /\ delta.data.acked = Newest(heard, FirstFrame)
  BY <1>7 DEF Good, Coded
<1>9. \A p \in FragmentPacket(delta, pieces) :
        /\ p \in DeltaPackets \cup FragmentPackets
        /\ Whole(p) = delta
        /\ IsFragment(p) => p.seq = p.whole.seq
        /\ IsFragment(p) <=> pieces # 1
  BY <1>4, <1>8, PieceOfDelta
<1>10. Down' \subseteq Down \cup {delta}
  BY <1>2, <1>3, <1>9 DEF Down, Parts
<1>11. \A d \in Down : /\ d.data.n \in Nat /\ d.data.n < tick
                       /\ d.data.acked <= delta.data.acked
  <2>1. ASSUME NEW d \in Down
        PROVE  d.data.n \in Nat /\ d.data.n < tick /\ d.data.acked <= delta.data.acked
    <3>1. /\ Good(d, FirstTick, seen, FirstFrame, heard)
          /\ d.data.n <= tick /\ d.data.n # tick
      BY <1>0, <1>3 DEF Downward
    <3>2. d.data.acked \in Known(heard, FirstFrame) /\ d.data.n \in Nat
      BY <3>1 DEF Good
    <3>3. d.data.acked <= Newest(heard, FirstFrame)
      BY <1>4, <3>2, NewestKnown
    <3> QED BY <1>4, <1>8, <3>1, <3>2, <3>3
  <2> QED BY <2>1
<1>12. Games'
  BY <1>0, <1>3 DEF Games
<1>13. Downward'
  <2>1. ASSUME NEW d \in Down'
        PROVE  /\ Good(d, FirstTick, seen, FirstFrame, heard)
               /\ d.data.n <= tick
               /\ d.data.acked >= FirstFrame
    <3>1. CASE d \in Down
      BY <1>0, <3>1 DEF Downward
    <3>2. CASE d = delta
      BY <1>4, <1>5, <1>7, <1>8, <3>2
    <3> QED BY <1>10, <3>1, <3>2
  <2>2. Ordered(Down \cup {delta})
    BY <1>0, <1>4, <1>8, <1>11, OrderedWithNewest DEF Downward
  <2>3. Ordered(Down')
    BY <1>10, <2>2 DEF Ordered
  <2> QED BY <1>3, <2>1, <2>3 DEF Downward
<1>14. ToClient'
  <2>1. ASSUME NEW p \in FragmentPacket(delta, pieces)
        PROVE  /\ tick - Whole(p).data.n < Lifetime
               /\ stream.pieces = {1} => ~IsFragment(p)
               /\ 1 \notin stream.pieces => IsFragment(p)
    <3>1. Lifetime > 0 /\ Lifetime \in Int
      BY DeltaStreamAssumption, HalfAssumption
    <3> QED BY <1>2, <1>4, <1>8, <1>9, <3>1
  <2> QED BY <1>0, <1>2, <1>3, <1>9, <2>1 DEF ToClient
<1>15. Upward'
  BY <1>0, <1>3, UpwardKept
<1>16. \E q : ClientEnd(q)'
  <2>1. \A d \in Down' : d \in Down \/ d.data.acked >= acked.frame
    BY <1>0, <1>8, <1>10, <1>4, TickNumbers
  <2> QED BY <1>0, <1>3, <1>4, <2>1, ClientEndKept DEF IInv
<1>17. \E q : ServerEnd(q)'
  BY <1>0, <1>1, <1>3, <1>4, ServerEndKept
<1>18. IInv'
  BY <1>12, <1>13, <1>14, <1>15, <1>16, <1>17 DEF IInv
<1> QED BY <1>2, <1>8, <1>18

(* The client sends its next state.                                        *)
LEMMA ClientSendKeeps ==
  ASSUME IInv, ClientSend
  PROVE  IInv'
<1>0. Games /\ Downward /\ ToClient /\ Upward
  BY DEF IInv
<1>1. PICK r : ClientEnd(r)
  BY DEF IInv
<1>2. PICK delta \in Deltas(frame', client.conn.ack, FirstFrame, client.processed,
                            Newest(seen, FirstTick), 0) :
             toServer' =
                  { d \in toServer : frame' - d.data.n < Lifetime } \cup {delta}
  BY DEF ClientSend, Ack
<1>3. /\ UNCHANGED <<stream, tick, server, sent, heard, client,
                     seen, arrived, toClient, acked>>
      /\ frame' = frame + 1 /\ frame < MaxFrame
      /\ frame + 1 - acked.frame < RoundTrip
  BY DEF ClientSend, serverVars
<1>4. /\ FirstFrame \in Nat \ {0} /\ frame \in Nat /\ FirstFrame <= frame
      /\ FirstTick \in Nat \ {0} /\ tick \in Nat
      /\ acked.frame \in FirstFrame - 1 .. frame
      /\ acked.frame \in Known(heard, FirstFrame)
      /\ Handed(seen, FirstTick, tick) /\ FirstTick <= tick
      /\ Newest(seen, FirstTick) \in FirstTick - 1 .. tick
      /\ stream \in Streams /\ stream.maxTick \in Nat /\ tick <= stream.maxTick
      /\ MaxFrame \in Nat
      /\ Contents(MaxFrame, stream.maxTick) \subseteq Payload
      /\ RoundTrip \in Nat /\ RoundTrip <= Half /\ Half \in Nat
  BY <1>0, TickNumbers, DeltaStreamAssumption, HalfAssumption DEF Games
<1>5. /\ frame' \in Nat /\ frame' <= MaxFrame /\ FirstFrame <= frame'
      /\ acked.frame \in FirstFrame - 1 .. frame'
      /\ frame' - acked.frame < RoundTrip
      /\ frame' - acked.frame < Half
  BY <1>3, <1>4
<1>6. /\ \/ client.conn.ack = SequenceOf(acked.frame, FirstFrame)
         \/ client.conn.ack = NoAck /\ acked.frame < FirstFrame
      /\ ~(acked.frame < FirstFrame /\ client.conn.ack # NoAck)
      /\ client.processed = SequenceOf(Newest(seen, FirstTick), FirstTick)
  BY <1>1, <1>4 DEF ClientEnd, SequenceOf
<1>7. /\ Good(delta, FirstFrame, heard, FirstTick, seen)
      /\ Coded(delta, frame', 0, Newest(seen, FirstTick))
  <2>1. Newest(seen, FirstTick) \in Known(seen, FirstTick)
    BY <1>4, NewestKnown
  <2>2. Newest(seen, FirstTick) \in Nat /\ Newest(seen, FirstTick) <= stream.maxTick
    BY <1>4
  <2>3. 0 \in ConnectionId \cup {NoId}
    BY DeltaStreamAssumption
  <2> QED BY <1>2, <1>4, <1>5, <1>6, <2>1, <2>2, <2>3, DeltaIsGood
<1>8. /\ delta.data.n = frame' /\ delta.data.acked = Newest(seen, FirstTick)
      /\ delta.id = 0
  BY <1>7 DEF Coded
<1>9. \A d \in toServer : /\ d.data.n \in Nat /\ d.data.n < frame'
                          /\ d.data.acked <= delta.data.acked
  <2>1. ASSUME NEW d \in toServer
        PROVE  /\ d.data.n \in Nat /\ d.data.n < frame'
               /\ d.data.acked <= delta.data.acked
    <3>1. Good(d, FirstFrame, heard, FirstTick, seen) /\ d.data.n <= frame
      BY <1>0 DEF Upward
    <3>2. d.data.acked \in Known(seen, FirstTick) /\ d.data.n \in Nat
      BY <3>1 DEF Good
    <3>3. d.data.acked <= Newest(seen, FirstTick)
      BY <1>4, <3>2, NewestKnown
    <3> QED BY <1>3, <1>4, <1>8, <3>1, <3>2, <3>3
  <2> QED BY <2>1
<1>10. Games'
  <2>1. Handed(heard, FirstFrame, frame')
    BY <1>0, <1>4, <1>5, <1>3, HandedLater DEF Games
  <2> QED BY <1>0, <1>3, <1>5, <2>1, <1>4 DEF Games
<1>11. Downward'
  <2>1. Down' = Down
    BY <1>3 DEF Down, Parts
  <2> QED BY <1>0, <1>3, <1>4, <2>1, DownwardKept
<1>12. ToClient'
  BY <1>0, <1>3 DEF ToClient
<1>13. Upward'
  <2>1. ASSUME NEW d \in toServer'
        PROVE  /\ Good(d, FirstFrame, heard, FirstTick, seen)
               /\ d.data.n <= frame'
               /\ frame' - d.data.n < Lifetime
               /\ d.id = 0
    <3>1. CASE d \in toServer /\ frame' - d.data.n < Lifetime
      BY <1>0, <1>5, <1>9, <3>1 DEF Upward
    <3>2. CASE d = delta
      <4>1. Lifetime > 0 /\ Lifetime \in Int
        BY DeltaStreamAssumption, HalfAssumption
      <4> QED BY <1>5, <1>7, <1>8, <3>2, <4>1
    <3> QED BY <1>2, <3>1, <3>2
  <2>2. Ordered(toServer \cup {delta})
    <3>1. /\ Ordered(toServer) /\ delta.data.n \in Int
          /\ \A d \in toServer : /\ d.data.n \in Int /\ d.data.n < delta.data.n
                                /\ d.data.acked <= delta.data.acked
      BY <1>0, <1>5, <1>8, <1>9 DEF Upward
    <3> QED BY <3>1, OrderedWithNewest
  <2>3. Ordered(toServer')
    BY <1>2, <2>2 DEF Ordered
  <2> QED BY <1>3, <2>1, <2>3 DEF Upward
<1>14. \E q : ClientEnd(q)'
  <2>1. Down' = Down
    BY <1>3 DEF Down, Parts
  <2> QED BY <1>0, <1>1, <1>3, <1>4, <2>1, ClientEndKept
<1>15. \E q : ServerEnd(q)'
  <2>1. acked.tick <= Newest(seen, FirstTick) /\ frame <= frame'
    BY <1>0, <1>3, <1>4, TickNumbers
  <2>2. \A d \in toServer' : d \in toServer \/ d.data.acked >= acked.tick
    BY <1>0, <1>2, <1>4, <1>8, <2>1 DEF Games
  <2> QED BY <1>0, <1>3, <1>5, <2>1, <2>2, ServerEndKept DEF IInv
<1> QED BY <1>10, <1>11, <1>12, <1>13, <1>14, <1>15 DEF IInv

(* A good delta gives its own number to the game.                          *)
LEMMA GoodParsed ==
  ASSUME NEW d, NEW first, NEW held, NEW otherFirst, NEW otherHeld,
         Good(d, first, held, otherFirst, otherHeld)
  PROVE  Parsed(d, held) = d.data.n
<1>1. /\ d.data.n \in Nat /\ d.data.base \in Nat
      /\ d.data.distance = d.data.n - d.data.base
      /\ d.data # Stitched /\ d.data.base \in Range(held) \cup {d.data.n}
  BY DEF Good
<1>2. d.data.n - d.data.distance = d.data.base
  BY <1>1
<1> QED BY <1>1, <1>2 DEF Parsed

(* The owner took the last delta, its number r handed on if it was newer.  *)
LEMMA TakenReceives ==
  ASSUME NEW c, NEW r, NEW first \in Nat \ {0}, NEW newest \in Nat, first <= newest,
         NEW held, NEW otherFirst, NEW otherHeld,
         Receives(c, r, first, newest, held, otherFirst, otherHeld),
         NEW more, Newest(more, first) \in Int, Newest(more, first) <= r,
         Newest(held, first) \in Int
  PROVE  /\ Receives(Taken(c), r, first, newest, more, otherFirst, otherHeld)
         /\ Taken(c).last = NoPacket
         /\ Taken(c).ack = c.ack
         /\ Taken(c).state = c.state
         /\ Taken(c).id = c.id
         /\ Taken(c).fragments = c.fragments
<1>1. c \in ConnectionType /\ Sound(Taken(c))
  BY TakenSound DEF Receives, Sound
<1>2. /\ Taken(c).last = NoPacket /\ Taken(c).ack = c.ack
      /\ Taken(c).state = c.state /\ Taken(c).id = c.id
      /\ Taken(c).fragments = c.fragments
      /\ Taken(c).received = c.received
  BY <1>1 DEF Taken, ConnectionType
<1> QED BY <1>1, <1>2 DEF Receives

(* What LatestDelivery's Deliver does.                                     *)
Extends(held, more, first, newest) ==
  \E n \in first .. newest :
    /\ \A k \in DOMAIN held : held[k] < n
    /\ more = Append(held, n)

(* The server hands the last delta to its game.                            *)
LEMMA ServerSettleKeeps ==
  ASSUME IInv, ServerSettle
  PROVE  IInv' /\ Extends(heard, heard', FirstFrame, frame)
<1>0. Games /\ Downward /\ ToClient /\ Upward
  BY DEF IInv
<1>1. PICK r : ServerEnd(r)
  BY DEF IInv
<1> DEFINE c == server.conn
<1>2. /\ UNCHANGED <<stream, tick, sent, frame, client, seen, arrived,
                     toClient, toServer, acked>>
      /\ c.last # NoPacket
      /\ server' = [conn |-> Taken(c), lastAcked |-> c.last.seq]
      /\ heard' = Append(heard, Parsed(c.last, heard))
  BY DEF ServerSettle, clientVars
<1>3. /\ FirstFrame \in Nat \ {0} /\ frame \in Nat /\ FirstFrame <= frame
      /\ FirstTick \in Nat \ {0} /\ tick \in Nat
      /\ Handed(heard, FirstFrame, frame)
      /\ Newest(heard, FirstFrame) \in FirstFrame - 1 .. frame
  BY <1>0, TickNumbers
<1>4. /\ Receives(c, r, FirstFrame, frame, heard, FirstTick, seen)
      /\ Good(c.last, FirstFrame, heard, FirstTick, seen)
      /\ c.last.data.n = r
      /\ r > Newest(heard, FirstFrame)
      /\ r \in Newest(heard, FirstFrame) .. frame
  BY <1>1, <1>2 DEF ServerEnd, Receives
<1>5. r \in FirstFrame .. frame /\ ~(r < FirstFrame)
  BY <1>3, <1>4
<1>6. heard' = Append(heard, r)
  BY <1>2, <1>4, GoodParsed
<1>7. /\ Handed(heard', FirstFrame, frame)
      /\ Range(heard') = Range(heard) \cup {r}
      /\ Newest(heard', FirstFrame) = r
      /\ \A k \in DOMAIN heard : heard[k] < r
  BY <1>3, <1>4, <1>5, <1>6, HandedNext
<1>8. Extends(heard, heard', FirstFrame, frame)
  BY <1>5, <1>6, <1>7 DEF Extends
<1>9. Games'
  BY <1>0, <1>2, <1>7 DEF Games, Known
<1>10. Downward'
  <2>1. Down' = Down
    BY <1>2 DEF Down, Parts
  <2> QED BY <1>0, <1>2, <1>3, <1>7, <2>1, DownwardKept
<1>11. ToClient'
  BY <1>0, <1>2 DEF ToClient
<1>12. Upward'
  BY <1>0, <1>2, <1>7, UpwardKept
<1>13. \E q : ClientEnd(q)'
  <2>1. Down' = Down
    BY <1>2 DEF Down, Parts
  <2> QED BY <1>0, <1>2, <1>3, <1>7, <2>1, ClientEndKept DEF IInv
<1>14. ServerEnd(r)'
  <2>1. /\ Receives(Taken(c), r, FirstFrame, frame, heard', FirstTick, seen)
        /\ Taken(c).ack = c.ack /\ Taken(c).state = c.state /\ Taken(c).id = c.id
        /\ Taken(c).last = NoPacket
    <3>1. /\ Newest(heard, FirstFrame) \in Int /\ Newest(heard', FirstFrame) \in Int
          /\ Newest(heard', FirstFrame) <= r
      BY <1>3, <1>5, <1>7
    <3> HIDE DEF c
    <3> QED BY <1>3, <1>4, <3>1, TakenReceives
  <2>2. Taken(c) \in ConnectionType
    BY <2>1 DEF Receives, Sound
  <2>3. c.last.seq = Wrap(r) /\ Wrap(r) \in Sequence
    BY <1>4, <1>5, <1>3, WrapType DEF Good
  <2>4. c.last.seq = SequenceOf(Newest(heard', FirstFrame), FirstFrame)
    BY <1>5, <1>7, <2>3 DEF SequenceOf
  <2>5. ServerState(r)'
    BY <1>1, <1>2, <1>5, <2>1 DEF ServerEnd, ServerState
  <2>6. server'.conn = Taken(c) /\ server'.lastAcked = c.last.seq
    BY <1>2
  <2>7. server' \in [conn : ConnectionType, lastAcked : Sequence]
    BY <1>2, <2>2, <2>3
  <2>8. \A d \in toServer : d.data.n > r => d.data.acked >= acked.tick
    BY <1>1 DEF ServerEnd
  <2> HIDE DEF c
  <2> QED BY <1>2, <1>7, <2>1, <2>4, <2>5, <2>6, <2>7, <2>8 DEF ServerEnd
<1> QED BY <1>8, <1>9, <1>10, <1>11, <1>12, <1>13, <1>14 DEF IInv

(* The client hands the last delta to its game, if it is newer.            *)
LEMMA ClientSettleKeeps ==
  ASSUME IInv, ClientSettle
  PROVE  IInv' /\ (UNCHANGED seen \/ Extends(seen, seen', FirstTick, tick))
<1>0. Games /\ Downward /\ ToClient /\ Upward
  BY DEF IInv
<1>1. PICK r : ClientEnd(r)
  BY DEF IInv
<1> DEFINE c == client.conn
           wanted == IsDelta(c.last) /\ Greater(c.last.seq, client.processed)
<1>2. /\ UNCHANGED <<stream, tick, server, sent, heard, frame, arrived,
                     toClient, toServer, acked>>
      /\ c.last # NoPacket
      /\ client' = [conn |-> Taken(c),
                    processed |-> IF wanted THEN c.last.seq ELSE client.processed]
      /\ seen' = IF wanted THEN Append(seen, Parsed(c.last, seen)) ELSE seen
  BY DEF ClientSettle, serverVars
<1>3. /\ FirstTick \in Nat \ {0} /\ tick \in Nat /\ FirstTick <= tick
      /\ FirstFrame \in Nat \ {0} /\ frame \in Nat
      /\ Handed(seen, FirstTick, tick)
      /\ Newest(seen, FirstTick) \in FirstTick - 1 .. tick
      /\ acked.tick <= Newest(seen, FirstTick)
      /\ acked.tick \in Nat /\ tick - acked.tick < Half
      /\ Half \in Nat
  BY <1>0, TickNumbers, HalfAssumption DEF Games
<1>4. /\ Receives(c, r, FirstTick, tick, seen, FirstFrame, heard)
      /\ Good(c.last, FirstTick, seen, FirstFrame, heard)
      /\ c.last.data.n = r
      /\ r > Newest(seen, FirstTick)
      /\ r \in Newest(seen, FirstTick) .. tick
      /\ client.processed = SequenceOf(Newest(seen, FirstTick), FirstTick)
  BY <1>1, <1>2 DEF ClientEnd, Receives
<1>5. r \in FirstTick .. tick /\ ~(r < FirstTick)
  BY <1>3, <1>4
<1>6. /\ c.last.seq = Wrap(r) /\ Wrap(r) \in Sequence
      /\ client.processed \in Sequence
  BY <1>1, <1>4, <1>5, <1>3, WrapType DEF Good, ClientEnd
<1> HIDE DEF c, wanted
<1>7. /\ Handed(seen', FirstTick, tick)
      /\ Range(seen) \subseteq Range(seen')
      /\ Newest(seen', FirstTick) \in Newest(seen, FirstTick) .. r
      /\ client' = [conn |-> Taken(c),
                    processed |-> SequenceOf(Newest(seen', FirstTick), FirstTick)]
      /\ UNCHANGED seen \/ Extends(seen, seen', FirstTick, tick)
  <2>1. CASE wanted
    <3>1. seen' = Append(seen, r)
      BY <1>2, <1>4, <2>1, GoodParsed
    <3>2. /\ Handed(seen', FirstTick, tick)
          /\ Range(seen') = Range(seen) \cup {r}
          /\ Newest(seen', FirstTick) = r
          /\ \A k \in DOMAIN seen : seen[k] < r
      BY <1>3, <1>4, <1>5, <3>1, HandedNext
    <3>3. Extends(seen, seen', FirstTick, tick)
      BY <1>5, <3>1, <3>2 DEF Extends
    <3>4. Wrap(r) = SequenceOf(Newest(seen', FirstTick), FirstTick)
      BY <1>5, <3>2 DEF SequenceOf
    <3>5. r \in Newest(seen, FirstTick) .. r
      BY <1>3, <1>4, <1>5
    <3> QED BY <1>2, <1>6, <2>1, <3>2, <3>3, <3>4, <3>5
  <2>2. CASE ~wanted
    <3>1. Newest(seen, FirstTick) \in Newest(seen, FirstTick) .. r
      BY <1>3, <1>4, <1>5
    <3> QED BY <1>2, <1>3, <1>4, <2>2, <3>1
  <2> QED BY <2>1, <2>2
<1>8. /\ Taken(c).ack = c.ack /\ Taken(c).state = c.state
      /\ Taken(c).last = NoPacket
      /\ Taken(c).fragments = c.fragments
      /\ Receives(Taken(c), r, FirstTick, tick, seen', FirstFrame, heard)
  <2>1. /\ Newest(seen, FirstTick) \in Int /\ Newest(seen', FirstTick) \in Int
        /\ Newest(seen', FirstTick) <= r
    BY <1>3, <1>5, <1>7
  <2> QED BY <1>3, <1>4, <2>1, TakenReceives
<1>9. /\ client'.conn = Taken(c)
      /\ client'.processed = SequenceOf(Newest(seen', FirstTick), FirstTick)
      /\ client' \in [conn : ConnectionType, processed : Sequence]
  <2>1. Taken(c) \in ConnectionType
    BY <1>8 DEF Receives, Sound
  <2>2. SequenceOf(Newest(seen', FirstTick), FirstTick) \in Sequence
    <3>1. Newest(seen', FirstTick) \in Int
      BY <1>3, <1>7
    <3> QED BY <3>1, WrapType, SequenceHasZero DEF SequenceOf
  <2> QED BY <1>7, <2>1, <2>2
<1>10. Down' = Down
  BY <1>2, <1>8, <1>9 DEF Down, Parts, c
<1>11. Games'
  BY <1>0, <1>2, <1>7 DEF Games, Known
<1>12. Downward'
  BY <1>0, <1>2, <1>3, <1>7, <1>10, DownwardKept
<1>13. ToClient'
  BY <1>0, <1>2 DEF ToClient
<1>14. Upward'
  BY <1>0, <1>2, <1>7, UpwardKept
<1>15. ClientEnd(r)'
  <2>1. Buffer(r)'
    BY <1>1, <1>2, <1>8, <1>9 DEF ClientEnd, Buffer, Parts, c
  <2>2. client.conn = c
    BY DEF c
  <2> QED BY <1>1, <1>2, <1>5, <1>8, <1>9, <1>10, <2>1, <2>2 DEF ClientEnd
<1>16. \E q : ServerEnd(q)'
  BY <1>0, <1>2, <1>3, <1>7, ServerEndKept DEF IInv
<1> QED BY <1>7, <1>11, <1>12, <1>13, <1>14, <1>15, <1>16 DEF IInv

(* A datagram is lost.                                                     *)
LEMMA LoseKeeps ==
  ASSUME IInv,
         UNCHANGED <<stream, tick, server, sent, heard, frame, client, seen,
                     arrived, acked>>,
         toClient' \subseteq toClient, toServer' \subseteq toServer
  PROVE  IInv'
<1>0. Games /\ Downward /\ ToClient /\ Upward
  BY DEF IInv
<1>1. tick \in Nat /\ frame \in Nat
  BY <1>0, TickNumbers
<1>2. Down' \subseteq Down
  BY DEF Down, Parts
<1>3. Games'
  BY <1>0 DEF Games
<1>4. Downward'
  BY <1>0, <1>1, <1>2, DownwardKept
<1>5. ToClient'
  BY <1>0 DEF ToClient
<1>6. Upward'
  BY <1>0, UpwardKept
<1>7. \E r : ClientEnd(r)'
  BY <1>0, <1>1, <1>2, ClientEndKept DEF IInv
<1>8. \E r : ServerEnd(r)'
  BY <1>0, <1>1, ServerEndKept DEF IInv
<1> QED BY <1>3, <1>4, <1>5, <1>6, <1>7, <1>8 DEF IInv

(* What the filter of a connection that took r last takes is newer.        *)
LEMMA NewerSequence ==
  ASSUME NEW n \in Nat, NEW r \in Int, NEW newest \in Nat, NEW first \in Nat,
         n >= first, n <= newest, newest - n < Half,
         r <= newest, newest - r < Half, NEW received,
         r >= first => received = Wrap(r)
  PROVE  /\ Greater(Wrap(n), received) => n > r
         /\ r >= first /\ ~Greater(Wrap(n), received) => n <= r
<1>1. n - r < Half /\ r - n < Half
  BY HalfAssumption
<1>2. Greater(Wrap(n), Wrap(r)) <=> n > r
  BY <1>1, AcceptsIffNewer
<1> QED BY <1>2

(* The client took the delta e, with the datagram p.                       *)
ClientTakes(c, r, p, d, e) ==
  /\ e \in Down
  /\ e.data.n > r
  /\ Took(e, d)
  /\ IF IsFragment(p) THEN \E q \in Range(d.fragments.parts) : e = q.whole ELSE e = p

(* A datagram reaches the client: what Process makes of it, in numbers.    *)
LEMMA ClientReceives ==
  ASSUME IInv, CutAlike, NEW r, ClientEnd(r), NEW p \in toClient, ClientReceive(p)
  PROVE  /\ ClientFed(client.conn, p, client'.conn)
         /\ client' \in [conn : ConnectionType, processed : Sequence]
         /\ client'.processed = client.processed
         /\ Down' \subseteq Down
         /\ \A q \in Range(Parts') : \/ q \in Range(Parts)
                                     \/ q = p /\ p.whole.data.n > r
         /\ \/ TookNone(client.conn, client'.conn)
            \/ \E e : ClientTakes(client.conn, r, p, client'.conn, e)
<1> DEFINE c == client.conn
           d == Process(c, p, NoHandle).c
<1>0. Games /\ Downward /\ ToClient
  BY DEF IInv
<1>1. /\ client \in [conn : ConnectionType, processed : Sequence]
      /\ client' = [client EXCEPT !.conn = d]
      /\ toClient' \subseteq toClient
      /\ Sound(c) /\ c.state = "ConnectedToServer"
      /\ Uniform(c.fragments)
      /\ p \in DeltaPackets \cup FragmentPackets
      /\ IsFragment(p) => p.seq = p.whole.seq
      /\ r >= FirstTick => c.received = Wrap(r)
  BY <1>0 DEF ClientReceive, ClientEnd, Receives, Buffer, ToClient, TakeFrom
<1>2. /\ FirstTick \in Nat /\ tick \in Nat
      /\ r \in FirstTick - 1 .. tick /\ tick - r < Half
      /\ \A e \in Down : /\ e.data.n \in FirstTick .. tick
                         /\ tick - e.data.n < Half
                         /\ e.seq = Wrap(e.data.n)
  BY <1>0, TickNumbers, DownInTime
<1>3. ASSUME NEW e \in Down, Greater(e.seq, c.received) PROVE e.data.n > r
  <2>1. /\ e.data.n \in Nat /\ e.data.n >= FirstTick /\ e.data.n <= tick
        /\ tick - e.data.n < Half /\ e.seq = Wrap(e.data.n)
        /\ r \in Int /\ r <= tick
    BY <1>2
  <2> HIDE DEF c
  <2> QED BY <1>1, <1>2, <1>3, <2>1, NewerSequence
<1>4. Whole(p) \in Down
  BY DEF Down
<1>5. ASSUME IsFragment(p), NEW q \in Range(c.fragments.parts), q.seq = p.seq
      PROVE  q.whole = p.whole
  <2>1. q.whole \in Down /\ p.whole \in Down
    BY <1>4, <1>5 DEF Down, Parts, Whole
  <2>2. Wrap(q.whole.data.n) = Wrap(p.whole.data.n)
    BY <1>1, <1>2, <1>5, <2>1 DEF Uniform
  <2>3. /\ q.whole.data.n \in Int /\ p.whole.data.n \in Int
        /\ q.whole.data.n - p.whole.data.n < Half
        /\ p.whole.data.n - q.whole.data.n < Half
    BY <1>2, <2>1, HalfAssumption
  <2>4. q.whole.data.n = p.whole.data.n
    BY <2>2, <2>3, LessForward
  <2> QED BY <1>0, <2>1, <2>4 DEF Downward, Ordered
<1>6. ClientFed(c, p, d)
  BY <1>1, <1>5, ClientProcess
<1>7. /\ client'.conn = d /\ client'.processed = client.processed
      /\ client' \in [conn : ConnectionType, processed : Sequence]
  <2>1. d \in ConnectionType
    BY <1>6 DEF ClientFed, Sound
  <2> HIDE DEF d
  <2> QED BY <1>1, <2>1
<1> HIDE DEF d
<1>8. \A q \in Range(Parts') : q \in Range(Parts) \/ (q = p /\ p.whole.data.n > r)
  <2>1. CASE d.fragments = c.fragments
    BY <1>7, <2>1 DEF Parts
  <2>2. CASE d.fragments # c.fragments
    <3>1. /\ IsFragment(p) /\ Greater(p.seq, c.received)
          /\ Range(d.fragments.parts) \subseteq Range(c.fragments.parts) \cup {p}
      BY <1>6, <2>2 DEF ClientFed, Joins
    <3>2. p.whole \in Down /\ p.seq = p.whole.seq
      BY <1>1, <1>4, <3>1 DEF Whole
    <3>3. p.whole.data.n > r
      BY <1>3, <3>1, <3>2
    <3> QED BY <1>7, <3>1, <3>3 DEF Parts
  <2> QED BY <2>1, <2>2
<1>9. \A q \in Range(Parts') : q.whole \in Down
  <2>1. ASSUME NEW q \in Range(Parts'), q \notin Range(Parts) PROVE q.whole \in Down
    <3>1. q = p /\ d.fragments # c.fragments
      BY <1>7, <1>8, <2>1 DEF Parts
    <3>2. IsFragment(p)
      BY <1>6, <3>1 DEF ClientFed
    <3> QED BY <1>4, <3>1, <3>2 DEF Whole
  <2> QED BY <2>1 DEF Down
<1>10. Down' \subseteq Down
  BY <1>1, <1>9 DEF Down
<1>11. TookNone(c, d) \/ \E e : ClientTakes(c, r, p, d, e)
  <2>1. SUFFICES ASSUME NEW e, Took(e, d), Greater(e.seq, c.received),
                        IF IsFragment(p)
                        THEN \E q \in Range(d.fragments.parts) : e = q.whole
                        ELSE e = p
                 PROVE  ClientTakes(c, r, p, d, e)
    BY <1>6 DEF ClientFed
  <2>2. e \in Down
    BY <1>4, <1>7, <1>9, <2>1 DEF Parts, Whole
  <2> QED BY <1>3, <2>1, <2>2 DEF ClientTakes
<1> QED BY <1>6, <1>7, <1>8, <1>10, <1>11

(* The newest number that has arrived.                                     *)
LEMMA ArrivedLater ==
  ASSUME IInv, CutAlike, NEW r, ClientEnd(r), NEW p \in toClient, ClientReceive(p)
  PROVE  /\ arrived' = [n |-> arrived'.n, indexes |-> arrived'.indexes,
                       last |-> arrived'.last]
         /\ arrived'.n \in arrived.n .. tick
         /\ arrived'.n >= Whole(p).data.n
         /\ arrived'.n \in {arrived.n, Whole(p).data.n}
         /\ \A q \in Range(Parts') : q.whole.data.n <= arrived'.n
<1> DEFINE n == Whole(p).data.n
<1>1. /\ r \in Int /\ tick \in Nat /\ FirstTick \in Nat
      /\ arrived.n \in r .. tick
      /\ n \in FirstTick .. tick
  <2>1. Whole(p) \in Down
    BY DEF Down
  <2>2. Games
    BY DEF IInv
  <2> QED BY <2>1, <2>2, TickNumbers, DownInTime DEF ClientEnd
<1>2. arrived = [n |-> arrived.n, indexes |-> arrived.indexes, last |-> arrived.last]
  BY DEF ClientEnd
<1>3. arrived' = Arrive(p) /\ NumberOf(p) = n
  BY NumberOfWhole DEF ClientReceive
<1> HIDE DEF n
<1>4. /\ arrived' = [n |-> arrived'.n, indexes |-> arrived'.indexes,
                     last |-> arrived'.last]
      /\ arrived'.n = IF n < arrived.n THEN arrived.n ELSE n
  <2>1. CASE n < arrived.n
    BY <1>2, <1>3, <2>1 DEF Arrive
  <2>2. CASE ~(n < arrived.n) /\ n = arrived.n
    BY <1>2, <1>3, <2>2 DEF Arrive
  <2>3. CASE ~(n < arrived.n) /\ n # arrived.n
    BY <1>3, <2>3 DEF Arrive
  <2> QED BY <2>1, <2>2, <2>3
<1>5. arrived'.n \in arrived.n .. tick /\ arrived'.n >= n
  BY <1>1, <1>4
<1>6. ASSUME NEW q \in Range(Parts') PROVE q.whole.data.n <= arrived'.n
  <2>1. CASE q \in Range(Parts)
    <3>1. q.whole \in Down /\ q.whole.data.n <= arrived.n
      BY <2>1 DEF Down, ClientEnd, Buffer
    <3>2. q.whole.data.n \in Int
      BY <1>1, <3>1, DownInTime
    <3> QED BY <1>1, <1>5, <3>1, <3>2
  <2>2. CASE q \notin Range(Parts)
    <3>1. q = p /\ client'.conn.fragments # client.conn.fragments
      BY <1>6, <2>2, ClientReceives DEF Parts
    <3>2. IsFragment(p)
      BY <3>1, ClientReceives DEF ClientFed
    <3>3. q.whole.data.n = n
      BY <3>1, <3>2 DEF Whole, n
    <3> QED BY <1>1, <1>5, <3>3
  <2> QED BY <2>1, <2>2
<1> QED BY <1>4, <1>5, <1>6 DEF n

(* The client's end after the datagram p, when it took e.                  *)
LEMMA ClientEndTook ==
  ASSUME IInv, CutAlike, NEW r, ClientEnd(r), NEW p \in toClient, ClientReceive(p),
         NEW e, ClientTakes(client.conn, r, p, client'.conn, e)
  PROVE  /\ ClientEnd(e.data.n)'
         /\ acked' = [acked EXCEPT !.frame = e.data.acked]
         /\ e.data.acked >= acked.frame
         /\ e.data.acked \in Known(heard, FirstFrame)
         /\ e.data.acked \in Nat
<1> DEFINE c == client.conn
           d == client'.conn
           n == e.data.n
<1>0. Games /\ Downward /\ ToClient
  BY DEF IInv
<1>1. /\ e \in Down /\ n > r
      /\ d.last = e /\ d.received = e.seq /\ d.ack = e.ack
      /\ IF IsFragment(p) THEN \E q \in Range(d.fragments.parts) : e = q.whole
                          ELSE e = p
  BY DEF ClientTakes, Took
<1>2. /\ Sound(d) /\ d.state = "ConnectedToServer"
      /\ Uniform(d.fragments)
      /\ client' \in [conn : ConnectionType, processed : Sequence]
      /\ client'.processed = client.processed
      /\ Down' \subseteq Down
      /\ \A q \in Range(Parts') : q \in Range(Parts) \/ (q = p /\ p.whole.data.n > r)
  BY ClientReceives DEF ClientFed, Joins
<1>3. UNCHANGED <<stream, tick, sent, server, heard, frame, seen, toServer>>
  BY DEF ClientReceive, serverVars
<1>4. /\ Good(e, FirstTick, seen, FirstFrame, heard)
      /\ n \in FirstTick .. tick /\ n <= tick
      /\ e.data.acked >= FirstFrame
      /\ e.seq = Wrap(n)
      /\ FirstTick \in Nat /\ tick \in Nat /\ FirstFrame \in Nat
      /\ r \in FirstTick - 1 .. tick
      /\ Newest(seen, FirstTick) \in FirstTick - 1 .. tick
      /\ Newest(seen, FirstTick) <= r
      /\ Newest(heard, FirstFrame) \in Int
      /\ r >= FirstTick \/ acked.frame = FirstFrame - 1
  <2>1. r \in Newest(seen, FirstTick) .. tick
    BY DEF ClientEnd, Receives
  <2>2. r >= FirstTick \/ acked.frame = FirstFrame - 1
    BY <1>0, TickNumbers, DownInTime DEF ClientEnd
  <2> QED BY <1>0, <1>1, <2>1, <2>2, TickNumbers, DownInTime DEF Downward
<1>5. /\ e.data.acked \in Nat /\ e.data.acked \in Known(heard, FirstFrame)
      /\ e.ack = Wrap(e.data.acked)
  BY <1>4 DEF Good, SequenceOf
<1>6. e.data.acked >= acked.frame
  BY <1>1 DEF ClientEnd
<1>7. e # c.last
  <2>1. CASE c.last = NoPacket
    BY <1>4, <2>1 DEF Good, DeltaPackets, NoPacket
  <2>2. CASE c.last # NoPacket
    <3>1. c.last.data.n = r
      BY <2>2 DEF ClientEnd, Receives
    <3> QED BY <1>1, <1>4, <3>1
  <2> QED BY <2>1, <2>2
<1>8. acked' = [acked EXCEPT !.frame = e.data.acked]
  <2>1. e.data # Stitched
    BY <1>4 DEF Good
  <2> QED BY <1>1, <1>7, <2>1 DEF ClientReceive, AckOf
<1>9. acked'.frame = e.data.acked
  BY <1>0, <1>8 DEF Games
<1>10. Receives(d, n, FirstTick, tick, seen, FirstFrame, heard)
  BY <1>1, <1>2, <1>4 DEF Receives
<1>11. \A f \in Down' : f.data.n > n => f.data.acked >= e.data.acked
  <2>1. ASSUME NEW f \in Down', f.data.n > n PROVE f.data.acked >= e.data.acked
    <3>1. f \in Down
      BY <1>2, <2>1
    <3>2. /\ Good(f, FirstTick, seen, FirstFrame, heard)
          /\ f.data.acked \in Nat /\ f.data.n \in Nat
      BY <1>0, <3>1 DEF Downward, Good
    <3>3. n < f.data.n
      BY <1>4, <2>1, <3>2
    <3>4. e.data.acked <= f.data.acked
      BY <1>0, <1>1, <3>1, <3>3 DEF Downward, Ordered
    <3> QED BY <1>5, <3>2, <3>4
  <2> QED BY <2>1
<1>12. Buffer(n)'
  <2>1. ASSUME 1 \notin stream.pieces, NEW q \in Range(Parts')
        PROVE q.whole.data.n >= n
    <3>1. IsFragment(p)
      BY <1>0, <2>1 DEF ToClient
    <3>2. e = q.whole
      BY <1>1, <1>2, <2>1, <3>1 DEF Uniform, Parts
    <3> QED BY <1>4, <3>2
  <2>2. ASSUME stream.pieces = {1} PROVE Range(Parts') = {}
    <3>1. ~IsFragment(p)
      BY <1>0, <2>2 DEF ToClient
    <3>2. d.fragments = c.fragments
      BY <3>1, ClientReceives DEF ClientFed
    <3> QED BY <2>2, <3>2 DEF ClientEnd, Buffer, Parts
  <2> QED BY <1>2, <1>3, <2>1, <2>2, ArrivedLater DEF Buffer
<1>13. client'.processed = SequenceOf(Newest(seen, FirstTick), FirstTick)
  BY <1>2 DEF ClientEnd
<1>14. ClientEnd(n)'
  <2>1. ~(n < FirstTick)
    BY <1>4
  <2>2. arrived'.n \in n .. tick
    <3>1. /\ arrived.n \in Int /\ arrived'.n \in arrived.n .. tick
          /\ Whole(p).data.n <= arrived'.n
          /\ \A q \in Range(Parts') : q.whole.data.n <= arrived'.n
      BY <1>4, ArrivedLater DEF ClientEnd
    <3>2. n <= arrived'.n
      BY <1>1, <3>1 DEF Whole, Parts
    <3> QED BY <1>4, <3>1, <3>2
  <2>3. arrived' = [n |-> arrived'.n, indexes |-> arrived'.indexes,
                    last |-> arrived'.last]
    BY ArrivedLater
  <2> HIDE DEF n
  <2> QED BY <1>1, <1>2, <1>3, <1>4, <1>5, <1>9, <1>10, <1>11, <1>12, <1>13, <2>1,
             <2>2, <2>3
          DEF ClientEnd
<1> QED BY <1>5, <1>6, <1>8, <1>14

(* The client's end after the datagram p, when it took nothing.            *)
LEMMA ClientEndTookNone ==
  ASSUME IInv, CutAlike, NEW r, ClientEnd(r), NEW p \in toClient, ClientReceive(p),
         TookNone(client.conn, client'.conn)
  PROVE  ClientEnd(r)' /\ acked' = acked
<1> DEFINE c == client.conn
           d == client'.conn
<1>0. Games /\ Downward /\ ToClient
  BY DEF IInv
<1>1. d.last = c.last /\ d.received = c.received /\ d.ack = c.ack
  BY DEF TookNone
<1>2. /\ Sound(d) /\ d.state = "ConnectedToServer"
      /\ Uniform(d.fragments)
      /\ client' \in [conn : ConnectionType, processed : Sequence]
      /\ client'.processed = client.processed
      /\ Down' \subseteq Down
      /\ \A q \in Range(Parts') : q \in Range(Parts) \/ (q = p /\ p.whole.data.n > r)
  BY ClientReceives DEF ClientFed, Joins
<1>3. UNCHANGED <<stream, tick, sent, server, heard, frame, seen, toServer>>
  BY DEF ClientReceive, serverVars
<1>4. acked' = acked
  BY <1>1 DEF ClientReceive
<1>5. Receives(d, r, FirstTick, tick, seen, FirstFrame, heard)
  BY <1>1, <1>2 DEF ClientEnd, Receives
<1>6. Buffer(r)'
  <2>1. ASSUME 1 \notin stream.pieces, NEW q \in Range(Parts')
        PROVE q.whole.data.n >= r
    <3>1. CASE q \in Range(Parts)
      BY <2>1, <3>1 DEF ClientEnd, Buffer
    <3>2. CASE q = p /\ p.whole.data.n > r
      <4>1. p.whole \in Down
        BY <1>0, <2>1 DEF ToClient, Down, Whole
      <4>2. p.whole.data.n \in Int /\ r \in Int
        BY <4>1, <1>0, TickNumbers, DownInTime
      <4> QED BY <3>2, <4>2
    <3> QED BY <1>2, <3>1, <3>2
  <2>2. ASSUME stream.pieces = {1} PROVE Range(Parts') = {}
    <3>1. ~IsFragment(p)
      BY <1>0, <2>2 DEF ToClient
    <3>2. d.fragments = c.fragments
      BY <3>1, ClientReceives DEF ClientFed
    <3> QED BY <2>2, <3>2 DEF ClientEnd, Buffer, Parts
  <2> QED BY <1>2, <1>3, <2>1, <2>2, ArrivedLater DEF Buffer
<1>7. \A f \in Down' : f.data.n > r => f.data.acked >= acked.frame
  BY <1>2 DEF ClientEnd
<1>8. client'.processed = SequenceOf(Newest(seen, FirstTick), FirstTick)
  BY <1>2 DEF ClientEnd
<1>9. /\ arrived' = [n |-> arrived'.n, indexes |-> arrived'.indexes,
                     last |-> arrived'.last]
      /\ arrived'.n \in r .. tick
  <2>1. r \in Int /\ tick \in Int /\ arrived.n \in r .. tick
    BY <1>0, TickNumbers, DownInTime DEF ClientEnd
  <2> QED BY <2>1, ArrivedLater
<1> QED BY <1>1, <1>2, <1>3, <1>4, <1>5, <1>6, <1>7, <1>8, <1>9 DEF ClientEnd

(* A datagram reaches the client.                                          *)
LEMMA ClientReceiveKeeps ==
  ASSUME IInv, CutAlike, NEW p \in toClient, ClientReceive(p)
  PROVE  IInv'
<1>0. Games /\ Downward /\ ToClient /\ Upward
  BY DEF IInv
<1>1. PICK r : ClientEnd(r)
  BY DEF IInv
<1>2. /\ UNCHANGED <<stream, tick, sent, server, heard, frame, seen, toServer>>
      /\ toClient' \subseteq toClient
  BY DEF ClientReceive, serverVars, TakeFrom
<1>3. Down' \subseteq Down
  BY <1>1, ClientReceives
<1>4. /\ \E q : ClientEnd(q)'
      /\ acked' \in [tick : Nat, frame : Nat]
      /\ acked'.tick = acked.tick
      /\ acked'.frame \in Known(heard, FirstFrame)
      /\ acked'.frame >= acked.frame
  <2>1. CASE TookNone(client.conn, client'.conn)
    BY <1>0, <1>1, <2>1, ClientEndTookNone DEF Games
  <2>2. CASE \E e : ClientTakes(client.conn, r, p, client'.conn, e)
    <3>1. PICK e : ClientTakes(client.conn, r, p, client'.conn, e)
      BY <2>2
    <3>2. /\ ClientEnd(e.data.n)'
          /\ acked' = [acked EXCEPT !.frame = e.data.acked]
          /\ e.data.acked >= acked.frame
          /\ e.data.acked \in Known(heard, FirstFrame)
          /\ e.data.acked \in Nat
      BY <1>1, <3>1, ClientEndTook
    <3>3. acked \in [tick : Nat, frame : Nat]
      BY <1>0 DEF Games
    <3>4. /\ acked' \in [tick : Nat, frame : Nat]
          /\ acked'.tick = acked.tick /\ acked'.frame = e.data.acked
      BY <3>2, <3>3
    <3> QED BY <3>2, <3>4
  <2> QED BY <1>1, <2>1, <2>2, ClientReceives
<1>5. Games'
  <2>1. frame - acked'.frame < RoundTrip
    <3>1. /\ frame \in Nat /\ RoundTrip \in Nat
          /\ acked.frame \in Nat /\ acked'.frame \in Nat
          /\ frame - acked.frame < RoundTrip
      BY <1>0, <1>4, TickNumbers, DeltaStreamAssumption, HalfAssumption DEF Games
    <3> QED BY <1>4, <3>1
  <2> QED BY <1>0, <1>2, <1>4, <2>1 DEF Games
<1>6. Downward'
  BY <1>0, <1>2, <1>3, TickNumbers, DownwardKept
<1>7. ToClient'
  BY <1>0, <1>2 DEF ToClient
<1>8. Upward'
  BY <1>0, <1>2, UpwardKept
<1>9. \E q : ServerEnd(q)'
  BY <1>0, <1>2, <1>4, TickNumbers, ServerEndKept DEF IInv
<1> QED BY <1>4, <1>5, <1>6, <1>7, <1>8, <1>9 DEF IInv

(* The server's end after the delta p, when it took it.                    *)
LEMMA ServerEndTook ==
  ASSUME IInv, NEW r, ServerEnd(r), NEW p \in toServer, ServerReceive(p),
         p.data.n > r, server'.conn.state = "ConnectedToClient",
         server'.conn.id = 0, Sound(server'.conn), Took(p, server'.conn)
  PROVE  /\ ServerEnd(p.data.n)'
         /\ acked' = [acked EXCEPT !.tick = p.data.acked]
         /\ p.data.acked >= acked.tick
         /\ p.data.acked \in Known(seen, FirstTick)
         /\ p.data.acked \in Nat
<1> DEFINE c == server.conn
           d == server'.conn
           n == p.data.n
<1>0. Games /\ Upward
  BY DEF IInv
<1>1. /\ UNCHANGED <<stream, tick, sent, heard, frame, client, seen, toClient>>
      /\ toServer' \subseteq toServer
      /\ server \in [conn : ConnectionType, lastAcked : Sequence]
      /\ server' = [server EXCEPT !.conn = Process(c, p, NoHandle).c]
  BY DEF ServerReceive, ServerEnd, clientVars, TakeFrom
<1>2. d \in ConnectionType
  BY DEF Sound
<1>3. /\ server' \in [conn : ConnectionType, lastAcked : Sequence]
      /\ server'.lastAcked = server.lastAcked
  BY <1>1, <1>2
<1>4. d.last = p /\ d.received = p.seq /\ d.ack = p.ack
  BY DEF Took
<1>5. /\ Good(p, FirstFrame, heard, FirstTick, seen)
      /\ n \in FirstFrame .. frame
      /\ p.seq = Wrap(n)
      /\ FirstFrame \in Nat /\ frame \in Nat
      /\ r \in FirstFrame - 1 .. frame
      /\ Newest(heard, FirstFrame) \in FirstFrame - 1 .. frame
      /\ Newest(heard, FirstFrame) <= r
  <2>1. r \in Newest(heard, FirstFrame) .. frame
    BY DEF ServerEnd, Receives
  <2> QED BY <1>0, <2>1, TickNumbers, UpInTime DEF Upward
<1>6. /\ p.data.acked \in Nat /\ p.data.acked \in Known(seen, FirstTick)
      /\ p.ack = SequenceOf(p.data.acked, FirstTick)
  BY <1>5 DEF Good
<1>7. p.data.acked >= acked.tick
  BY DEF ServerEnd
<1>8. p # c.last
  <2>1. CASE c.last = NoPacket
    BY <1>5, <2>1 DEF Good, DeltaPackets, NoPacket
  <2>2. CASE c.last # NoPacket
    <3>1. c.last.data.n = r
      BY <2>2 DEF ServerEnd, Receives
    <3> QED BY <1>5, <3>1
  <2> QED BY <2>1, <2>2
<1>9. acked' = [acked EXCEPT !.tick = p.data.acked]
  BY <1>4, <1>8 DEF ServerReceive
<1>10. acked'.tick = p.data.acked
  BY <1>0, <1>9 DEF Games
<1>11. Receives(d, n, FirstFrame, frame, heard, FirstTick, seen)
  BY <1>4, <1>5 DEF Receives
<1>12. \A f \in toServer' : f.data.n > n => f.data.acked >= p.data.acked
  <2>1. ASSUME NEW f \in toServer', f.data.n > n PROVE f.data.acked >= p.data.acked
    <3>1. f \in toServer
      BY <1>1, <2>1
    <3>2. f.data.acked \in Nat /\ f.data.n \in Nat
      BY <1>0, <3>1 DEF Upward, Good
    <3>3. n < f.data.n
      BY <1>5, <2>1, <3>2
    <3>4. p.data.acked <= f.data.acked
      BY <1>0, <3>1, <3>3 DEF Upward, Ordered
    <3> QED BY <1>6, <3>2, <3>4
  <2> QED BY <2>1
<1>13. d.last # NoPacket
  BY <1>4, <1>5 DEF Good, DeltaPackets, NoPacket
<1>14. ServerEnd(n)'
  <2>1. ~(n < FirstFrame)
    BY <1>5
  <2> HIDE DEF n
  <2>2. ServerState(n)'
    BY <1>4, <1>6, <1>10, <2>1 DEF ServerState
  <2>3. server'.lastAcked = SequenceOf(Newest(heard, FirstFrame), FirstFrame)
    BY <1>3 DEF ServerEnd
  <2> QED BY <1>1, <1>3, <1>10, <1>11, <1>12, <1>13, <2>2, <2>3 DEF ServerEnd
<1> QED BY <1>6, <1>7, <1>9, <1>14

(* A datagram reaches the server.                                          *)
LEMMA ServerReceiveKeeps ==
  ASSUME IInv, NEW p \in toServer, ServerReceive(p)
  PROVE  IInv'
<1> DEFINE c == server.conn
           d == server'.conn
<1>0. Games /\ Downward /\ ToClient /\ Upward
  BY DEF IInv
<1>1. PICK r : ServerEnd(r)
  BY DEF IInv
<1>2. /\ UNCHANGED <<stream, tick, sent, heard, frame, client, seen, arrived,
                     toClient>>
      /\ toServer' \subseteq toServer
      /\ server \in [conn : ConnectionType, lastAcked : Sequence]
      /\ server' = [server EXCEPT !.conn = Process(c, p, NoHandle).c]
  BY <1>1 DEF ServerReceive, ServerEnd, clientVars, TakeFrom
<1>3. d = Process(c, p, NoHandle).c
  BY <1>2
<1>4. /\ p \in DeltaPackets /\ p.id = 0 /\ Sound(c)
      /\ p.data.n \in FirstFrame .. frame /\ frame - p.data.n < Half
      /\ p.seq = Wrap(p.data.n)
      /\ r \in FirstFrame - 1 .. frame /\ frame - r < Half
      /\ r >= FirstFrame => c.received = Wrap(r)
      /\ FirstFrame \in Nat /\ frame \in Nat
  <2>1. p \in DeltaPackets /\ p.id = 0
    BY <1>0 DEF Upward, Good
  <2>2. Sound(c) /\ (r >= FirstFrame => c.received = Wrap(r))
    BY <1>1 DEF ServerEnd, Receives
  <2> QED BY <1>0, <1>1, <2>1, <2>2, TickNumbers, UpInTime
<1>5. \/ /\ c.state = "Listening" /\ c.count = 0 /\ c.handle # NoHandle
         /\ r < FirstFrame
      \/ /\ c.state = "ConnectedToClient" /\ c.id = 0
         /\ ~(r < FirstFrame)
  BY <1>1 DEF ServerEnd, ServerState
<1>6. ServerFed(c, p, d)
  <2>1. \/ c.state = "Listening" /\ c.count = 0 /\ c.handle # NoHandle
        \/ c.state = "ConnectedToClient" /\ c.id = 0
    BY <1>5
  <2> QED BY <1>3, <1>4, <2>1, ServerProcess
<1>7. Sound(d) /\ d.state = "ConnectedToClient" /\ d.id = 0
  BY <1>6 DEF ServerFed
<1>8. \/ p.data.n > r /\ Took(p, d)
      \/ ~(r < FirstFrame) /\ TookNone(c, d)
  <2>1. Greater(p.seq, c.received) => p.data.n > r
    <3>1. /\ p.data.n \in Nat /\ r \in Int /\ frame \in Nat /\ FirstFrame \in Nat
          /\ p.data.n >= FirstFrame /\ p.data.n <= frame /\ frame - p.data.n < Half
          /\ r <= frame /\ frame - r < Half
          /\ r >= FirstFrame => c.received = Wrap(r)
      BY <1>4
    <3>2. Greater(Wrap(p.data.n), c.received) => p.data.n > r
      BY <3>1, NewerSequence
    <3> QED BY <1>4, <3>2
  <2>2. r < FirstFrame => p.data.n > r
    BY <1>4
  <2> QED BY <1>5, <1>6, <2>1, <2>2 DEF ServerFed
<1>9. /\ \E q : ServerEnd(q)'
      /\ acked' \in [tick : Nat, frame : Nat]
      /\ acked'.frame = acked.frame
      /\ acked'.tick \in Known(seen, FirstTick)
      /\ acked'.tick >= acked.tick
  <2>1. CASE p.data.n > r /\ Took(p, d)
    <3>1. /\ ServerEnd(p.data.n)'
          /\ acked' = [acked EXCEPT !.tick = p.data.acked]
          /\ p.data.acked >= acked.tick
          /\ p.data.acked \in Known(seen, FirstTick)
          /\ p.data.acked \in Nat
      BY <1>1, <1>7, <2>1, ServerEndTook
    <3>2. acked \in [tick : Nat, frame : Nat]
      BY <1>0 DEF Games
    <3>3. /\ acked' \in [tick : Nat, frame : Nat]
          /\ acked'.frame = acked.frame /\ acked'.tick = p.data.acked
      BY <3>1, <3>2
    <3> QED BY <3>1, <3>3
  <2>2. CASE ~(r < FirstFrame) /\ TookNone(c, d)
    <3>1. d.last = c.last /\ d.received = c.received /\ d.ack = c.ack
      BY <2>2 DEF TookNone
    <3>2. acked' = acked
      BY <3>1 DEF ServerReceive
    <3>3. ServerState(r)'
      BY <1>1, <1>2, <1>7, <2>2, <3>1, <3>2 DEF ServerEnd, ServerState
    <3>4. Receives(d, r, FirstFrame, frame, heard, FirstTick, seen)
      BY <1>1, <1>7, <3>1 DEF ServerEnd, Receives
    <3>5. d \in ConnectionType
      BY <1>7 DEF Sound
    <3>6. /\ server' \in [conn : ConnectionType, lastAcked : Sequence]
          /\ server'.lastAcked = server.lastAcked
      BY <1>2, <3>5
    <3>7. /\ d.last = NoPacket => r = Newest(heard, FirstFrame)
          /\ server'.lastAcked = SequenceOf(Newest(heard, FirstFrame), FirstFrame)
          /\ \A f \in toServer' : f.data.n > r => f.data.acked >= acked.tick
      BY <1>1, <1>2, <3>1, <3>6 DEF ServerEnd
    <3>8. ServerEnd(r)'
      BY <1>2, <3>2, <3>3, <3>4, <3>6, <3>7 DEF ServerEnd
    <3>9. /\ acked \in [tick : Nat, frame : Nat]
          /\ acked.tick \in Known(seen, FirstTick)
          /\ acked.tick >= acked.tick
      BY <1>0 DEF Games
    <3> QED BY <3>2, <3>8, <3>9
  <2> QED BY <1>8, <2>1, <2>2
<1>10. Games'
  <2>1. tick - acked'.tick < RoundTrip
    <3>1. /\ tick \in Nat /\ RoundTrip \in Nat
          /\ acked.tick \in Nat /\ acked'.tick \in Nat
          /\ tick - acked.tick < RoundTrip
      BY <1>0, <1>9, TickNumbers, DeltaStreamAssumption, HalfAssumption DEF Games
    <3> QED BY <1>9, <3>1
  <2> QED BY <1>0, <1>2, <1>9, <2>1 DEF Games
<1>11. Down' = Down
  BY <1>2 DEF Down, Parts
<1>12. Downward'
  BY <1>0, <1>2, <1>11, TickNumbers, DownwardKept
<1>13. ToClient'
  BY <1>0, <1>2 DEF ToClient
<1>14. Upward'
  BY <1>0, <1>2, UpwardKept
<1>15. \E q : ClientEnd(q)'
  BY <1>0, <1>2, <1>9, <1>11, TickNumbers, ClientEndKept DEF IInv
<1> QED BY <1>9, <1>10, <1>12, <1>13, <1>14, <1>15 DEF IInv

-----------------------------------------------------------------------------
(* The invariant holds always.                                             *)

(* The two connections after the handshake, before any delta.              *)
LEMMA InitialConnections ==
  ASSUME Init
  PROVE  /\ Sound(server.conn) /\ Sound(client.conn)
         /\ server.conn.state = "Listening"
         /\ server.conn.count = 0
         /\ server.conn.handle # NoHandle
         /\ client.conn.state = "ConnectedToServer"
         /\ \A c \in {server.conn, client.conn} :
              /\ c.ack = NoAck /\ c.last = NoPacket /\ c.fragments = NoFragments
              /\ c.received = 0
<1>1. SharedKey \in Key /\ Handle \in StateHandle /\ Handle # NoHandle
  BY DeltaStreamAssumption, ConnectionAssumption DEF SharedKey, Handle
<1>2. NewConnection \in ConnectionType
  BY NewConnectionType
<1> DEFINE s == StartServer(NewConnection, SharedKey)
           c == StartClient(NewConnection)
<1>3. Sound(s) /\ s.state = "Listening" /\ s.count = 0 /\ Sound(c)
  BY <1>1, <1>2, StartSound
<1>4. /\ s.ack = NoAck /\ s.last = NoPacket
      /\ s.fragments = NoFragments /\ s.reason = "" /\ s.received = 0
      /\ c.ack = NoAck /\ c.last = NoPacket
      /\ c.fragments = NoFragments /\ c.reason = "" /\ c.received = 0
  BY DEF StartServer, StartClient, Reset, NewConnection
<1>5. s \in ConnectionType /\ c \in ConnectionType
  BY <1>3 DEF Sound
<1> HIDE DEF s, c
<1>6. /\ server.conn = [s EXCEPT !.handle = Handle]
      /\ client.conn = [c EXCEPT !.key = SharedKey, !.handle = Handle,
                                 !.state = "ConnectedToServer"]
  BY DEF Init, s, c
<1>7. /\ server.conn \in ConnectionType /\ server.conn.handle = Handle
      /\ server.conn.state = "Listening" /\ server.conn.count = 0
      /\ server.conn.ack = NoAck /\ server.conn.last = NoPacket
      /\ server.conn.fragments = NoFragments /\ server.conn.reason = ""
      /\ server.conn.received = 0
  BY <1>1, <1>3, <1>4, <1>5, <1>6 DEF ConnectionType
<1>8. /\ client.conn \in ConnectionType /\ client.conn.handle = Handle
      /\ client.conn.state = "ConnectedToServer"
      /\ client.conn.ack = NoAck /\ client.conn.last = NoPacket
      /\ client.conn.fragments = NoFragments /\ client.conn.reason = ""
      /\ client.conn.received = 0
  BY <1>1, <1>4, <1>5, <1>6 DEF ConnectionType, Keys, States
<1> QED BY <1>1, <1>7, <1>8 DEF Sound, IsConnected, Phase

(* Nothing is under way and the games know nothing of each other.          *)
LEMMA InitIInv == Init => IInv
<1> SUFFICES ASSUME Init PROVE IInv
  OBVIOUS
<1>1. /\ stream \in Streams /\ tick = FirstTick /\ frame = FirstFrame
      /\ sent = FALSE /\ toClient = {} /\ toServer = {}
      /\ seen = << >> /\ heard = << >>
      /\ acked = [tick |-> FirstTick - 1, frame |-> FirstFrame - 1]
      /\ server = [conn |-> server.conn, lastAcked |-> 0]
      /\ client = [conn |-> client.conn, processed |-> 0]
  BY DEF Init
<1>2. /\ FirstTick \in Nat \ {0} /\ FirstFrame \in Nat \ {0} /\ MaxFrame \in Nat
      /\ FirstFrame <= MaxFrame
      /\ stream.maxTick \in Nat /\ FirstTick <= stream.maxTick
      /\ RoundTrip \in Nat /\ RoundTrip > 1
  BY <1>1, DeltaStreamAssumption, HalfAssumption
<1>3. /\ Handed(seen, FirstTick, tick) /\ Handed(heard, FirstFrame, frame)
      /\ Range(seen) = {} /\ Range(heard) = {}
  BY <1>1 DEF Handed, Range
<1>4. Newest(seen, FirstTick) = FirstTick - 1
  BY <1>1, <1>2, <1>3, NewestKnown
<1>5. Newest(heard, FirstFrame) = FirstFrame - 1
  BY <1>1, <1>2, <1>3, NewestKnown
<1>6. Games
  <2>1. /\ acked.tick = FirstTick - 1 /\ acked.frame = FirstFrame - 1
        /\ acked \in [tick : Nat, frame : Nat]
    BY <1>1, <1>2
  <2>2. tick - acked.tick < RoundTrip /\ frame - acked.frame < RoundTrip
    BY <1>1, <1>2, <2>1
  <2>3. tick \in FirstTick .. stream.maxTick /\ frame \in FirstFrame .. MaxFrame
    BY <1>1, <1>2
  <2>4. /\ acked.tick \in Known(seen, FirstTick)
        /\ acked.frame \in Known(heard, FirstFrame)
    BY <2>1 DEF Known
  <2>5. sent \in BOOLEAN
    BY <1>1
  <2> QED BY <1>1, <1>3, <2>1, <2>2, <2>3, <2>4, <2>5 DEF Games
<1>7. Range(Parts) = {} /\ Uniform(client.conn.fragments)
  <2>1. client.conn.fragments.parts = << >>
    BY InitialConnections DEF NoFragments
  <2>2. Range(client.conn.fragments.parts) = {}
    BY <2>1 DEF Range
  <2> QED BY <2>2 DEF Parts, Uniform
<1>8. Down = {}
  BY <1>1, <1>7 DEF Down
<1>9. Downward
  BY <1>8 DEF Downward, Ordered
<1>10. ToClient /\ Upward
  BY <1>1 DEF ToClient, Upward, Ordered
<1>11. 0 \in Sequence
  BY SequenceHasZero
<1>12. ClientEnd(FirstTick - 1)
  <2>1. Receives(client.conn, FirstTick - 1, FirstTick, tick, seen, FirstFrame, heard)
    BY <1>1, <1>2, <1>4, InitialConnections DEF Receives
  <2>2. client \in [conn : ConnectionType, processed : Sequence]
    BY <1>1, <1>11, InitialConnections DEF Sound
  <2>3. Buffer(FirstTick - 1)
    BY <1>7 DEF Buffer
  <2>4. FirstTick - 1 < FirstTick
    BY <1>2
  <2>5. client.processed = SequenceOf(Newest(seen, FirstTick), FirstTick)
    BY <1>1, <1>4, <2>4 DEF SequenceOf
  <2>6. acked.frame = FirstFrame - 1
    BY <1>1
  <2>7. /\ arrived = [n |-> arrived.n, indexes |-> arrived.indexes,
                      last |-> arrived.last]
        /\ arrived.n \in FirstTick - 1 .. tick
    BY <1>1, <1>2 DEF Init
  <2> QED BY <1>8, <2>1, <2>2, <2>3, <2>4, <2>5, <2>6, <2>7, InitialConnections
          DEF ClientEnd
<1>13. ServerEnd(FirstFrame - 1)
  <2>1. Receives(server.conn, FirstFrame - 1, FirstFrame, frame, heard,
                     FirstTick, seen)
    BY <1>1, <1>2, <1>5, InitialConnections DEF Receives
  <2>2. server \in [conn : ConnectionType, lastAcked : Sequence]
    BY <1>1, <1>11, InitialConnections DEF Sound
  <2>3. FirstFrame - 1 < FirstFrame
    BY <1>2
  <2>4. ServerState(FirstFrame - 1)
    BY <1>1, <2>3, InitialConnections DEF ServerState
  <2>5. server.lastAcked = SequenceOf(Newest(heard, FirstFrame), FirstFrame)
    BY <1>1, <1>5, <2>3 DEF SequenceOf
  <2> QED BY <1>1, <1>5, <2>1, <2>2, <2>4, <2>5 DEF ServerEnd
<1> QED BY <1>6, <1>9, <1>10, <1>12, <1>13 DEF IInv

(* Every step keeps the invariant, and is a step of LatestDelivery, or of  *)
(* nothing, in each direction.                                             *)
LEMMA NextKeeps ==
  ASSUME ZeroIsOld, CutAlike, IInv, [Next]_vars
  PROVE  /\ IInv'
         /\ [Downstream!Next]_<<tick, seen>>
         /\ [Upstream!Next]_<<frame, heard>>
<1> USE DEF serverVars, clientVars
<1>1. CASE Tick
  BY <1>1, TickKeeps DEF Tick, Downstream!Next, Downstream!Advance
<1>2. CASE ServerSend
  BY <1>2, ServerSendKeeps DEF ServerSend
<1>3. CASE ServerSettle
  <2>1. IInv' /\ Extends(heard, heard', FirstFrame, frame)
    BY <1>3, ServerSettleKeeps
  <2> QED BY <1>3, <2>1 DEF ServerSettle, Extends, Upstream!Next, Upstream!Deliver
<1>4. CASE ClientSend
  BY <1>4, ClientSendKeeps DEF ClientSend, Upstream!Next, Upstream!Advance
<1>5. CASE ClientSettle
  <2>1. IInv' /\ (UNCHANGED seen \/ Extends(seen, seen', FirstTick, tick))
    BY <1>5, ClientSettleKeeps
  <2> QED BY <1>5, <2>1 DEF ClientSettle, Extends, Downstream!Next, Downstream!Deliver
<1>6. ASSUME NEW p \in toClient, ClientReceive(p)
      PROVE  IInv' /\ UNCHANGED <<tick, seen, frame, heard>>
  BY <1>6, ClientReceiveKeeps DEF ClientReceive
<1>7. ASSUME NEW p \in toClient, LoseToClient(p)
      PROVE  IInv' /\ UNCHANGED <<tick, seen, frame, heard>>
  BY <1>7, LoseKeeps DEF LoseToClient
<1>8. ASSUME NEW p \in toServer, ServerReceive(p)
      PROVE  IInv' /\ UNCHANGED <<tick, seen, frame, heard>>
  BY <1>8, ServerReceiveKeeps DEF ServerReceive
<1>9. ASSUME NEW p \in toServer, LoseToServer(p)
      PROVE  IInv' /\ UNCHANGED <<tick, seen, frame, heard>>
  BY <1>9, LoseKeeps DEF LoseToServer
<1>10. CASE UNCHANGED vars
  BY <1>10, LoseKeeps DEF vars
<1> QED BY <1>1, <1>2, <1>3, <1>4, <1>5, <1>6, <1>7, <1>8, <1>9, <1>10 DEF Next

(* The invariant of all behaviours.                                        *)
LEMMA IInvAlways ==
  ASSUME ZeroIsOld, CutAlike
  PROVE  Spec => []IInv
<1>1. IInv /\ [Next]_vars => IInv'
  BY NextKeeps
<1> QED BY <1>1, InitIInv, PTL DEF Spec

(* Nothing but deltas and their pieces is ever under way or in a           *)
(* connection, and neither connection leaves its state for the other's     *)
(* data, if sequences are no more than half a counter late.                *)
THEOREM TypeOKAlways ==
  ASSUME ZeroIsOld, CutAlike
  PROVE  Spec => []TypeOK
<1>1. IInv => TypeOK
  <2> SUFFICES ASSUME IInv PROVE TypeOK
    OBVIOUS
  <2>1. Games /\ ToClient /\ Upward
    BY DEF IInv
  <2>2. server.conn.state \in {"Listening", "ConnectedToClient"}
        /\ server.lastAcked \in Sequence
    BY DEF IInv, ServerEnd, ServerState
  <2>3. client.conn.state = "ConnectedToServer" /\ client.processed \in Sequence
    BY DEF IInv, ClientEnd
  <2>4. \A p \in toServer : p \in DeltaPackets
    BY <2>1 DEF Upward, Good
  <2> QED BY <2>1, <2>2, <2>3, <2>4 DEF TypeOK, Games, ToClient
<1> QED BY <1>1, IInvAlways, PTL

(* The sequence the server is told was acked is that of a tick the client  *)
(* was handed, or of none of this session, and the other way round: no     *)
(* state is ever coded against one its receiver does not have.             *)
THEOREM AcksAreTrueAlways ==
  ASSUME ZeroIsOld, CutAlike
  PROVE  Spec => []AcksAreTrue
<1>1. IInv => AcksAreTrue
  <2> SUFFICES ASSUME IInv PROVE AcksAreTrue
    OBVIOUS
  <2>1. Games
    BY DEF IInv
  <2>2. PICK r : ServerEnd(r)
    BY DEF IInv
  <2>3. PICK q : ClientEnd(q)
    BY DEF IInv
  <2>4. /\ FirstTick \in Nat \ {0} /\ tick \in Nat /\ FirstTick <= tick
        /\ acked.tick \in FirstTick - 1 .. tick /\ tick - acked.tick < Half
        /\ frame \in Nat /\ FirstFrame \in Nat
        /\ acked.frame \in FirstFrame - 1 .. frame /\ frame - acked.frame < Half
    BY <2>1, TickNumbers
  <2>5. ASSUME server.conn.ack # NoAck
        PROVE  Recent(tick, server.conn.ack) \in Range(seen) \cup 0 .. FirstTick - 1
    <3>1. server.conn.ack = SequenceOf(acked.tick, FirstTick)
      BY <2>2, <2>5 DEF ServerEnd, ServerState
    <3>2. CASE acked.tick < FirstTick
      <4>1. server.conn.ack = 0
        BY <3>1, <3>2 DEF SequenceOf
      <4>2. Recent(tick, 0) \in Nat /\ Recent(tick, 0) <= tick
        BY <2>4, RecentZero
      <4>3. Wrap(Recent(tick, 0)) = 0
        BY <2>4, WrapOfMultiple DEF Recent
      <4>4. tick <= FirstTick + RoundTrip - 2
        BY <2>1, <2>4, <3>2, DeltaStreamAssumption, HalfAssumption DEF Games
      <4>5. RoundTrip \in Int
        BY DeltaStreamAssumption, HalfAssumption
      <4>6. ~(Recent(tick, 0) >= FirstTick)
        BY <2>4, <4>2, <4>3, <4>4, <4>5 DEF ZeroIsOld
      <4> QED BY <2>4, <4>1, <4>2, <4>6
    <3>3. CASE ~(acked.tick < FirstTick)
      <4>1. Recent(tick, server.conn.ack) = acked.tick
        BY <2>4, <3>1, <3>3, RecentOfAck DEF SequenceOf
      <4> QED BY <2>1, <2>4, <3>3, <4>1 DEF Games, Known
    <3> QED BY <3>2, <3>3
  <2>6. ASSUME client.conn.ack # NoAck
        PROVE  Recent(frame, client.conn.ack)
                  \in Range(heard) \cup 0 .. FirstFrame - 1
    <3>1. client.conn.ack = Wrap(acked.frame) /\ acked.frame >= FirstFrame
      BY <2>3, <2>6 DEF ClientEnd
    <3>2. Recent(frame, client.conn.ack) = acked.frame
      BY <2>4, <3>1, RecentOfAck
    <3> QED BY <2>1, <2>4, <3>1, <3>2 DEF Games, Known
  <2> QED BY <2>5, <2>6 DEF AcksAreTrue
<1> QED BY <1>1, IInvAlways, PTL

(* The client's game is handed ticks of the server's, each newer than all  *)
(* before and decoded against one it has, whatever is lost, repeated,      *)
(* reordered or cut and however often the sequence wraps: the stream to    *)
(* the client implements LatestDelivery.                                   *)
THEOREM DownstreamDeliversAlways ==
  ASSUME ZeroIsOld, CutAlike
  PROVE  Spec => DownstreamDelivers
<1>1. Init => Downstream!Init
  BY DEF Init, Downstream!Init
<1>2. IInv /\ [Next]_vars => [Downstream!Next]_<<tick, seen>>
  BY NextKeeps
<1> QED BY <1>1, <1>2, IInvAlways, PTL DEF Spec, DownstreamDelivers, Downstream!Spec

(* The same of the client's frames and the server's game: the stream to    *)
(* the server implements LatestDelivery.                                   *)
THEOREM UpstreamDeliversAlways ==
  ASSUME ZeroIsOld, CutAlike
  PROVE  Spec => UpstreamDelivers
<1>1. Init => Upstream!Init
  BY DEF Init, Upstream!Init
<1>2. IInv /\ [Next]_vars => [Upstream!Next]_<<frame, heard>>
  BY NextKeeps
<1> QED BY <1>1, <1>2, IInvAlways, PTL DEF Spec, UpstreamDelivers, Upstream!Spec

-----------------------------------------------------------------------------
(* The most recent complete delta, when datagrams are not repeated.        *)

(* One of more pieces.                                                     *)
LEMMA PieceFacts ==
  ASSUME NEW d \in DeltaPackets, NEW K \in Nat \ {0, 1},
         NEW p \in FragmentPacket(d, K)
  PROVE  /\ p \in FragmentPackets /\ IsFragment(p)
         /\ p.index \in 0 .. K - 1
         /\ p = Fragment(d, p.index, p.index = K - 1)
         /\ p.last = (p.index = K - 1)
         /\ p.whole = d /\ p.seq = d.seq
<1>1. PICK i \in 0 .. K - 1 : p = Fragment(d, i, i = K - 1)
  BY DEF FragmentPacket
<1>2. p.index = i /\ p.last = (i = K - 1) /\ p.whole = d /\ p.seq = d.seq
  BY <1>1 DEF Fragment
<1>3. IsFragment(p) /\ p \in FragmentPackets
  BY <1>2, PieceOfDelta, DeltaOrFragment
<1> QED BY <1>1, <1>2, <1>3

(* Pieces of the delta d, each once, with all the indexes there are, are   *)
(* joined to d.                                                            *)
LEMMA AllPiecesJoin ==
  ASSUME NEW d \in DeltaPackets, NEW K \in Nat \ {0, 1}, NEW m \in FragmentsType,
         Range(m.parts) \subseteq FragmentPacket(d, K),
         Len(m.parts) = Cardinality({ p.index : p \in Range(m.parts) }),
         0 .. K - 1 \subseteq { p.index : p \in Range(m.parts) }
  PROVE  GetDefragmentedPacket(m) = d
<1> DEFINE parts == m.parts
           S == {Len(parts)} \cup { parts[k].index + 1 : k \in DOMAIN parts }
           T(i) == { k \in DOMAIN parts : parts[k].index = i }
<1>1. /\ parts \in Seq(FragmentPackets) /\ Len(parts) \in Nat
      /\ DOMAIN parts = 1 .. Len(parts)
  BY DEF FragmentsType
<1>2. ASSUME NEW k \in DOMAIN parts
      PROVE  /\ parts[k].index \in 0 .. K - 1
             /\ parts[k].last = (parts[k].index = K - 1)
             /\ parts[k].whole = d
  <2>1. parts[k] \in FragmentPacket(d, K)
    BY DEF Range
  <2> QED BY <2>1, PieceFacts
<1>3. { p.index : p \in Range(parts) } = 0 .. K - 1
  BY <1>2 DEF Range
<1>4. Len(parts) = K
  <2>1. Cardinality(0 .. K - 1) = K
    <3>1. 0 \in Int /\ K - 1 \in Int /\ K >= 1
      OBVIOUS
    <3>2. Cardinality(0 .. K - 1) = IF 0 > K - 1 THEN 0 ELSE K - 1 - 0 + 1
      BY <3>1, FS_Interval
    <3> QED BY <3>1, <3>2
  <2>2. Len(parts) = Cardinality({ p.index : p \in Range(parts) })
    OBVIOUS
  <2> HIDE DEF parts
  <2> QED BY <1>3, <2>1, <2>2
<1>5. \A i \in 0 .. K - 1 : Filled(parts, i)
  BY <1>3 DEF Filled, Range
<1>6. SortedSize(parts) = K
  <2>1. S \in SUBSET (0 .. K) /\ K \in S /\ S # {}
    <3>1. \A k \in DOMAIN parts : parts[k].index + 1 \in 0 .. K
      <4>1. ASSUME NEW k \in DOMAIN parts PROVE parts[k].index + 1 \in 0 .. K
        <5>1. parts[k].index \in 0 .. K - 1
          BY <1>2
        <5> QED BY <5>1
      <4> QED BY <4>1
    <3>2. Len(parts) \in 0 .. K /\ K \in {Len(parts)}
      BY <1>4
    <3> HIDE DEF parts
    <3> QED BY <3>1, <3>2
  <2>2. SortedSize(parts) = Max(S)
    BY DEF SortedSize
  <2> HIDE DEF S
  <2>3. Max(S) \in S /\ \A j \in S : Max(S) >= j
    BY <2>1, MaxOfBounded
  <2>4. Max(S) \in 0 .. K /\ Max(S) >= K
    BY <2>1, <2>3
  <2> HIDE DEF parts
  <2> QED BY <2>2, <2>4
<1>7. ASSUME NEW i \in 0 .. K - 1
      PROVE  /\ Sorted(parts, i).whole = d
             /\ Sorted(parts, i).last = (i = K - 1)
  <2>1. T(i) \in SUBSET (0 .. K) /\ T(i) # {}
    <3>1. DOMAIN parts \in SUBSET (0 .. K)
      <4>1. 1 .. K \in SUBSET (0 .. K)
        OBVIOUS
      <4> HIDE DEF parts
      <4> QED BY <1>1, <1>4, <4>1
    <3>2. PICK k \in DOMAIN parts : parts[k].index = i
      BY <1>5 DEF Filled
    <3> HIDE DEF parts
    <3> QED BY <3>1, <3>2
  <2>2. Max(T(i)) \in T(i)
    <3> HIDE DEF T
    <3> QED BY <2>1, MaxOfBounded
  <2>3. Sorted(parts, i) = parts[Max(T(i))]
    BY DEF Sorted
  <2>4. Max(T(i)) \in DOMAIN parts /\ parts[Max(T(i))].index = i
    BY <2>2
  <2> HIDE DEF T, parts
  <2> QED BY <1>2, <2>3, <2>4
<1>8. Complete(parts)
  <2>1. K - 1 \in 0 .. K - 1 /\ 0 \in 0 .. K - 1
    OBVIOUS
  <2> QED BY <1>5, <1>6, <1>7, <2>1 DEF Complete
<1>9. Joined(parts) = d
  <2>1. 0 \in 0 .. K - 1
    OBVIOUS
  <2> QED BY <1>6, <1>7, <2>1 DEF Joined
<1> QED BY <1>8, <1>9 DEF GetDefragmentedPacket

(* What a client takes for certain.                                        *)
ClientFedAll(c, p, d) ==
  LET fragments == AddPacket(c.fragments, p)
      joined    == GetDefragmentedPacket(fragments)
  IN  /\ d.fragments = IF IsFragment(p) /\ Greater(p.seq, c.received)
                       THEN fragments ELSE c.fragments
      /\ (~IsFragment(p) /\ Greater(p.seq, c.received)) => d.received = p.seq
      /\ (/\ IsFragment(p) /\ Greater(p.seq, c.received)
          /\ joined \in DeltaPackets /\ Greater(joined.seq, c.received))
           => d.received = joined.seq

(* Connection::Process of a client: the buffer, and what must be taken.    *)
LEMMA ClientProcessAll ==
  ASSUME NEW c, Sound(c), c.state = "ConnectedToServer",
         NEW p \in DeltaPackets \cup FragmentPackets
  PROVE  ClientFedAll(c, p, Process(c, p, NoHandle).c)
<1> DEFINE r == ParseConnectedToServer(c, p)
           fragments == AddPacket(c.fragments, p)
           joined == GetDefragmentedPacket(fragments)
           held == [c EXCEPT !.fragments = fragments]
<1>1. /\ c \in ConnectionType /\ c.fragments \in FragmentsType
      /\ p \in Packet /\ NoHandle \in Handles
  BY DEF Sound, ConnectionType, FragmentsType, Packet, Handles
<1>2. Parse(c, p, NoHandle) = r
  BY DEF Parse
<1>3. ASSUME r.c.state = "ConnectedToServer"
      PROVE  Process(c, p, NoHandle) = r
  <2>1. Generate(r) = r
    BY <1>3 DEF Generate
  <2> QED BY <1>2, <2>1 DEF Process
<1>4. CASE p \in DeltaPackets
  <2>1. ~IsFragment(p) /\ r.c = ParseDelta(c, p)
    BY <1>4, DeltaOrFragment DEF ParseConnectedToServer, Quiet
  <2>2. r.c.state = "ConnectedToServer"
    <3>1. ~SaysDisconnect(c, p)
      BY <1>4 DEF SaysDisconnect, ValidWithKey, DeltaPackets
    <3> QED BY <2>1, <3>1, <1>1, <1>4, TakeDeltaType DEF ParseDelta
  <2>3. /\ r.c.fragments = c.fragments
        /\ Greater(p.seq, c.received) => r.c.received = p.seq
    BY <1>1, <1>4, <2>1, ParseDeltaTakes DEF Took
  <2> QED BY <1>3, <2>1, <2>2, <2>3 DEF ClientFedAll
<1>5. CASE p \in FragmentPackets /\ ~Greater(p.seq, c.received)
  <2>1. r.c = c
    BY <1>5, DeltaOrFragment DEF ParseConnectedToServer, Quiet
  <2> QED BY <1>3, <1>5, <2>1, DeltaOrFragment DEF ClientFedAll
<1>6. CASE p \in FragmentPackets /\ Greater(p.seq, c.received)
  <2>1. IsFragment(p)
    BY <1>6, DeltaOrFragment
  <2>2. /\ fragments \in FragmentsType
        /\ joined \in DeltaPackets \cup {NoPacket}
    BY <1>1, <1>6, AddPacketType, GetDefragmentedPacketType
  <2>3. r.c = ParseDelta(held, joined)
    BY <1>6, <2>1 DEF ParseConnectedToServer, Quiet
  <2> HIDE DEF fragments, joined, r
  <2>4. /\ held \in ConnectionType /\ held.fragments = fragments
        /\ held.received = c.received /\ held.state = c.state
    BY <1>1, <2>2 DEF ConnectionType, FragmentsType
  <2> HIDE DEF held
  <2>5. r.c.state = "ConnectedToServer"
    <3>1. ~SaysDisconnect(held, joined)
      BY <2>2 DEF SaysDisconnect, ValidWithKey, DeltaPackets, NoPacket
    <3>2. IsDelta(joined) => joined \in DeltaPackets
      BY <2>2 DEF IsDelta, NoPacket
    <3> QED BY <2>3, <3>1, <3>2, <2>4, TakeDeltaType DEF ParseDelta, IsNewDelta
  <2>6. /\ r.c.fragments = held.fragments
        /\ joined \in DeltaPackets /\ Greater(joined.seq, held.received)
             => r.c.received = joined.seq
    BY <2>2, <2>3, <2>4, ParseDeltaTakes DEF Took
  <2>7. Process(c, p, NoHandle) = r
    BY <1>3, <2>5
  <2> QED BY <1>6, <2>1, <2>4, <2>6, <2>7 DEF ClientFedAll, fragments, joined
<1> QED BY <1>4, <1>5, <1>6

(* The newest delta of which anything has arrived is d, cut into K pieces: *)
(* those that arrived are in the buffer, each once, the others, at least   *)
(* one, may be on their way.                                               *)
Gathering(d, K) ==
  /\ d.data.n = arrived.n
  /\ Range(Parts) \subseteq FragmentPacket(d, K)
  /\ arrived.indexes = { p.index : p \in Range(Parts) }
  /\ Len(Parts) = Cardinality(arrived.indexes)
  /\ arrived.indexes # {}
  /\ ~(0 .. K - 1 \subseteq arrived.indexes)
  /\ arrived.last = IF K - 1 \in arrived.indexes THEN K - 1 ELSE Max(stream.pieces)
  /\ \A p \in toClient : NumberOf(p) = arrived.n =>
       p \in FragmentPacket(d, K) /\ p.index \notin arrived.indexes

(* A delta of which something has arrived is being gathered until taken.   *)
Gathers ==
  (/\ ~stream.duplicates
   /\ arrived.n >= FirstTick
   /\ client.conn.received # Wrap(arrived.n))
    => \E d \in DeltaPackets, K \in stream.pieces \ {1} : Gathering(d, K)

(* All datagrams of one delta are cut alike.                               *)
Cuts ==
  \A p \in toClient : \E K \in stream.pieces :
    \A q \in toClient : Whole(q) = Whole(p) => q \in FragmentPacket(Whole(p), K)

Gathered ==
  /\ Cuts
  /\ arrived.n = tick => sent
  /\ Gathers

(* What a step keeps that leaves the client's buffer alone.                *)
LEMMA GathersKept ==
  ASSUME Gathers,
         UNCHANGED <<stream, arrived>>,
         client'.conn.fragments = client.conn.fragments,
         client'.conn.received = client.conn.received,
         \A p \in toClient' : p \in toClient \/ NumberOf(p) # arrived.n
  PROVE  Gathers'
<1>1. /\ stream' = stream /\ arrived' = arrived
      /\ Parts' = Parts
  BY DEF Parts
<1>2. \A d, K : Gathering(d, K) => Gathering(d, K)'
  BY <1>1 DEF Gathering
<1> QED BY <1>1, <1>2 DEF Gathers

(* A step that sends the client nothing.                                   *)
LEMMA CutsKept ==
  ASSUME Cuts, toClient' \subseteq toClient, stream' = stream
  PROVE  Cuts'
BY DEF Cuts

(* The client's filter lets through what is newer than the last taken.     *)
LEMMA HeardIffNewer ==
  ASSUME IInv, CutAlike, FirstIsHeard, NEW r, ClientEnd(r),
         NEW n \in FirstTick .. tick, tick - n < Half
  PROVE  /\ Greater(Wrap(n), client.conn.received) <=> n > r
         /\ client.conn.received = Wrap(n) => n <= r
<1>0. Games
  BY DEF IInv
<1>1. /\ tick \in Nat /\ FirstTick \in Nat /\ RoundTrip \in Nat /\ Half \in Nat
      /\ r \in FirstTick - 1 .. tick /\ tick - r < Half
      /\ n \in Nat /\ n >= FirstTick
  BY <1>0, TickNumbers, DownInTime, DeltaStreamAssumption, HalfAssumption
<1>2. n - n < Half
  BY <1>1, HalfAssumption
<1>3. ~Greater(Wrap(n), Wrap(n))
  BY <1>1, <1>2, AcceptsIffNewer
<1>4. CASE r >= FirstTick
  <2>1. client.conn.received = Wrap(r)
    BY <1>4 DEF ClientEnd, Receives
  <2>2. n - r < Half /\ r - n < Half
    BY <1>1
  <2>3. Greater(Wrap(n), Wrap(r)) <=> n > r
    BY <1>1, <2>2, AcceptsIffNewer
  <2> QED BY <1>1, <1>3, <2>1, <2>3
<1>5. CASE r < FirstTick
  <2>1. client.conn.received = 0
    BY <1>5 DEF ClientEnd
  <2>2. Newest(seen, FirstTick) <= r /\ Newest(seen, FirstTick) \in Int
    BY <1>0, <1>1, TickNumbers DEF ClientEnd, Receives
  <2>3. acked.tick \in Nat /\ acked.tick <= Newest(seen, FirstTick)
        /\ tick - acked.tick < RoundTrip
    BY <1>0, TickNumbers DEF Games
  <2>4. tick <= FirstTick + RoundTrip - 2
    BY <1>1, <1>5, <2>2, <2>3
  <2>5. Greater(Wrap(n), 0)
    BY <1>1, <2>4 DEF FirstIsHeard
  <2>6. n > r
    BY <1>1, <1>5
  <2> QED BY <1>3, <2>1, <2>5, <2>6
<1> QED BY <1>1, <1>4, <1>5

(* A server's delta is the first with its number.                          *)
LEMMA ServerSendGathers ==
  ASSUME IInv, ZeroIsOld, CutAlike, ServerSend, Gathered
  PROVE  Gathered'
<1>1. PICK delta \in DeltaPackets, pieces \in stream.pieces :
        /\ delta.data.n = tick
        /\ toClient' = toClient \cup FragmentPacket(delta, pieces)
  BY ServerSendKeeps
<1>2. /\ stream' = stream /\ arrived' = arrived /\ client' = client
      /\ tick' = tick /\ sent' = TRUE /\ ~sent
  BY DEF ServerSend, clientVars
<1>3. pieces \in Nat \ {0}
  BY DeltaStreamAssumption DEF IInv, Games
<1>4. \A p \in FragmentPacket(delta, pieces) : Whole(p) = delta
  BY <1>3, PieceOfDelta
<1>5. \A p \in toClient : Whole(p) # delta
  BY <1>1, <1>2 DEF IInv, Downward, Down
<1>6. Cuts'
  <2>1. ASSUME NEW p \in toClient'
        PROVE  \E K \in stream.pieces : \A q \in toClient' :
                 Whole(q) = Whole(p) => q \in FragmentPacket(Whole(p), K)
    <3>1. CASE p \in toClient
      BY <1>1, <1>4, <1>5, <3>1 DEF Gathered, Cuts
    <3>2. CASE p \in FragmentPacket(delta, pieces)
      BY <1>1, <1>4, <1>5, <3>2
    <3> QED BY <1>1, <3>1, <3>2
  <2> QED BY <1>2, <2>1 DEF Cuts
<1>7. Gathers'
  <2>1. \A p \in toClient' : p \in toClient \/ NumberOf(p) # arrived.n
    BY <1>1, <1>2, <1>4, NumberOfWhole DEF Gathered
  <2> QED BY <1>2, <2>1, GathersKept DEF Gathered
<1> QED BY <1>2, <1>6, <1>7 DEF Gathered

(* AddPacket, when the buffer is of the number k and the piece of n.       *)
LEMMA AddPacketByNumber ==
  ASSUME NEW m \in FragmentsType, NEW p, NEW n \in Int, NEW k \in Int,
         n - k < Half, k - n < Half, p.seq = Wrap(n),
         m.parts # << >> => m.current = Wrap(k)
  PROVE  /\ (m.parts # << >> /\ n < k) => AddPacket(m, p) = m
         /\ (m.parts # << >> /\ n = k)
              => AddPacket(m, p) = [current |-> p.seq, parts |-> Append(m.parts, p)]
         /\ (m.parts = << >> \/ n > k)
              => AddPacket(m, p) = [current |-> p.seq, parts |-> << p >>]
<1> DEFINE kept == IF Less(m.current, p.seq) THEN << >> ELSE m.parts
<1>1. m = [current |-> m.current, parts |-> m.parts]
  BY DEF FragmentsType
<1>2. CASE m.parts # << >> /\ n < k
  <2>1. ~Less(m.current, p.seq) /\ m.current # p.seq
    BY <1>2, LessForward
  <2> QED BY <1>2, <2>1 DEF AddPacket
<1>3. CASE m.parts # << >> /\ n = k
  <2>1. m.current = p.seq
    BY <1>3
  <2>2. ~Less(m.current, p.seq)
    <3>1. ~Greater(Wrap(k), Wrap(n))
      BY <1>3, AcceptsIffNewer
    <3> QED BY <1>3, <2>1, <3>1 DEF Greater, Less
  <2>3. AddPacket(m, p) = [m EXCEPT !.parts = Append(m.parts, p)]
    BY <1>3, <2>1, <2>2 DEF AddPacket
  <2>4. [m EXCEPT !.parts = Append(m.parts, p)]
          = [current |-> m.current, parts |-> Append(m.parts, p)]
    BY <1>1
  <2>5. AddPacket(m, p) = [current |-> p.seq, parts |-> Append(m.parts, p)]
    BY <2>1, <2>3, <2>4
  <2> HIDE DEF kept
  <2> QED BY <1>3, <2>5
<1>4. CASE m.parts = << >> \/ n > k
  <2>1. kept = << >>
    BY <1>4, LessForward
  <2> QED BY <1>4, <2>1 DEF AddPacket
<1> QED BY <1>2, <1>3, <1>4

(* A datagram of the number n reaches the client, which has taken r.       *)
Reached(r, p, n) ==
  /\ p \in toClient
  /\ p \in DeltaPackets \cup FragmentPackets
  /\ Whole(p) \in Down /\ Whole(p) \in DeltaPackets
  /\ n = Whole(p).data.n /\ n = NumberOf(p)
  /\ p.seq = Wrap(n) /\ Whole(p).seq = Wrap(n)
  /\ n \in FirstTick .. tick
  /\ r \in FirstTick - 1 .. tick
  /\ arrived.n \in r .. tick
  /\ arrived.n - n < Half /\ n - arrived.n < Half
  /\ arrived' = Arrive(p)
  /\ arrived'.n = IF n < arrived.n THEN arrived.n ELSE n
  /\ r >= FirstTick => client.conn.received = Wrap(r)
  /\ Greater(Wrap(n), client.conn.received) <=> n > r
  /\ arrived.n >= FirstTick /\ client.conn.received = Wrap(arrived.n)
       => arrived.n = r
  /\ \/ client'.conn.received = client.conn.received
     \/ r < arrived'.n

(* That is so of every datagram that reaches the client.                   *)
LEMMA ReachedClient ==
  ASSUME IInv, CutAlike, FirstIsHeard, NEW r, ClientEnd(r),
         NEW p \in toClient, ClientReceive(p)
  PROVE  Reached(r, p, Whole(p).data.n)
<1> DEFINE n == Whole(p).data.n
<1>0. Games /\ Downward /\ ToClient
  BY DEF IInv
<1>1. Whole(p) \in Down
  BY DEF Down
<1>2. /\ n \in FirstTick .. tick /\ tick - n < Half /\ Whole(p).seq = Wrap(n)
      /\ r \in FirstTick - 1 .. tick /\ tick - r < Half
      /\ FirstTick \in Nat /\ tick \in Nat /\ Half \in Nat
      /\ \A e \in Down : e.data.n \in FirstTick .. tick
  BY <1>0, <1>1, TickNumbers, DownInTime, HalfAssumption
<1>3. /\ p \in DeltaPackets \cup FragmentPackets
      /\ Whole(p) \in DeltaPackets
      /\ p.seq = Wrap(n)
  BY <1>0, <1>1, <1>2, DeltaOrFragment DEF ToClient, Downward, Good
<1>4. /\ arrived.n \in r .. tick
      /\ r >= FirstTick => client.conn.received = Wrap(r)
  BY DEF ClientEnd, Receives
<1>5. arrived' = Arrive(p)
  BY DEF ClientReceive
<1>6. NumberOf(p) = n
  BY NumberOfWhole
<1>7. Greater(Wrap(n), client.conn.received) <=> n > r
  BY <1>2, HeardIffNewer
<1> HIDE DEF n
<1>8. arrived.n - n < Half /\ n - arrived.n < Half /\ tick - arrived.n < Half
  BY <1>2, <1>4
<1>9. /\ arrived'.n \in {arrived.n, n} /\ arrived'.n \in arrived.n .. tick
      /\ arrived'.n >= n
  BY ArrivedLater DEF n
<1>10. arrived'.n = IF n < arrived.n THEN arrived.n ELSE n
  BY <1>2, <1>4, <1>9
<1>11. ASSUME arrived.n >= FirstTick, client.conn.received = Wrap(arrived.n)
       PROVE  arrived.n = r
  <2>1. arrived.n \in FirstTick .. tick
    BY <1>2, <1>4, <1>11
  <2>2. arrived.n <= r
    BY <1>8, <1>11, <2>1, HeardIffNewer
  <2> QED BY <1>2, <1>4, <2>2
<1>12. client'.conn.received = client.conn.received \/ r < arrived'.n
  <2>1. CASE TookNone(client.conn, client'.conn)
    BY <2>1 DEF TookNone
  <2>2. CASE \E e : ClientTakes(client.conn, r, p, client'.conn, e)
    <3>1. PICK e : ClientTakes(client.conn, r, p, client'.conn, e)
      BY <2>2
    <3>2. e \in Down /\ e.data.n > r /\ e.data.n \in Int
      BY <1>2, <3>1 DEF ClientTakes
    <3>3. e.data.n <= arrived'.n
      <4>1. CASE IsFragment(p)
        <5>1. \E q \in Range(Parts') : e = q.whole
          BY <3>1, <4>1 DEF ClientTakes, Parts
        <5> QED BY <5>1, ArrivedLater
      <4>2. CASE ~IsFragment(p)
        <5>1. e.data.n = n
          BY <3>1, <4>2 DEF ClientTakes, Whole, n
        <5> QED BY <1>9, <5>1, <1>2
      <4> QED BY <4>1, <4>2
    <3>4. arrived'.n \in Int
      BY <1>2, <1>4, <1>9
    <3> QED BY <1>2, <3>2, <3>3, <3>4
  <2> QED BY <2>1, <2>2, ClientReceives
<1>13. /\ Whole(p) \in Down
       /\ n = Whole(p).data.n
  BY <1>1 DEF n
<1>14. Reached(r, p, n)
  BY <1>2, <1>3, <1>4, <1>5, <1>6, <1>7, <1>8, <1>10, <1>11, <1>12, <1>13 DEF Reached
<1> QED BY <1>14 DEF n

(* The buffer after a datagram, and what must have been taken.             *)
LEMMA FedAll ==
  ASSUME IInv, NEW r, ClientEnd(r), NEW p \in toClient, ClientReceive(p)
  PROVE  /\ ClientFedAll(client.conn, p, client'.conn)
         /\ client.conn.fragments \in FragmentsType
         /\ Uniform(client.conn.fragments)
<1> DEFINE d == Process(client.conn, p, NoHandle).c
<1>1. /\ client \in [conn : ConnectionType, processed : Sequence]
      /\ client' = [client EXCEPT !.conn = d]
      /\ Sound(client.conn) /\ client.conn.state = "ConnectedToServer"
      /\ p \in DeltaPackets \cup FragmentPackets
      /\ Uniform(client.conn.fragments)
  BY DEF IInv, ToClient, ClientReceive, ClientEnd, Receives, Buffer
<1>2. ClientFedAll(client.conn, p, d)
  BY <1>1, ClientProcessAll
<1> HIDE DEF d
<1>3. client'.conn = d
  BY <1>1
<1>4. client.conn.fragments \in FragmentsType
  BY <1>1 DEF ConnectionType, FragmentsType
<1> QED BY <1>1, <1>2, <1>3, <1>4

(* Pieces of the newest delta are not disturbed by an older datagram.      *)
LEMMA OlderGathers ==
  ASSUME IInv, NEW r, ClientEnd(r), NEW p \in toClient, ClientReceive(p),
         NEW n, Reached(r, p, n), n < arrived.n,
         NEW d \in DeltaPackets, NEW K \in stream.pieces \ {1}, Gathering(d, K)
  PROVE  Gathering(d, K)'
<1> DEFINE m == client.conn.fragments
<1>1. /\ stream' = stream /\ toClient' \subseteq toClient
      /\ arrived' = arrived
  BY DEF ClientReceive, serverVars, TakeFrom, Reached, Arrive
<1>2. /\ m \in FragmentsType /\ Uniform(m)
      /\ client'.conn.fragments
           = IF IsFragment(p) /\ Greater(p.seq, client.conn.received)
             THEN AddPacket(m, p) ELSE m
  BY FedAll DEF ClientFedAll
<1>3. PICK q : q \in Range(Parts)
  BY DEF Gathering
<1>4. m.parts # << >>
  BY <1>3 DEF Range, Parts
<1>5. m.current = Wrap(arrived.n)
  <2>1. K \in Nat \ {0}
    BY DeltaStreamAssumption DEF IInv, Games
  <2>2. q.whole.data.n = arrived.n
    <3>1. q \in FragmentPacket(d, K)
      BY <1>3 DEF Gathering
    <3>2. q.whole = d
      BY <2>1, <3>1, PieceOfDelta, PieceFacts
    <3> QED BY <3>2 DEF Gathering
  <2>3. q.whole.seq = Wrap(q.whole.data.n)
    <3>1. q.whole \in Down
      BY <1>3 DEF Down
    <3> QED BY <3>1 DEF IInv, Downward, Good
  <2> QED BY <1>2, <1>3, <2>2, <2>3 DEF Uniform, Parts
<1>6. AddPacket(m, p) = m
  <2>1. /\ n \in Int /\ arrived.n \in Int /\ p.seq = Wrap(n)
        /\ arrived.n - n < Half /\ n - arrived.n < Half
    BY TickNumbers DEF Reached, IInv
  <2> HIDE DEF m
  <2> QED BY <1>2, <1>4, <1>5, <2>1, AddPacketByNumber
<1>7. Parts' = Parts
  BY <1>2, <1>6 DEF Parts
<1> QED BY <1>1, <1>7 DEF Gathering

(* The delta whose piece p is the first to arrive of a newer number.       *)
LEMMA NewestGathers ==
  ASSUME IInv, CutAlike, NEW r, ClientEnd(r), NEW p \in toClient, ClientReceive(p),
         NEW n, Reached(r, p, n), n > arrived.n, IsFragment(p),
         Cuts, ~stream.duplicates
  PROVE  \E K \in stream.pieces \ {1} : Gathering(Whole(p), K)'
<1> DEFINE m == client.conn.fragments
           d == Whole(p)
<1>1. PICK K \in stream.pieces :
        \A q \in toClient : Whole(q) = d => q \in FragmentPacket(d, K)
  BY DEF Cuts
<1>2. K \in Nat \ {0} /\ d \in DeltaPackets
  BY DeltaStreamAssumption DEF IInv, Games, Reached
<1>3. p \in FragmentPacket(d, K) /\ K \in Nat \ {0, 1}
  BY <1>1, <1>2, PieceOfDelta
<1>4. /\ n \in Int /\ arrived.n \in Int /\ r \in Int /\ tick \in Int
      /\ r <= arrived.n /\ n <= tick
      /\ arrived.n - n < Half /\ n - arrived.n < Half
  BY TickNumbers DEF Reached, IInv
<1>5. /\ stream' = stream /\ toClient' = toClient \ {p}
      /\ arrived' = [n |-> n, indexes |-> {p.index},
                     last |-> IF p.last THEN p.index ELSE Max(stream.pieces)]
  <2>1. stream' = stream /\ toClient' = toClient \ {p}
    BY DEF ClientReceive, serverVars, TakeFrom
  <2>2. ~(n < arrived.n) /\ n # arrived.n
    BY <1>4
  <2>3. arrived' = Arrive(p) /\ NumberOf(p) = n
    BY DEF Reached
  <2>4. arrived' = [n |-> n, indexes |-> {} \cup {p.index},
                    last |-> IF p.last THEN p.index ELSE Max(stream.pieces)]
    BY <2>2, <2>3 DEF Arrive
  <2> QED BY <2>1, <2>4
<1>6. Parts' = << p >>
  <2>1. /\ m \in FragmentsType /\ Uniform(m)
        /\ client'.conn.fragments
             = IF IsFragment(p) /\ Greater(p.seq, client.conn.received)
               THEN AddPacket(m, p) ELSE m
    BY FedAll DEF ClientFedAll
  <2>2. Greater(p.seq, client.conn.received)
    BY <1>4 DEF Reached
  <2>3. CASE m.parts = << >>
    <3>1. AddPacket(m, p) = [current |-> p.seq, parts |-> << p >>]
      BY <2>3 DEF AddPacket
    <3> QED BY <2>1, <2>2, <3>1 DEF Parts
  <2>4. CASE m.parts # << >>
    <3>1. m.parts \in Seq(FragmentPackets)
      BY <2>1 DEF FragmentsType
    <3>2. m.parts[1] \in Range(Parts)
      BY <2>4, <3>1 DEF Range, Parts
    <3> DEFINE k == m.parts[1].whole.data.n
    <3>3. m.parts[1].whole \in Down
      BY <3>2 DEF Down
    <3>4. k \in FirstTick .. tick /\ m.parts[1].whole.seq = Wrap(k)
      BY <3>3, TickNumbers DEF IInv, Downward, Good
    <3>5. m.current = Wrap(k)
      BY <2>1, <3>2, <3>4 DEF Uniform, Parts
    <3>6. k <= arrived.n
      BY <3>2 DEF ClientEnd, Buffer
    <3>7. n > k /\ n - k < Half /\ k - n < Half /\ k \in Int
      <4>1. k \in Int /\ Half \in Int /\ Half >= 1
        BY <3>4, TickNumbers, HalfAssumption DEF IInv
      <4>2. tick - k < Half
        BY <3>3, DownInTime
      <4> HIDE DEF k
      <4> QED BY <1>4, <3>6, <4>1, <4>2
    <3>8. AddPacket(m, p) = [current |-> p.seq, parts |-> << p >>]
      <4>1. p.seq = Wrap(n)
        BY DEF Reached
      <4> HIDE DEF k, m
      <4> QED BY <1>4, <2>1, <3>5, <3>7, <4>1, AddPacketByNumber
    <3> QED BY <2>1, <2>2, <3>8 DEF Parts
  <2> QED BY <2>3, <2>4
<1>7. Range(<< p >>) = {p} /\ Len(<< p >>) = 1
  BY DEF Range
<1>8. /\ p.index \in 0 .. K - 1
      /\ p = Fragment(d, p.index, p.index = K - 1)
      /\ p.last = (p.index = K - 1)
  BY <1>2, <1>3, PieceFacts
<1>9. ~(0 .. K - 1 \subseteq {p.index})
  <2>1. 0 \in 0 .. K - 1 /\ 1 \in 0 .. K - 1
    BY <1>3
  <2> QED BY <2>1
<1>10. Cardinality({p.index}) = 1
  BY FS_Singleton
<1>11. ASSUME NEW q \in toClient', NumberOf(q) = n
       PROVE  q \in FragmentPacket(d, K) /\ q.index \notin {p.index}
  <2>1. q \in toClient /\ q # p
    BY <1>5, <1>11
  <2>2. Whole(q) = d
    <3>1. Whole(q) \in Down /\ d \in Down /\ Whole(q).data.n = d.data.n
      BY <1>11, <2>1, NumberOfWhole DEF Down, Reached
    <3> QED BY <3>1 DEF IInv, Downward, Ordered
  <2>3. q \in FragmentPacket(d, K)
    BY <1>1, <2>1, <2>2
  <2>4. q = Fragment(d, q.index, q.index = K - 1)
    BY <1>2, <1>3, <2>3, PieceFacts
  <2> QED BY <1>8, <2>1, <2>3, <2>4
<1>12. d.data.n = n
  BY DEF Reached
<1>13. { q.index : q \in {p} } = {p.index}
  OBVIOUS
<1> HIDE DEF d
<1>14. Gathering(d, K)'
  <2>1. /\ arrived'.n = n /\ arrived'.indexes = {p.index}
        /\ arrived'.last = IF K - 1 \in {p.index} THEN K - 1 ELSE Max(stream.pieces)
    BY <1>5, <1>8
  <2> QED BY <1>3, <1>5, <1>6, <1>7, <1>9, <1>10, <1>11, <1>12, <1>13, <2>1
          DEF Gathering
<1> QED BY <1>3, <1>14 DEF d

(* Another piece of the newest delta: the last one makes it taken.         *)
LEMMA NextGathers ==
  ASSUME IInv, CutAlike, NEW r, ClientEnd(r), NEW p \in toClient, ClientReceive(p),
         NEW n, Reached(r, p, n), n = arrived.n, n > r, ~stream.duplicates,
         client'.conn.received # Wrap(n),
         NEW d \in DeltaPackets, NEW K \in stream.pieces \ {1}, Gathering(d, K)
  PROVE  Gathering(d, K)'
<1> DEFINE m == client.conn.fragments
           indexes == arrived.indexes
<1>1. K \in Nat \ {0, 1}
  BY DeltaStreamAssumption DEF IInv, Games
<1>2. /\ p \in FragmentPacket(d, K) /\ p.index \notin indexes
      /\ Range(Parts) \subseteq FragmentPacket(d, K)
      /\ indexes = { q.index : q \in Range(Parts) }
      /\ Len(Parts) = Cardinality(indexes)
      /\ indexes # {}
      /\ d.data.n = n
      /\ arrived.last = IF K - 1 \in indexes THEN K - 1 ELSE Max(stream.pieces)
  BY DEF Gathering, Reached
<1>3. /\ IsFragment(p) /\ p.index \in 0 .. K - 1
      /\ p.last = (p.index = K - 1)
      /\ p.whole = d /\ p.seq = d.seq
      /\ \A q \in FragmentPacket(d, K) :
           /\ q.whole = d /\ q.index \in 0 .. K - 1
           /\ q = Fragment(d, q.index, q.index = K - 1)
  BY <1>1, <1>2, PieceFacts
<1>4. /\ m \in FragmentsType /\ Uniform(m)
      /\ ClientFedAll(client.conn, p, client'.conn)
  BY FedAll
<1>5. /\ p.seq = Wrap(n) /\ n \in Int /\ n - n < Half
      /\ Greater(p.seq, client.conn.received)
      /\ d.seq = Wrap(n)
  BY <1>3, HalfAssumption, TickNumbers DEF Reached, IInv
<1>6. /\ Parts \in Seq(FragmentPackets) /\ Parts # << >>
      /\ m.current = Wrap(n)
  <2>1. Parts \in Seq(FragmentPackets)
    BY <1>4 DEF FragmentsType, Parts
  <2>2. PICK q : q \in Range(Parts)
    BY <1>2
  <2>3. q.whole = d /\ m.current = q.whole.seq
    BY <1>2, <1>3, <1>4, <2>2 DEF Uniform, Parts
  <2> QED BY <1>5, <2>1, <2>2, <2>3 DEF Range
<1> DEFINE fed == [current |-> p.seq, parts |-> Append(Parts, p)]
<1>7. client'.conn.fragments = fed
  <2>1. AddPacket(m, p) = [current |-> p.seq, parts |-> Append(m.parts, p)]
    <3>1. m.parts # << >>
      BY <1>6 DEF Parts
    <3> HIDE DEF m
    <3> QED BY <1>4, <1>5, <1>6, <3>1, AddPacketByNumber
  <2> QED BY <1>3, <1>4, <1>5, <2>1 DEF ClientFedAll, Parts
<1>8. AddPacket(m, p) = fed
  BY <1>3, <1>4, <1>5, <1>7 DEF ClientFedAll
<1>9. fed \in FragmentsType
  <2>1. p \in FragmentPackets
    BY <1>1, <1>2, PieceFacts
  <2>2. p.seq \in Sequence
    BY <1>5, WrapType
  <2> QED BY <1>6, <2>1, <2>2 DEF FragmentsType
<1> DEFINE longer == Append(Parts, p)
           more == indexes \cup {p.index}
<1>10. Len(longer) = Len(Parts) + 1 /\ Range(longer) = Range(Parts) \cup {p}
  <2>1. /\ Len(Parts) \in Nat /\ DOMAIN Parts = 1 .. Len(Parts)
        /\ DOMAIN longer = 1 .. Len(Parts) + 1
        /\ longer[Len(Parts) + 1] = p
        /\ \A k \in 1 .. Len(Parts) : longer[k] = Parts[k]
        /\ Len(longer) = Len(Parts) + 1
    BY <1>6
  <2> HIDE DEF longer
  <2>2. ASSUME NEW q \in Range(longer) PROVE q \in Range(Parts) \cup {p}
    BY <2>1 DEF Range
  <2>3. ASSUME NEW q \in Range(Parts) PROVE q \in Range(longer)
    <3>1. PICK k \in DOMAIN Parts : q = Parts[k]
      BY DEF Range
    <3>2. k \in DOMAIN longer /\ longer[k] = q
      BY <2>1, <3>1
    <3> QED BY <3>2 DEF Range
  <2>4. p \in Range(longer)
    <3>1. Len(Parts) + 1 \in DOMAIN longer
      BY <2>1
    <3> QED BY <2>1, <3>1 DEF Range
  <2> QED BY <2>1, <2>2, <2>3, <2>4
<1> HIDE DEF longer
<1>11. more = { q.index : q \in Range(longer) }
  BY <1>2, <1>10
<1>12. Len(longer) = Cardinality(more)
  <2>1. IsFiniteSet(0 .. K - 1)
    <3>1. 0 \in Int /\ K - 1 \in Int
      BY <1>1
    <3> QED BY <3>1, FS_Interval
  <2>2. indexes \in SUBSET (0 .. K - 1)
    BY <1>2, <1>3
  <2>3. IsFiniteSet(indexes)
    BY <2>1, <2>2, FS_Subset
  <2>4. Cardinality(more) = Cardinality(indexes) + 1
    BY <1>2, <2>3, FS_AddElement
  <2> QED BY <1>2, <1>10, <2>4
<1>13. ~(0 .. K - 1 \subseteq more)
  <2>1. SUFFICES ASSUME 0 .. K - 1 \subseteq more PROVE FALSE
    OBVIOUS
  <2>2. fed.parts = longer
    BY DEF longer
  <2>3. /\ Range(fed.parts) \subseteq FragmentPacket(d, K)
        /\ Len(fed.parts) = Cardinality({ q.index : q \in Range(fed.parts) })
        /\ 0 .. K - 1 \subseteq { q.index : q \in Range(fed.parts) }
    BY <1>2, <1>10, <1>11, <1>12, <2>1, <2>2
  <2> HIDE DEF fed, more
  <2>4. GetDefragmentedPacket(fed) = d
    BY <1>1, <1>9, <2>3, AllPiecesJoin
  <2>5. client'.conn.received = d.seq
    <3>1. Greater(d.seq, client.conn.received)
      BY <1>3, <1>5
    <3> HIDE DEF m
    <3> QED BY <1>3, <1>4, <1>5, <1>8, <2>4, <3>1 DEF ClientFedAll, m
  <2> QED BY <1>5, <2>5
<1>14. /\ stream' = stream /\ toClient' = toClient \ {p}
  BY DEF ClientReceive, serverVars, TakeFrom
<1>15. /\ arrived'.n = n /\ arrived'.indexes = more
       /\ arrived'.last = IF K - 1 \in more THEN K - 1 ELSE Max(stream.pieces)
  <2>1. arrived = [n |-> arrived.n, indexes |-> indexes, last |-> arrived.last]
    BY DEF ClientEnd
  <2>2. ~(n < arrived.n) /\ n = arrived.n
    BY <1>5
  <2>3. arrived' = Arrive(p) /\ NumberOf(p) = n
    BY DEF Reached
  <2>4. arrived' = [n |-> n, indexes |-> more,
                    last |-> IF p.last THEN p.index ELSE arrived.last]
    BY <1>3, <2>1, <2>2, <2>3 DEF Arrive
  <2>5. CASE p.last
    BY <1>3, <2>4, <2>5
  <2>6. CASE ~p.last
    <3>1. p.index # K - 1
      BY <1>3, <2>6
    <3> QED BY <1>2, <2>4, <2>6, <3>1
  <2> QED BY <1>3, <2>5, <2>6
<1>16. ASSUME NEW q \in toClient', NumberOf(q) = n
       PROVE  q \in FragmentPacket(d, K) /\ q.index \notin more
  <2>1. q \in toClient /\ q # p
    BY <1>14
  <2>2. q \in FragmentPacket(d, K) /\ q.index \notin indexes
    BY <1>16, <2>1 DEF Gathering
  <2>3. q.index # p.index
    <3>1. /\ q = Fragment(d, q.index, q.index = K - 1)
          /\ p = Fragment(d, p.index, p.index = K - 1)
      BY <1>2, <1>3, <2>2
    <3> QED BY <2>1, <3>1
  <2> QED BY <2>2, <2>3
<1>17. Parts' = longer
  BY <1>7 DEF Parts, longer
<1>18. Range(longer) \subseteq FragmentPacket(d, K) /\ more # {}
  BY <1>2, <1>10
<1> HIDE DEF more
<1> QED BY <1>2, <1>11, <1>12, <1>13, <1>14, <1>15, <1>16, <1>17, <1>18 DEF Gathering

(* A datagram reaches the client.                                          *)
LEMMA ClientReceiveGathers ==
  ASSUME IInv, CutAlike, FirstIsHeard, NEW p \in toClient, ClientReceive(p), Gathered
  PROVE  Gathered'
<1>1. PICK r : ClientEnd(r)
  BY DEF IInv
<1> DEFINE n == Whole(p).data.n
<1>2. Reached(r, p, n)
  BY <1>1, ReachedClient
<1>3. /\ UNCHANGED <<stream, tick, sent>> /\ toClient' \subseteq toClient
  BY DEF ClientReceive, serverVars, TakeFrom
<1>4. Cuts'
  BY <1>3, CutsKept DEF Gathered
<1>5. arrived'.n = tick => sent
  <2>1. arrived'.n = arrived.n \/ arrived'.n = n
    BY <1>2 DEF Reached
  <2>2. n = tick => sent
    BY <1>2 DEF Reached, IInv, Downward
  <2> QED BY <2>1, <2>2 DEF Gathered
<1> HIDE DEF n
<1>6. /\ n \in Int /\ arrived.n \in Int /\ r \in Int /\ FirstTick \in Int
      /\ n >= FirstTick /\ r <= arrived.n
  BY <1>2, TickNumbers DEF Reached, IInv
<1>7. Gathers'
  <2>1. SUFFICES ASSUME ~stream.duplicates, arrived'.n >= FirstTick,
                        client'.conn.received # Wrap(arrived'.n)
                 PROVE  \E d \in DeltaPackets, K \in stream.pieces \ {1} :
                          Gathering(d, K)'
    BY <1>3 DEF Gathers
  <2>2. CASE n < arrived.n
    <3>1. arrived'.n = arrived.n
      BY <1>2, <2>2 DEF Reached
    <3>2. arrived.n >= FirstTick
      BY <1>6, <2>2
    <3>3. client.conn.received # Wrap(arrived.n)
      <4>1. SUFFICES ASSUME client.conn.received = Wrap(arrived.n) PROVE FALSE
        OBVIOUS
      <4>2. arrived.n = r
        BY <1>2, <3>2, <4>1 DEF Reached
      <4>3. client'.conn.received = client.conn.received
        BY <1>2, <1>6, <3>1, <4>2 DEF Reached
      <4> QED BY <2>1, <3>1, <4>1, <4>3
    <3>4. PICK d \in DeltaPackets, K \in stream.pieces \ {1} : Gathering(d, K)
      BY <2>1, <3>2, <3>3 DEF Gathered, Gathers
    <3> QED BY <1>1, <1>2, <2>2, <3>4, OlderGathers
  <2>3. CASE ~(n < arrived.n) /\ ~(n > r)
    <3>1. arrived'.n = n /\ n = r
      BY <1>2, <1>6, <2>3 DEF Reached
    <3>2. client.conn.received = Wrap(r)
      BY <1>2, <1>6, <3>1 DEF Reached
    <3>3. client'.conn.received = client.conn.received
      BY <1>2, <1>6, <3>1 DEF Reached
    <3> QED BY <2>1, <3>1, <3>2, <3>3
  <2>4. CASE ~(n < arrived.n) /\ n > r /\ ~IsFragment(p)
    <3>1. arrived'.n = n /\ p.seq = Wrap(n) /\ Greater(p.seq, client.conn.received)
      BY <1>2, <2>4 DEF Reached
    <3>2. client'.conn.received = p.seq
      BY <1>1, <2>4, <3>1, FedAll DEF ClientFedAll
    <3> QED BY <2>1, <3>1, <3>2
  <2>5. CASE n > arrived.n /\ n > r /\ IsFragment(p)
    <3>1. Whole(p) \in DeltaPackets
      BY <1>2 DEF Reached
    <3> QED BY <1>1, <1>2, <2>1, <2>5, <3>1, NewestGathers DEF Gathered
  <2>6. CASE n = arrived.n /\ n > r /\ IsFragment(p)
    <3>1. arrived'.n = n /\ arrived.n >= FirstTick
      BY <1>2, <1>6, <2>6 DEF Reached
    <3>2. client.conn.received # Wrap(arrived.n)
      BY <1>2, <1>6, <2>6, <3>1 DEF Reached
    <3>3. PICK d \in DeltaPackets, K \in stream.pieces \ {1} : Gathering(d, K)
      BY <2>1, <3>1, <3>2 DEF Gathered, Gathers
    <3>4. client'.conn.received # Wrap(n)
      BY <2>1, <3>1
    <3> QED BY <1>1, <1>2, <2>1, <2>6, <3>3, <3>4, NextGathers
  <2>7. n < arrived.n \/ n = arrived.n \/ n > arrived.n
    BY <1>6
  <2> QED BY <2>2, <2>3, <2>4, <2>5, <2>6, <2>7
<1> QED BY <1>3, <1>4, <1>5, <1>7 DEF Gathered

(* Every other step.                                                       *)
LEMMA OthersGather ==
  ASSUME Gathered,
         UNCHANGED <<stream, arrived>>,
         client'.conn.fragments = client.conn.fragments,
         client'.conn.received = client.conn.received,
         toClient' \subseteq toClient,
         arrived.n = tick' => sent'
  PROVE  Gathered'
<1>1. Cuts' /\ Gathers'
  BY CutsKept, GathersKept DEF Gathered
<1> QED BY <1>1 DEF Gathered

(* A client whose first states are heard has no other acked as nothing's.  *)
LEMMA HeardIsOld ==
  ASSUME FirstIsHeard
  PROVE  ZeroIsOld
<1>1. ~Greater(0, 0)
  BY HalfAssumption DEF Greater, Less, Minus, Modulus
<1> QED BY <1>1 DEF FirstIsHeard, ZeroIsOld

(* Every step keeps the pieces of the newest delta together.               *)
LEMMA NextGathered ==
  ASSUME FirstIsHeard, CutAlike, IInv, Gathered, [Next]_vars
  PROVE  Gathered'
<1> USE DEF serverVars, clientVars
<1>1. CASE Tick
  <2>1. arrived.n # tick'
    <3>1. PICK r : ClientEnd(r)
      BY DEF IInv
    <3>2. tick \in Nat /\ r \in Int /\ arrived.n \in r .. tick
      BY <3>1, TickNumbers, DownInTime DEF IInv, ClientEnd
    <3> QED BY <1>1, <3>2 DEF Tick
  <2> QED BY <1>1, <2>1, OthersGather DEF Tick
<1>2. CASE ServerSend
  BY <1>2, HeardIsOld, ServerSendGathers
<1>3. CASE ServerSettle
  BY <1>3, OthersGather DEF ServerSettle, Gathered
<1>4. CASE ClientSend
  BY <1>4, OthersGather DEF ClientSend, Gathered
<1>5. CASE ClientSettle
  <2>1. PICK r : ClientEnd(r)
    BY DEF IInv
  <2>2. client.conn \in ConnectionType
    BY <2>1 DEF ClientEnd
  <2>3. client'.conn = Taken(client.conn)
    BY <1>5 DEF ClientSettle
  <2>4. /\ client'.conn.fragments = client.conn.fragments
        /\ client'.conn.received = client.conn.received
    BY <2>2, <2>3 DEF Taken, ConnectionType
  <2> QED BY <1>5, <2>4, OthersGather DEF ClientSettle, Gathered
<1>6. ASSUME NEW p \in toClient, ClientReceive(p) PROVE Gathered'
  BY <1>6, ClientReceiveGathers
<1>7. ASSUME NEW p \in toClient, LoseToClient(p) PROVE Gathered'
  BY <1>7, OthersGather DEF LoseToClient, Gathered
<1>8. ASSUME NEW p \in toServer, ServerReceive(p) PROVE Gathered'
  BY <1>8, OthersGather DEF ServerReceive, Gathered
<1>9. ASSUME NEW p \in toServer, LoseToServer(p) PROVE Gathered'
  BY <1>9, OthersGather DEF LoseToServer, Gathered
<1>10. CASE UNCHANGED vars
  BY <1>10, OthersGather DEF vars, Gathered
<1> QED BY <1>1, <1>2, <1>3, <1>4, <1>5, <1>6, <1>7, <1>8, <1>9, <1>10 DEF Next

(* Of the deltas the client's connection has been given any part of, the   *)
(* newest is the one taken as soon as all its pieces have come, in         *)
(* whatever order, mixed with those of others, unless datagrams are        *)
(* repeated.                                                               *)
THEOREM MostRecentCompleteAlways ==
  ASSUME FirstIsHeard, CutAlike
  PROVE  Spec => []MostRecentComplete
<1>1. Init => Gathered
  <2> SUFFICES ASSUME Init PROVE Gathered
    OBVIOUS
  <2>1. arrived.n = FirstTick - 1 /\ tick = FirstTick /\ toClient = {}
    BY DEF Init
  <2>2. arrived.n # tick /\ ~(arrived.n >= FirstTick)
    BY <2>1, DeltaStreamAssumption
  <2> QED BY <2>1, <2>2 DEF Gathered, Gathers, Cuts
<1>2. IInv /\ Gathered /\ [Next]_vars => Gathered'
  BY NextGathered
<1>3. IInv /\ Gathered => MostRecentComplete
  <2> SUFFICES ASSUME IInv, Gathered, ~stream.duplicates, arrived.n >= FirstTick,
                      0 .. arrived.last \subseteq arrived.indexes,
                      client.conn.received # Wrap(arrived.n)
               PROVE  FALSE
    BY DEF MostRecentComplete
  <2>1. PICK d \in DeltaPackets, K \in stream.pieces \ {1} : Gathering(d, K)
    BY DEF Gathered, Gathers
  <2>2. stream.pieces \in SUBSET (0 .. MaxPieces) /\ MaxPieces \in Nat
        /\ K \in Nat \ {0, 1}
    BY DeltaStreamAssumption DEF IInv, Games, MaxPieces
  <2>3. Max(stream.pieces) \in Nat /\ Max(stream.pieces) >= K
    <3>1. K \in stream.pieces /\ stream.pieces # {}
      OBVIOUS
    <3>2. /\ Max(stream.pieces) \in stream.pieces
          /\ \A j \in stream.pieces : Max(stream.pieces) >= j
      BY <2>2, <3>1, MaxOfBounded
    <3>3. \A k \in stream.pieces : k \in Nat
      BY <2>2
    <3> QED BY <3>1, <3>2, <3>3
  <2>4. CASE K - 1 \in arrived.indexes
    BY <2>1, <2>4 DEF Gathering
  <2>5. CASE K - 1 \notin arrived.indexes
    <3>1. arrived.last = Max(stream.pieces)
      BY <2>1, <2>5 DEF Gathering
    <3>2. K - 1 \in 0 .. arrived.last
      BY <2>2, <2>3, <3>1
    <3> QED BY <2>5, <3>2
  <2> QED BY <2>4, <2>5
<1>4. Spec => []IInv
  BY HeardIsOld, IInvAlways
<1> QED BY <1>1, <1>2, <1>3, <1>4, PTL DEF Spec

=============================================================================
