# A TLA+ model of the game-in-a-box network library

game-in-a-box is the network half of a small client and server shooter, in C++11 and in
the manner of Quake 3: a handshake over UDP with retries, then streams of delta coded
game states, each with an ack of the newest state the other side has taken, large ones
cut into fragments. This directory holds its specification: TLA+ modules translated from
`src/`, the configurations that check them with TLC, and proofs checked with TLAPS.

All paths below are relative to the repository (`src/` here); `Impl/` stands for
`source/Network/Implementation/`.

## The system

| Part | State it keeps | Operations | Talks to |
|---|---|---|---|
| `Connection` (`Impl/Connection.*`) | state of the handshake, fail reason, key, packet count, time of the last packet, client handle, connection id, last sequence received, last ack, last delta, fragment buffer | `Start`, `Disconnect`, `Process` (parse a datagram, then generate one), `GetDefragmentedPacket` | called by the managers; calls `IStateManager::Connect`, `Disconnect`, `StateInfo` |
| Client manager (`Impl/NetworkManagerClientGuts.*`, `NetworkManagerClient.*`) | one `Connection`, the server's address, last sequence processed | `Connect`, `Disconnect`, `ProcessIncomming`, `SendState` | provider, game |
| Server manager (`Impl/NetworkManagerServerGuts.*`, `NetworkManagerServer.*`) | a map from address to `Connection` and last acked sequence | `ProcessIncomming`, `SendState`, shutdown in the destructor | provider, game |
| Packets (`Impl/Packet*.{hpp,cpp}`) | a byte vector | construction, validity tests, getters | everyone |
| `PacketFragmentManager` | current sequence, fragments in arrival order | `FragmentPacket`, `AddPacket`, `GetDefragmentedPacket` | `Connection`, server manager |
| `WrappingCounter`, `Sequence` | a value of 15 bits | masked arithmetic, wrapping order | everyone |
| `IStateManager` | the game (an interface) | accept, refuse and drop players, create and parse deltas, throttle | called by the managers |
| `INetworkProvider`, `NetworkProviderSynchronous`, `NetworkProviderInMemory` | a socket, or queues with simulated latency, loss and reordering | `Send`, `Receive`, `Reset`, `Flush`, `Disable` | called by the managers |
| `Huffman` (`Impl/Huffman.*`), over `BitStream` and `BitStreamReadOnly` | code and decode tables; a buffer and an index in bits | `Encode`, `Decode`; `Push`, `PullU8`, `PullU16`, `Rewind`, `TakeBuffer` | the managers, for the payload of every delta |
| `XorCode`, `BufferSerialisation` | - | pure transformations of bytes | the managers, packets |
| `GameInABoxServer`, `source/Unused` | an unfinished server program; reflection, auto completion, statistics, a delta coder | not reached from the library | - |

Everything runs in one thread per program: a loop that calls `ProcessIncomming` and then
`SendState`. What makes it hard is between the programs: datagrams that are lost,
repeated, late and out of order, timeouts that race late answers, retries of what was
already done, counters that wrap, a game that drops a player between two calls, sockets
that do not open, a server that restarts, ports that change. `PROJECT.json` lists these
hazards with the lines where they bite.

What makes each part correct:

* **Connection**: a session registers one player at most; connected implies a handle; a
  stranger gets a bounded number of answers and cannot end a session without its key; a
  client gives up after all its retries and no sooner; every handshake ends.
* **The two managers**: a connected client is one the server's game was told of; both
  ends of a session hold one key; moved connections do not multiply; a client costs
  the game one player per session; nobody waits for ever; dropped players leave.
* **Sequences**: the filter keeps the newest delta through reordering and wrapping.
* **Compression**: what was encoded is decoded; no code begins another; the tree is a best
  one; decoding ends on any bytes.
* **Packets and payloads**: a datagram is recognised as the one thing it is; what the
  receiver gives to `DeltaParse` is, byte for byte, what `DeltaCreate` returned; nothing
  is sent that does not fit its field or one datagram.
* **The simulated network**: a datagram is handed over once at most, to its address,
  not before its time and not after the latencies allow, whoever else uses the network.
* **Fragments and deltas**: what the receiver's game is handed is a subsequence, in
  order, of the sender's states, each decoded against a state it has; acks are true.

## The modules

| Module | Models | Extends |
|---|---|---|
| `WrappingCounter` | `include/Network/WrappingCounter.hpp`; `Half` is 2^(BITS-1) | - |
| `Packets` | the datagrams as records and their `IsValid` tests | `WrappingCounter` |
| `PacketFragmentManager` | the class of that name, as operators on a record of its members | `Packets` |
| `Connection` | the class of that name, as operators on a record of its members | `PacketFragmentManager` |
| `ConnectionSession` | one `Connection` of either mode under every possible caller | `Connection` |
| `ClientServer` | both managers, the network, the games' choices | `Connection` |
| `SequenceFilter` | the delta filter of `Connection::Process` and a sender that counts | `WrappingCounter` |
| `DeltaStream` | deltas, acks, bases, fragments of one connection, both ways | `Connection` |
| `LatestDelivery` | the abstract specification of the delta transport | - |
| `LossyNetwork` | the abstract specification of the network the protocol is built for | - |
| `NetworkProviderInMemory` | the class of that name: queues, latency, losses, swaps | - |
| `InMemoryLink` | a server and two clients that share one such network, as in the tests | `SequenceFilter`; instances of the two above |
| `PacketBytes` | the bytes of commands, deltas and fragments, `Push`, `Pull`, `XorCode` | `WrappingCounter` |
| `PayloadStream` | a payload's way from `DeltaCreate` to `DeltaParse` in bytes | `PacketBytes`; an instance of `PacketFragmentManager` |
| `BitStream` | the two bit streams, as operators on records of their members | - |
| `Huffman` | building the tables, `Encode`, and `Decode` turn by turn | `BitStream` |
| `WrappingCounterProofs` | lemmas about least and largest numbers, division, masking and the wrapping order | `WrappingCounter`, `TLAPS` |
| `ConnectionProofs` | lemmas about the operators of `PacketFragmentManager` and `Connection` | `Connection`, `WrappingCounterProofs` |
| `ConnectionSessionProofs`, `ClientServerProofs` | theorems | the module named, `ConnectionProofs` |
| `DeltaStreamProofs` | theorems | the module named, `ConnectionProofs` |
| `InMemoryLinkProofs` | theorems about it and about `SequenceFilter` | the module named, `WrappingCounterProofs` |
| `PayloadStreamProofs`, `HuffmanProofs` | theorems | the module named, `WrappingCounterProofs` |
| `MCConnectionSession`, `MCClientServer`, `MCDeltaStream`, `MCInMemoryLink`, `MCPayloadStream`, `MCHuffman` | finite values for the constants | the module named |

`Connection`, `PacketFragmentManager` and `WrappingCounter` have no variables. Their
objects are members of others (a client has one `Connection`, a server one per address),
so they are records that the composing modules keep in a variable.

**From code to model.** `Process(c, p, h)` is `Generate(Parse(c, p, h))`, as the function
is in two halves; each `case` of its first switch is a `Parse...` operator, and each `if`
one of their cases. `h` is what `IStateManager::Connect` would return, should it be
called. The time stamp is represented by its difference to now, `age`, in clock ticks and
no further than the comparisons can see. `RetryPeriod` ticks are 1000 ms. A reason text
becomes the class it belongs to. `Reset` puts the time stamp two periods back, so `age` is
`2 * RetryPeriod` and the first request goes out at once, as in the code.

In `ClientServer` one call of `ProcessIncomming` is a run of actions: `ClientReceive` or
`ServerReceive` for each datagram `Receive` returned, then `ClientSettle` or
`ServerSettle` for what follows the loop, and `ClientSend` or `ServerSend` is `SendState`;
`turn` keeps the order. The server's responses leave one by one instead of after the loop,
which a network that delays anything cannot tell apart. Handles are named after keys,
which stands for a game that returns a handle nobody has. The connection id is 0 for
every client, as `myClientId(0)` makes it.

`ServerReceiveMoved` keeps an undefined behaviour of the code: a reference into an erased
map entry is used (`Impl/NetworkManagerServerGuts.cpp:130-141`). The outcomes modelled are
that the erased object still answers as it would have, or that it does not answer; that
it fails in another way (a crash) ends the program and is not modelled.

In `DeltaStream` the states of the two games are numbered by integers and a datagram
carries the number modulo the counter's range. `seen` and `heard` record which numbers
each game was handed. They are what `LatestDelivery` calls `held`, and
`DownstreamDelivers` and `UpstreamDelivers` say that the transport implements it.
`Bases` and `Parsed` stand for the game's `DeltaCreate` and `DeltaParse`: the newest state
is coded against the acked one or against nothing, and the ack is the sequence that came.
These are assumptions on a game and not what the mock games of the tests do: they return
`to = base = lastAcked + 1` with an empty payload, so they send the same sequence until it is
acked and nothing is ever cut up. That the ack `DeltaParse` returns is the sequence of the
delta holds for the mocks, but the interface does not ask for it
(`Network/IStateManager.hpp:65` leaves the game free to ack another state). `DeltaStream` and
`PayloadStream` take the two as equal.

`NetworkProviderInMemory` has the members of the class as variables and its virtual
functions as actions. A random generator is the set of the values it may return, so
`Happens` keeps the comparison of the code (`<=`), and a function that was not given is
the empty set. `InMemoryLink` is the loop of `test/Network/TestClientServer.cpp`, with
the several clients, latencies and losses of `TestClientServerN.cpp`: on
every tick each program has one turn, in which `RunAs` names it, it receives, looks at
the datagrams one by one and sends; `Turn`, `Poll`, `Handle`, `ServerSends` and the others
follow that order through `phase`. In `TestClientServerN.cpp` the programs have such a turn
only on every sixth round; on the other five the server only receives and the clients
only send. The receiver's connection is the filter of
`SequenceFilter`. The bystander's connects and failures stand for other clients of the
tests: they call `Reset` and `Disable` on the object they share with the receiver.
`IsLossyNetwork` is the refinement: the queues are what is `pending`, what `Receive`
returned is `handed`. `DeltasInTime` says that the assumption under which
the filter is proved right holds over this network.

In `PayloadStream` a message is what the manager sends, in `stream`, chosen at the start:
from a server, from a client, or a handshake command. `ServerSends` and `ClientSends` are
the two managers' guards, coding and packets, which differ in order and in what they
compare; `Process` and `Keep` are `Connection::Process` once connected, and `Take` what the
managers do with `GetDefragmentedPacket`. `AddPacket` and the tests for a complete buffer
are those of `PacketFragmentManager`, whose pieces carry bytes here. What Huffman coding
does to a payload is left to `Huffman`: a payload is what `Encode` returned. The managers
always have an ack to send; a delta without one is what `PacketDelta` allows and the tests
of the packets build. A byte has twice `Top` values (128 in the code), and `ByteXor` is the
`^` of two of them, of which the model supposes that the same byte undoes it;
`MCPayloadStream` makes it the bitwise one. `PayloadStreamAssumption` supposes that no two
messages of a server have the same sequence, so that its game creates one delta for each of
its states. This is asked of the game, and neither `IStateManager.hpp` nor the tests support
it: the mock games return the same sequence until it is acked, which does no harm there
because their empty payloads are never cut up. Two different deltas to one state, both cut
up, would mix their pieces, since a piece says only to which state it leads.

`Huffman` builds the tables one joined pair at a time, with every choice the priority
queue may make among nodes of one frequency, and decodes one turn of `Decode`'s loop at a
time. A byte has `ByteBits` bits, and the widths of the decode maps (9 and 7) and of the
longest code (16) follow it. Second decode maps are named by the top bits of their codes
and not numbered in the order of their first use, which nothing depends on.

Definitions whose comment begins with "Mistake:" are plausible errors of the line they
stand before. No specification uses them. They show for every property what it would
catch (`mutants` in `PROJECT.json`).

## The runs

| Run | Specification and bounds | Shows |
|---|---|---|
| `connection_session` | 2 keys, 2 ids, 2 handles, all handshake datagrams with every key and version, 5 retries (the real number), at most 2 client starts; fair polling and clock | `JoinsOnce`, `ConnectedHasHandle`, `AnswersBounded`, `RemoteFailureIsKeyed`, `GivesUpAfterRetries`, `HandshakeEnds` |
| `handshake_faults` | 1 client, 2 addresses, 2 keys, 1 retry; datagrams lost, delayed, reordered; games may refuse, the socket may not open; and one of `Faults`: datagrams repeat and the client leaves at any time, or the server restarts and the client's port changes, once each | `TypeOK`, `ConnectedClientIsKnown`, `KeysAgree`, `OnePlayerPerSession`, `PlayersDistinct` |
| `handshake_live` | 1 key, fair loops, a game that drops players | `HandshakeResolves`, `ListeningEnds`, `DroppedPlayersLeave` |
| `in_memory_link` | 12 counter values, 13 deltas (a wrap), 14 ticks, the bystander resets once, a client answers once; 3 `Worlds`: latencies of 2 to 4 ticks, losses in bursts, swaps, each of a different sender | `IsLossyNetwork`, `NeverEarly`, `BatchesInOrder`, `KeepsUp`, `DeltasInTime`, `KeepsTheNewest`, `OrderIsKept` |
| `delta_stream` | 8 values, distance at most 2, and one of `Streams`: every delta in 2 pieces, repeated, up to tick 9 and frame 9 (so both wrap); or whole and cut ones mixed, not repeated, up to tick 5 | `AcksAreTrue`, `MostRecentComplete`, and that both directions implement `LatestDelivery` |
| `payload` | bytes of 5 bits (`Top` is 16), datagrams of 5 bytes, packets of at most 29; sequences, acks and distances around every limit; up to 15 pieces; two deltas across the wrap with two faults, the others with one | `Recognised`, `PayloadArrives`, `NewestIsTaken`, `NoneTooLarge` |
| `huffman` | bytes of 3 bits, 6 tables in which every byte occurs, all payloads of up to 3 bytes, all foreign buffers of up to 3 bytes | `RoundTrip`, `PrefixFree`, `TreeIsOptimal`, `DecodeBounded` |

Why the bounds are enough. One or two retries instead of five keep every case of the
handshake (first request, retry, last retry, timeout; with one retry it is the last) and a
flood trigger, three or five, that one client's requests reach. The bounds that depend on
the number itself are checked with five in `connection_session`, and `AnswersBounded` is
proved for every number. Two keys let the server time a client out and start another
connection while the first key is still about. Eight counter values make both counters
wrap inside a run, and a distance limit of two makes an ack fall out of range. A byte of three bits keeps every case of the bit streams (aligned, across two bytes,
past the end) and of the codes: those that fit the first decode map, those that need a
second one, several second ones, a marker that is too long and refused, ties in the queue
that are broken in every way, and bits that are no code. Bytes
of five bits are the smallest in which the seven commands do not meet the mark of a delta
without ack; `SizeMaxPacketSize` and `MaxPacketSizeInBytes` stand to each other as in the
code, where the second is less than the 127 fragments could carry, so that the largest
packet and the next size are both sent for. Random values are 1 and 2, so that a chance
of 0, 1 and 2 never, may and always happens; the queues of the simulated network hold
more than one delta with the latencies chosen, which is what swaps need, and `Half` is
larger than the longest latency, as it is by far in the program.

`MaxInFlight`, `MaxFrame`, `MaxSessions`, `MaxCount`, `MaxAnswers`, `MaxResets`, `MaxTime`,
the numbers of restarts and rebinds in `Faults`, `maxTick` and `maxParts` in `Streams`, and
`maxFaults` in the streams of `PayloadStream` are guards, not constraints. `Faults`,
`Streams` and `Worlds` are sets of which a behaviour has one, so that a run covers several
kinds of fault without their product. The runs `delta_stream`, `in_memory_link`,
`payload`, `client_payload` and the two of `huffman` end when the game's last state, the last
tick or the last datagram is reached or when Decode returns, so they do not check for
deadlock; the others do.

`Lifetime` and `RoundTrip` are no mere bounds: the wrapping order is right only while
nothing is late by half the sequence numbers. In the program that is 16384 states,
thirteen minutes at 20 states a second, and nothing in the code enforces it.

**Fairness.** `FairSpec` asks that each program's loop goes round (`ClientSettle`,
`ClientSend`, `ServerSettle`, `ServerSend`, or `Poll` of a single connection) and that time
passes. It asks nothing of the network and nothing of the games. The programs call
the two functions unconditionally on every turn of their loop, which is what weak fairness
of actions that are enabled for good says.

### What the code does not do

Five runs expect a violation. Each checks one statement that a comment or a test of the
repository makes and that the code does not keep; `findings` in `PROJECT.json` quotes it.

| Run | The code |
|---|---|
| `stale_response` | lets a ConnectResponse of an earlier session complete a later one, since it carries no key |
| `moved_delta_lost` | hands the delta that moves a connection to the erased entry |
| `lost_players` | drops a failed connection without telling the game |
| `client_payload` | takes the payload of a client's delta with the client's id in front of it (`NetworkManagerServerGuts.cpp:218`), so that the code is applied two bytes off and Decode is given two bytes too many; `ClientPayload` would leave the id out, as `Recognised` checks |
| `huffman_sparse` | decodes the encoding of two equal bytes, with the table made of them as in `test/Network/TestHuffman.cpp:109`, to one: reading 9 bits stops at the end of the buffer and `Rewind` gives back bits that were not taken (`Huffman.cpp:374`) |

`ConnectedClientIsKnown` holds with one session per client and fails with two
(`stale_response`). `HandshakeResolves` holds while sockets open and fails when one may not
(`BindMayFail`): `Connect` goes on as if the socket had opened
(`NetworkProviderSynchronous.cpp:157`), but no handshake is polled while the network is
disabled (`NetworkManagerClientGuts.cpp:152`). `MostRecentComplete` holds without duplicated
datagrams and from an early first tick, and fails otherwise: `PacketFragmentManager.cpp:107`
makes one slot for each fragment in the buffer, duplicates included, so a complete delta with
a duplicate looks incomplete. `RoundTrip` of the compressor holds for tables in which
every byte occurs, as in the tests of the managers, because their end marker is longer than
the 9 bits of one read, which then stays inside the buffer; it fails for sparse ones
(`huffman_sparse`). The passing runs mark these limits. Others, which the models keep as
they are and the runs stay clear of or allow for:

* an Info request is parsed as a Connect (`Connection.cpp:285`) and never answered;
* a client whose handshake timed out goes on between Disconnecting and FailedConnection,
  with a Disconnect on every round (`NetworkManagerClientGuts.cpp:189`, `154`);
* a client that disconnected has a closed socket and is put back into Disconnecting by
  its next `ProcessIncomming`, where it stays, neither connected nor failed;
* the last of a client's requests has no waiting period: the call after it gives up at once
  (`Connection.cpp:420`), so an answer to it is heard only if it is there before that call.
  `GivesUpAfterRetries` asks for a period after each of the others;
* a handshake that needed nearly all its retries has used up the flood budget, which also
  keeps the server from hearing the client's first delta (`Connection.cpp:265`): the client
  is connected and the server's entry times out;
* a new client's first delta is compared with sequence 0 (`Connection.cpp:540`), so a server
  past half the range is not heard until it has wrapped;
* a byte the frequencies do not know is dropped by `Encode` without an error
  (`Huffman.cpp:345`);
* the fragment buffer compares a fragment with the last fragmented delta only
  (`PacketFragmentManager.cpp:83`): after half the range of whole deltas the old pieces
  look newer again and are handed over once more.

## The proofs

`tlapm` checks eight modules. The theorems rest on the named `ASSUME`s on the constants and,
where it is said below, on hypotheses of their own.

**`ConnectionProofs`** holds the lemmas about the operators of `PacketFragmentManager` and
`Connection`. `AddPacket` keeps the buffer's type, and `GetDefragmentedPacket` returns a delta
or nothing: the maxima that stand for "the last duplicate" and "the largest id" exist,
since a set of naturals has a least member (`WrappingCounterProofs`). Each `Parse...` operator has a lemma
that says which connections it may return, what it answers and when it asks the game; the
lemmas are joined by `ParseStep`, `GenerateStep` and `ProcessStep`. `Sound` is what every
call keeps: the record's type, a handle where a connection is connected and none during a
client's handshake, a drawn key behind every failure that came from outside. Three more
statements about a call are for the modules that compose connections: when a client and
when a server sends what with which key (`ProcessClientCalled`, `ProcessServerCalled`),
and how a client's count and clock move (`ProcessPaced`).

**`ConnectionSessionProofs`**: `TypeOK`, `JoinsOnce`, `ConnectedHasHandle`,
`AnswersBounded`, `RemoteFailureIsKeyed` and `GivesUpAfterRetries`, for any sets of keys,
ids, handles, payloads and datagrams, any number of retries and of sessions. The inductive
invariant `IInv` is `TypeOK`, `Sound`, and what the others rest on: a connection without
a handle has not joined; one that is still Listening has counted what it answered (once
it is connected, deltas are no longer counted, so `AnswersBounded` alone is not inductive);
and `Pacing`. That one says of a client in its handshake how much time each request has
waited for, so that with the last one the time is up: the history variable `elapsed` is
at least a period for every request but the last, plus the connection's own clock.

**`ClientServerProofs`** is about the composition, for any number of clients, addresses,
keys and handles and whatever `Faults` allow. Its steps are first summed up as effects
(`ClientEffect`, `ServerEffect`, `QuietEffect`, joined by `NextEffect`): what a step of one
side leaves alone, and what it may send. Three invariants follow.

* `ClientsInv` and `ServerInv`, the types. The datagrams on the way carry keys that were
  drawn; the server's entries have distinct keys, and the only handle an entry can have is
  the one the game named after its key. From these come `TypeCorrect` and
  `PlayersDistinctAlways`, however connections move between addresses.
* `ChargeInv` for `OnePlayerPerSessionAlways`. The keys that were admitted are charged, one
  to one, to slots `<<client, number of the session>>`: a client takes a key once in a
  session, and a server admits only a key that somebody took. The invariant speaks of all
  the keys taken, not only of those admitted, and of a client without a key whose current
  slot is free. `OnePlayerPerSession` is stated by an injection and not by counting,
  which says the same of finite sets and is what the prover can treat.
* `SessionInv` for `FirstSessionHoldsAlways`: a client that shares its ip with no other and
  is in its first session is known to the game when it believes it is connected, and the
  connection the server has at its address is its own. Every Connect from its host
  carries its key, and every ConnectResponse to it was caused by that key.

`ConnectedClientIsKnown` and `KeysAgree` follow from the last for programs in which each
client is alone behind its ip and connects once (`ConnectedClientIsKnownOnce`,
`KeysAgreeOnce`; `handshake_faults` is such a program). They are not provable without these
hypotheses because they are false: a ConnectResponse carries no key, and in its second
session a client believes a late one of its first. The run `stale_response` shows it.

**`WrappingCounterProofs`** is the arithmetic of sequences. Its heart is `WrapForward`:
going forward by less than half the modulus moves the wrapped value by that much, with or
without a wrap, from which `LessForward` gives the order of two counters and
`MinusForward` their distance.

**`DeltaStreamProofs`**: `DownstreamDelivers` and `UpstreamDelivers` (each direction of the
delta transport implements `LatestDelivery`), `AcksAreTrue`, `MostRecentComplete` and
`TypeOK`, for every counter size, first state, limit on distances, delay and round trip, every number of pieces and of
datagrams on the way, with losses, repetitions and reordering. The inductive invariant
`IInv` relates the two games through everything that is between them:

* `Games`: each game was handed a growing list of the other's states, and the numbers the
  two stored acks stand for are known at the other end and less than a round trip old;
* `Downward` and `Upward`: every delta that is on its way, or of which a piece is in the
  fragment buffer, is `Good`: its sequence is that of its number, its base is a state the
  receiver holds or the delta itself, its distance is the true one and its ack stands for
  a state its sender was handed. A later delta never acks less (`Ordered`), which is what
  keeps the round trip bounded;
* `ClientEnd` and `ServerEnd`: the number `r` of the last delta a connection took is the one
  its sequence stands for, the ack it holds is the one of that delta, and what the game has
  processed is behind `r` just while a delta waits to be settled;
* `Buffer`: the fragment buffer holds pieces of one delta, so what is joined from it is that
  delta and never a stitched one.

Two hypotheses are needed, `ZeroIsOld` and `CutAlike`, and both name something the code does
not ensure. A client that has processed nothing acks the sequence 0 instead of nothing
(`NetworkManagerClientGuts.cpp:277`), so `ZeroIsOld` supposes that no state of the first
round trip has that sequence. In the other direction nothing is supposed: the server sends
nothing before it has settled a delta. And the fragment buffer compares only with
fragments (`PacketFragmentManager.cpp:83`): while deltas arrive whole, old pieces stay, and
after half the counter they look new, so `CutAlike` supposes that all deltas of a session
are cut, or none, or that the session is shorter.

`MostRecentComplete` says that nothing is lost that could be had: without repeated
datagrams, the newest delta of which anything has arrived is taken with its last piece. Its
invariant `Gathered` is about the pieces of that delta, of which there is exactly one
(`Ordered`), cut in one way (`Cuts`): until it is taken, those that arrived are in the
buffer, each once, those on the way are the others, and one at least is missing
(`Gathering`). An older piece does not disturb them (`OlderGathers`), the first piece of a
newer delta empties the buffer (`NewestGathers`), and when the last comes the vector of
slots is as long as the delta has pieces, so that they are joined (`NextGathers`,
`AllPiecesJoin`). With repeated datagrams this fails, as said above. It needs a third
hypothesis in place of `ZeroIsOld`, which it implies: the first delta is compared with the
sequence 0 (`Connection.cpp:540`), so `FirstIsHeard` supposes that the states of the first
round trip are newer than 0. TLC evaluates all three for the constants of `delta_stream`
(`MCHypotheses`).

**`InMemoryLinkProofs`** begins with the filter of `SequenceFilter`: `KeepsTheNewest` and
`OrderIsKept` for every even modulus and every number of states. The invariant only adds
that the receiver is less than half a range behind. The rest is about the simulated network
and the three programs that share it, for all latencies, chances, swaps, losses and resets: `NeverEarly`, `BatchesInOrder`,
`DeltasInTime`, `KeepsUp`, and `IsLossyNetwork`, the refinement of `LossyNetwork`, of which
the queues are `pending` and the inbox is `handed`. `LinkImplementsFilter` says that the link
makes only steps of `SequenceFilter`, so that what is proved of the filter (`TypeOK`,
`KeepsTheNewest`, `OrderIsKept`) holds over this network too. A loop over a queue is written
with `Chosen`, whose lemmas (`NthOfPlaces`, `ChosenKeeps`) say that it keeps what it should,
in order. The inductive invariant `LInv` adds to the filter's own:

* `QueuesWait`: of what waits in a queue nothing was due at its owner's last turn, but for
  what was sent since (`Waiting`), and a datagram is at most as many datagrams behind its
  sender as it is ticks old (`Timely`), as each program has one turn on a tick. Together they
  bound how late a delta can be;
* `InboxCame` says the same of what was received, `NoneTwice` that no queue holds a datagram
  twice, `InOrder` that without swaps a queue is in the order of sending;
* `NoneMissing`: if the server loses nothing and nobody resets, every delta newer than the
  newest taken is still in the receiver's queue or inbox.

`InMemoryLinkAssumption` says that the server's latencies are below half the sequence
numbers. `SequenceFilter` is about such networks only, and `DeltasInTime` would be false
without it; in the program it holds by far (some ticks, against 16384), but the code does not
check the latencies it is given.

**`PayloadStreamProofs`**: `PayloadArrives`, `Recognised`, `NoneTooLarge`, `TypeOK` and
`NewestIsTaken`, for every width of a byte, every size of a datagram, every key, id and
list of messages, with losses, repetitions and delays. First each constructor is read back with the getters,
byte by byte: `DeltaRead`, `ClientDeltaRead`, `CommandRead` and `PieceRead` say that a
command, a delta and a piece are recognised as such and as nothing else, and that each field
is what was put in (the masks are arithmetic: the top bit of the first byte is free because a
sequence has one bit less than two bytes have). Then a delta that was cut up is put together:
`SortedPart` and `CompleteParts` say that a buffer with pieces of one delta that looks complete
has each of them, `PiecesMeet` that each begins where the one before ends, and
`JoinedIsWhole` that joining them gives the delta back. A distance that does not fit its
byte would not survive this, which is what `MayCode` is for. The inductive invariant `IInv`
adds to the properties what they do not say of the present: every datagram on the way is one
that `Send` makes of a message that was sent (`OnWire`), the fragment buffer holds pieces of
one such message and its sequence (`Buffers`), and the delta that waits is the whole of one
(`Kept`). `AddPacketKeepsOne` is where the sequences of a server's messages have to differ.

`NewestArrives` (`NewestIsTaken`) speaks only of an empty network, so its invariant,
`Delivery`, says where the newest message is until then (`Arriving`): it was given to
`DeltaParse`, or is kept for it and newer than the one before, or is on the way. On the way
means all of it in one datagram, or `Gathering`: each of its pieces is in a datagram or in the
buffer, none of them twice, and at least one still in a datagram. For the buffer not to be
emptied in between, and nothing to be kept that is newer, all else that is about
has to be older (`Proper`, `NewestIsNewer`). When the last piece arrives the buffer holds all
of them, however they were mixed (`AllJoined`), which is the converse of what `PayloadArrives`
needs. The theorem alone uses `NewestAssumption`: a server's or client's stream does not go round the
counter, as the wrapping order has no newest among messages that do, and a packet
is small enough to be cut up (65535 bytes are less than 127 * 1461). A session may be longer
than that; a stream is the part of it in which datagrams can be about at the same time.
TLC evaluates the assumption for the streams of the run.

**`HuffmanProofs`**: `PrefixFree`, `TypeOK`, `DecodeBounded` and `RoundTrip`, for every width
of a byte, every table, payload and buffer. The invariant of the constructor is about the queue:
each tree in it has room (`HasRoom`), which means that there is a function `taken`, where
`taken[n]` of the 2^n places at depth n are leaves or below one, and a tree with the end
marker never takes all of them. Joining two trees gives each its half. The loop of
`GenerateCanonicalEncodeMap` counts the same thing: the first code of length l is
`2 * taken[l - 1]` (`FirstIsTaken`), so a code of length l lies between that and `taken[l]`,
which is below all that begins later (`NoCodeBegins`). The end marker has room because its
own leaf does. For the streams, `Number(b)[k]` is the number that the first k bytes write and
`Prefix(b, p)` that of the first p bits: `PushWordWrites` says that pushing appends
bits to the number and `PullWordReads` that pulling returns the next ones, wherever they lie.
While it decodes, the index has passed at least a bit for every byte (`Reading`).

`DecodesWhatWasEncoded` (`RoundTrip`) has one hypothesis, `EveryByteOccurs`: every table counts
every byte, as those of the managers' tests and of the run `huffman` do; without it the run
`huffman_sparse` shows the payload that is lost. It is used in one place, `AllAreCoded`: 2^n
leaves and one more do not fit n levels (`AllBytesTaken`), so the end marker is too long for the
first decode map, and so much is still to come behind each byte that no pull stops
at the end of the buffer before its `Rewind` (`SymbolIsRead`). The rest holds of every code: a
window of `WordBits` bits begins with the code of one symbol only (`OneMatches`), at the upper
bits of that window the first map names the symbol or its second map, and this at the lower
bits the symbol, whoever else wrote there (`MapDecodes`). Reading the stream back from its end,
the bits at the position of each symbol are its code (`EncodedPositions`), and the
invariant `Decoding` says that the index is at the position of the next symbol.

Model-checked only, and why:

* liveness (`HandshakeEnds`, `HandshakeResolves`, `ListeningEnds`, `DroppedPlayersLeave`):
  the prover has no rule for fairness;
* `TreeIsOptimal` of `Huffman`: its cost is a fold over a sorted sequence.

## Not modelled

* In the bytes: keys, versions and texts inside a command, which are its payload here;
  the `Push` and `Pull` of eight and 32 bits and of iterators that are not random access,
  which only tests use; hashes.
* What the throttle is told (`CanReceive` is given the size of an address instead of that of
  the data, `NetworkManagerServerGuts.cpp:90`): the games' answers are losses here, whatever
  they are asked.
* Logging; single bits, 32 bit values and writable streams made from a buffer, in
  `BitStream` and `BitStreamReadOnly`; the socket calls of `NetworkProviderSynchronous`.
* `GameInABoxServer`, whose loop dereferences a manager that is never made, beyond the
  order of its calls; `source/Unused`, which nothing reaches; tests; third party code.
* Several clients at once with the full handshake, and a second session in `DeltaStream`.

## Plan

1. *Done*: the handshake of one connection, both managers over a lossy network with its
   faults, the sequence filter, the delta transport with fragments, the compressor, the
   simulated network, the packets and payloads in bytes.
2. *Done*: proofs of the safety of `Connection`, `ClientServer`, `SequenceFilter`,
   `DeltaStream`, `InMemoryLink`, `PayloadStream` and `Huffman`, with the refinements of `LatestDelivery` in both
   directions and of `LossyNetwork`.
3. Proofs to come: `TypeOK` of `DeltaStream` without hypotheses.
4. After the handshake: a smaller module of two clients behind one host, with the
   id that every client sets to 0, ports that change, and which connection moves; a second
   session in `DeltaStream`, to see what `Start` leaves behind.
