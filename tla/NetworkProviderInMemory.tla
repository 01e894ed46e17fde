----------------------- MODULE NetworkProviderInMemory -----------------------
(***************************************************************************)
(* The simulated network of the tests: one object shared by the server and *)
(* all clients, who say by RunAs for whom the calls that follow are.  A    *)
(* datagram waits in the queue of its address until its time of release;   *)
(* chance loses some and swaps others.                                     *)
(*                                                                         *)
(* The random generators are sets of the values they may return, a chance  *)
(* is compared with them as it is in the code; an empty set is the         *)
(* std::function that was not given.  Times are in ticks.                  *)
(***************************************************************************)
EXTENDS Integers, Sequences, FiniteSets

CONSTANT Peer    \* the endpoints

VARIABLES
  packetsOf,      \* myAddressToPackets: each endpoint's [release, data]
  currentSource,  \* myCurrentSource
  settings,       \* mySettings
  losingPackets,  \* losingPackets
  disabled,       \* myNetworkIsDisabled
  now             \* what myTimeNow returns

NoPackets == [p \in Peer |-> << >>]

(* RandomSettings                                                          *)
Settings ==
  [latency : SUBSET Nat, random : SUBSET Nat, latencyMinimum : Nat,
   lossPerPacket : Nat, lossBurst : Nat, outOfOrder : Nat]

Quiet ==
  [latency |-> {}, random |-> {}, latencyMinimum |-> 0, lossPerPacket |-> 0,
   lossBurst |-> 0, outOfOrder |-> 0]

Init ==
  /\ packetsOf = NoPackets
  /\ currentSource \in Peer
  /\ settings = Quiet
  /\ losingPackets = FALSE
  /\ disabled = FALSE
  /\ now = 0

(* Without a generator there is nothing to draw from.                      *)
Validated(given) ==
  LET timed == IF given.latency = {} THEN [given EXCEPT !.latencyMinimum = 0]
               ELSE given
  IN  IF given.random # {} THEN timed
      ELSE [timed EXCEPT !.lossPerPacket = 0, !.lossBurst = 0, !.outOfOrder = 0]

RunAs(p, given) ==
  /\ currentSource' = p
  /\ settings' = Validated(given)
  /\ UNCHANGED <<packetsOf, losingPackets, disabled, now>>

-----------------------------------------------------------------------------
(* What the test random0To1() <= chance may be.                            *)
Happens(chance) == { r <= chance : r \in settings.random }

(* Mistake: the drawn latency is cut to the minimum from above.            *)
LagAtMost(drawn) ==
  IF drawn > settings.latencyMinimum THEN settings.latencyMinimum ELSE drawn

(* Mistake: the latency comes on top of the minimum.                       *)
LagAdded(drawn) == drawn + settings.latencyMinimum

(* std::max(latency(), latencyMinimum)                                     *)
Lag(drawn) ==
  IF drawn < settings.latencyMinimum THEN settings.latencyMinimum ELSE drawn

Lags ==
  IF settings.latencyMinimum > 0
  THEN { Lag(drawn) : drawn \in settings.latency } ELSE {0}

(* Which datagrams of a batch may be lost: each draw looks at what became  *)
(* of the one before, the first at what the last call left, whoever made   *)
(* it.  A sender without losses neither draws nor ends a burst.            *)
Losing(lost, i) == IF i = 1 THEN losingPackets ELSE lost[i - 1]

Losses(batch) ==
  { lost \in [DOMAIN batch -> BOOLEAN] :
      \A i \in DOMAIN batch :
        lost[i] \in IF settings.lossPerPacket = 0 THEN {FALSE}
                    ELSE Happens(IF Losing(lost, i) THEN settings.lossBurst
                                 ELSE settings.lossPerPacket) }

(* The k-th of the places in a queue.                                      *)
Nth(places, k) ==
  CHOOSE i \in places : Cardinality({ j \in places : j <= i }) = k

(* What a loop over a queue appends to another: what is at these places.   *)
(* SelectSeq says the same by recursion, which no proof could follow.      *)
Chosen(queue, places) ==
  [k \in 1 .. Cardinality(places) |-> queue[Nth(places, k)]]

(* What a batch adds to the queue of p.                                    *)
Added(batch, lost, release, p) ==
  Chosen([i \in DOMAIN batch |-> [release |-> release, data |-> batch[i]]],
         { i \in DOMAIN batch : ~lost[i] /\ batch[i].to = p })

(* The first and the last of a queue change places.                        *)
Swapped(queue) ==
  IF Len(queue) > 1
  THEN [queue EXCEPT ![1] = queue[Len(queue)], ![Len(queue)] = queue[1]]
  ELSE queue

Swaps == IF settings.outOfOrder > 0 THEN Happens(settings.outOfOrder) ELSE {FALSE}

(* Mistake: a batch goes in front of what waits.                           *)
EnqueuedInFront(queue, batch) == batch \o queue

Enqueued(queue, batch) == queue \o batch

(* PrivateSend: one latency for the batch; a swap is of every queue there  *)
(* is, also of those to which nothing was sent.                            *)
PrivateSend(batch) ==
  /\ \E lag \in Lags, lost \in Losses(batch), swap \in Swaps :
       LET queued == [p \in Peer |->
                        Enqueued(packetsOf[p],
                                 Added(batch, lost, now + lag, p))]
       IN  /\ packetsOf' = [p \in Peer |-> IF swap THEN Swapped(queued[p])
                                           ELSE queued[p]]
           /\ losingPackets' = IF settings.lossPerPacket = 0 \/ batch = << >>
                               THEN losingPackets ELSE lost[Len(batch)]
  /\ UNCHANGED <<currentSource, settings, disabled, now>>

(* Mistake: a datagram waits one tick too long.                            *)
DueAfter(timePacket) == timePacket.release < now

Due(timePacket) == timePacket.release <= now

(* Mistake: the queue stays as it was.                                     *)
KeptAll(queue) == queue

Kept(queue) == Chosen(queue, { i \in DOMAIN queue : ~Due(queue[i]) })

(* What PrivateReceive returns.                                            *)
Received ==
  LET queue == packetsOf[currentSource]
      due   == Chosen(queue, { i \in DOMAIN queue : Due(queue[i]) })
  IN  [i \in DOMAIN due |-> due[i].data]

(* PrivateReceive takes what is due; the order of the rest is kept.        *)
PrivateReceive ==
  /\ packetsOf' = [packetsOf EXCEPT ![currentSource] = Kept(@)]
  /\ UNCHANGED <<currentSource, settings, losingPackets, disabled, now>>

(* PrivateReset is for everybody, whoever calls it.                        *)
PrivateReset ==
  /\ packetsOf' = NoPackets
  /\ losingPackets' = FALSE
  /\ disabled' = FALSE
  /\ UNCHANGED <<currentSource, settings, now>>

(* PrivateDisable: nothing here looks at the flag but PrivateIsDisabled.   *)
PrivateDisable ==
  /\ disabled' = TRUE
  /\ UNCHANGED <<packetsOf, currentSource, settings, losingPackets, now>>

PrivateIsDisabled == disabled

=============================================================================
