---------------------------- MODULE LossyNetwork ----------------------------
(***************************************************************************)
(* What the protocol is built for: a network that hands a datagram to the  *)
(* address it was sent to, once at most, at any time after it was sent and *)
(* in any order, or loses it.  A datagram is [from, to, n, ...], where n   *)
(* counts what its sender has sent.                                        *)
(***************************************************************************)
EXTENDS Integers

VARIABLES
  sends,    \* how often each address has sent
  pending,  \* datagrams sent and neither handed over nor lost
  handed    \* what Receive returned and its caller has not yet looked at

Init ==
  /\ sends \in [DOMAIN sends -> {0}]
  /\ pending = {}
  /\ handed = {}

(* Some of the new datagrams are under way, the others lost at once.       *)
Send ==
  /\ DOMAIN sends' = DOMAIN sends
  /\ \A p \in DOMAIN sends : sends'[p] \in {sends[p], sends[p] + 1}
  /\ pending \subseteq pending'
  /\ \A d \in pending' \ pending : sends[d.from] < d.n /\ d.n = sends'[d.from]
  /\ UNCHANGED handed

(* Receive of the address p, whose caller is done with the last ones.      *)
Hand(p) ==
  /\ handed = {}
  /\ handed' \subseteq { d \in pending : d.to = p }
  /\ pending' = pending \ handed'
  /\ UNCHANGED sends

Lose ==
  /\ pending' \subseteq pending
  /\ UNCHANGED <<sends, handed>>

Look ==
  /\ handed' \subseteq handed
  /\ UNCHANGED <<sends, pending>>

Next ==
  \/ Send
  \/ \E p \in DOMAIN sends : Hand(p)
  \/ Lose
  \/ Look

Spec == Init /\ [][Next]_<<sends, pending, handed>>

=============================================================================
