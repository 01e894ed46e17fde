--------------------------- MODULE SequenceFilter ---------------------------
(***************************************************************************)
(* The filter of Connection::Process on its own: the sequence of a delta   *)
(* is compared, with the wrapping operator>, with the last one received    *)
(* and replaces it if it is newer.  The sender numbers its states and      *)
(* increments a WrappingCounter with each; the network reorders, repeats   *)
(* and loses datagrams, but not by half the sequence numbers or more.      *)
(***************************************************************************)
EXTENDS WrappingCounter

CONSTANT MaxCount    \* bound: how many states the sender numbers

ASSUME MaxCountAssumption == MaxCount \in Nat

VARIABLES
  counter,   \* the sender's WrappingCounter
  received,  \* myLastSequenceRecieved
  count,     \* history: the number counter stands for
  newest     \* history: the largest number that was delivered

vars == <<counter, received, count, newest>>

(* Counters are default constructed: both sides begin at zero.             *)
Init ==
  /\ counter = Wrap(0)
  /\ received = Wrap(0)
  /\ count = 0
  /\ newest = 0

(* The sender's next state; the receiver is not half a window behind.      *)
Advance ==
  /\ count < MaxCount
  /\ count + 1 - newest < Half
  /\ counter' = PlusAssign(counter, 1)
  /\ count' = count + 1
  /\ UNCHANGED <<received, newest>>

(* Mistake: a plain comparison of the two values.                          *)
AcceptsPlain(sequence) == sequence > received

(* delta.GetSequence() > myLastSequenceRecieved                            *)
Accepts(sequence) == Greater(sequence, received)

(* A datagram with the number n arrives, in or out of turn, again or not.  *)
Deliver(n) ==
  /\ received' = IF Accepts(Wrap(n)) THEN Wrap(n) ELSE received
  /\ newest' = IF n > newest THEN n ELSE newest
  /\ UNCHANGED <<counter, count>>

InTime == { n \in 0 .. count : count - n < Half }

Next == Advance \/ \E n \in InTime : Deliver(n)

Spec == Init /\ [][Next]_vars

-----------------------------------------------------------------------------
(* Counters stay within their bits, histories within their bounds.         *)
TypeOK ==
  /\ counter \in Sequence
  /\ received \in Sequence
  /\ count \in 0 .. MaxCount
  /\ newest \in 0 .. count

(* After any deliveries in any order, however often the counter wrapped,   *)
(* the connection's last sequence is that of the newest delta delivered:   *)
(* no older or repeated delta is taken, and no newer one refused.          *)
KeepsTheNewest == received = Wrap(newest)

(* The order of the counters is the order of the numbers they stand for.   *)
OrderIsKept == Less(received, counter) <=> newest < count

=============================================================================
