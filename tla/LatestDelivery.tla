--------------------------- MODULE LatestDelivery ---------------------------
(***************************************************************************)
(* What the delta transport promises the game at its receiving end         *)
(* (Connection.hpp:74-77, "It auto drops old out of order packets, so you  *)
(* can assume this is always the most recent packet."), without            *)
(* datagrams, sequences that wrap, fragments or acks: the states the       *)
(* sender's game has had are numbered, and the receiver's game is handed   *)
(* some of them, each newer than all it was handed before, and nothing     *)
(* that the sender did not have.                                           *)
(***************************************************************************)
EXTENDS Integers, Sequences

CONSTANT First    \* the number of the sender's state when the two connect

VARIABLES
  newest,  \* the sender's state
  held     \* the states the receiver has been handed, in order

Init ==
  /\ newest = First
  /\ held = << >>

Advance ==
  /\ newest' = newest + 1
  /\ UNCHANGED held

Deliver ==
  /\ \E n \in First .. newest :
       /\ \A k \in DOMAIN held : held[k] < n
       /\ held' = Append(held, n)
  /\ UNCHANGED newest

Next == Advance \/ Deliver

Spec == Init /\ [][Next]_<<newest, held>>

=============================================================================
