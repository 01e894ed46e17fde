---------------------------- MODULE MCDeltaStream ----------------------------
EXTENDS DeltaStream

CONSTANTS key, handle

MCKey == {key}
MCStateHandle == {handle}
MCConnectionId == {0}
MCNumbers == 0 .. MaxFrame
MCPayload ==
  [n : MCNumbers, base : MCNumbers, distance : 0 .. MaxDistance,
   acked : MCNumbers]

(* Always two pieces, repeated, until the sequence has wrapped; whole      *)
(* deltas and pieces mixed, not repeated, over half the sequences.         *)
MCRepeated ==
  [pieces |-> {2}, duplicates |-> TRUE, maxTick |-> 9, maxParts |-> 3]
MCMixed ==
  [pieces |-> {1, 2}, duplicates |-> FALSE, maxTick |-> 5, maxParts |-> 4]
MCStreams == {MCRepeated, MCMixed}

(* The run keeps to what the proofs suppose.                               *)
ASSUME MCHypotheses == ZeroIsOld /\ FirstIsHeard /\ CutAlike

=============================================================================
