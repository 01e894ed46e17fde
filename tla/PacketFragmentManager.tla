------------------------ MODULE PacketFragmentManager ------------------------
(***************************************************************************)
(* PacketFragmentManager.cpp: cutting a large delta into fragments and     *)
(* putting one back together.  The class's two members are the record      *)
(* [current |-> myCurrentSequence, parts |-> myFragments]; parts is in     *)
(* arrival order and keeps every duplicate, as the vector does.            *)
(***************************************************************************)
EXTENDS Packets, Sequences, FiniteSetsExt

NoFragments == [current |-> 0, parts |-> << >>]

(* A delta that needs more pieces is not sent: MaxTotalPayloadSize of      *)
(* PacketFragment, whose ids have seven bits.                              *)
MaxPieces == 127

(* FragmentPacket: a delta that fits one datagram is sent as it is.        *)
(* pieces is its size in units of the fragment payload.                    *)
FragmentPacket(delta, pieces) ==
  IF pieces = 1
  THEN {delta}
  ELSE { Fragment(delta, i, i = pieces - 1) : i \in 0 .. pieces - 1 }

(* Mistake: a newer sequence joins the pieces that are there.              *)
AddPacketKeeping(m, f) == [current |-> f.seq, parts |-> Append(m.parts, f)]

(* AddPacket: a newer sequence empties the buffer, an older one is dropped *)
(* unless the buffer is empty.                                             *)
AddPacket(m, f) ==
  LET kept == IF Less(m.current, f.seq) THEN << >> ELSE m.parts
  IN  CASE kept = << >>      -> [current |-> f.seq, parts |-> << f >>]
        [] kept # << >> /\ m.current = f.seq
                             -> [m EXCEPT !.parts = Append(kept, f)]
        [] OTHER             -> m

(* sorted.size(): the vector starts as long as myFragments and grows to    *)
(* hold the largest fragment id.                                           *)
SortedSize(parts) ==
  Max({Len(parts)} \cup { parts[k].index + 1 : k \in DOMAIN parts })

Filled(parts, i) == \E k \in DOMAIN parts : parts[k].index = i

(* sorted[i]: the last of the fragments with that id.                      *)
Sorted(parts, i) ==
  parts[Max({ k \in DOMAIN parts : parts[k].index = i })]

(* All the tests GetDefragmentedPacket makes before it joins the buffer.   *)
Complete(parts) ==
  /\ Filled(parts, 0)
  /\ \A i \in 0 .. SortedSize(parts) - 1 : Filled(parts, i)
  /\ Sorted(parts, SortedSize(parts) - 1).last

(* The joined buffer: the header comes from the first piece, the payload   *)
(* from all of them.                                                       *)
Joined(parts) ==
  LET whole == Sorted(parts, 0).whole
  IN  IF \A i \in 0 .. SortedSize(parts) - 1 : Sorted(parts, i).whole = whole
      THEN whole
      ELSE [whole EXCEPT !.data = Stitched]

GetDefragmentedPacket(m) ==
  IF Complete(m.parts) THEN Joined(m.parts) ELSE NoPacket

=============================================================================
