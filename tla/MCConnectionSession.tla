------------------------- MODULE MCConnectionSession -------------------------
EXTENDS ConnectionSession

CONSTANTS k1, k2, id1, id2, data, h1, h2

MCKey == {k1, k2}
MCConnectionId == {id1, id2}
MCPayload == {data}
MCStateHandle == {h1, h2}

(* Every handshake datagram with every key, and the deltas that can end a  *)
(* handshake: with an id and without one.                                  *)
MCDatagram ==
  PlainPackets \cup KeyPackets \cup VersionPackets
    \cup { Delta(1, NoAck, id1, data), Delta(1, NoAck, NoId, data) }

=============================================================================
