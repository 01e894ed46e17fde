--------------------------- MODULE MCClientServer ---------------------------
(***************************************************************************)
(* One client, or two, behind one address translator, and a server.        *)
(***************************************************************************)
EXTENDS ClientServer

CONSTANTS c1, c2, a1, a2, k1, k2, data

MCClient == {c1}
MCClients == {c1, c2}
MCAddress == {a1}
MCAddresses == {a1, a2}
MCHost(a) == "host"
MCHome(c) == IF c = c1 THEN a1 ELSE a2
MCKey == {k1, k2}
MCOneKey == {k1}
MCStateHandle == {k1, k2}
MCConnectionId == {0}
MCPayload == {data}
MCSendSeq == {1}
MCSendSeqs == {1, 2}

(* Datagrams repeat and players quit, or the server restarts and the       *)
(* client's port changes.                                                  *)
MCRepeats ==
  [duplicates |-> TRUE, quits |-> TRUE, restarts |-> 0, rebinds |-> 0]
MCRestart ==
  [duplicates |-> FALSE, quits |-> FALSE, restarts |-> 1, rebinds |-> 1]
MCFaults == {MCRepeats, MCRestart}
MCRebind == {[MCRestart EXCEPT !.restarts = 0]}
MCNoFaults == {[MCRestart EXCEPT !.restarts = 0, !.rebinds = 0]}

=============================================================================
