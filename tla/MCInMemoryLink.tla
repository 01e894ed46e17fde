--------------------------- MODULE MCInMemoryLink ---------------------------
(***************************************************************************)
(* Random values are 1 and 2: a chance of 0 never happens, of 1 it may, of *)
(* 2 it always does.                                                       *)
(***************************************************************************)
EXTENDS InMemoryLink

MCDraws == {1, 2}

(* No losses; the server's datagrams take one or two ticks.                *)
MCLate ==
  [latency |-> {0, 2}, random |-> {}, latencyMinimum |-> 1,
   lossPerPacket |-> 2, lossBurst |-> 2, outOfOrder |-> 2]

MCSlow == [MCLate EXCEPT !.latency = {0, 4}, !.latencyMinimum = 2]

(* Losses that, once begun, go on until somebody else's datagram ends them.*)
MCBurst ==
  [latency |-> {}, random |-> MCDraws, latencyMinimum |-> 5,
   lossPerPacket |-> 1, lossBurst |-> 2, outOfOrder |-> 1]

MCLossy == [MCBurst EXCEPT !.lossBurst = 1, !.outOfOrder = 0]

MCSwapping ==
  [MCLate EXCEPT !.random = MCDraws, !.lossPerPacket = 0, !.outOfOrder = 1]

MCWorld(s, r, b) ==
  [p \in Peer |-> IF p = Server THEN s ELSE IF p = Receiver THEN r ELSE b]

MCWorlds ==
  { MCWorld(MCSlow, MCLate, MCLossy),
    MCWorld(MCSwapping, MCLossy, MCLate),
    MCWorld(MCBurst, MCLossy, MCBurst) }

=============================================================================
