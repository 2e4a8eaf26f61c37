-------------------------- MODULE MCTimeoutManager --------------------------
(* TimeoutManager on three connections, with timeouts of one and two       *)
(* seconds (the header and the keep-alive timeout) and a longest sleep     *)
(* shorter than the longest timeout, so that the clamp is taken.           *)
EXTENDS TimeoutManager

CONSTANTS c1, c2, c3

MCClients == {c1, c2, c3}
MCTwoClients == {c1, c2}
MCDelays == {0, 1, 3}
=============================================================================
