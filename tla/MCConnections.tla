--------------------------- MODULE MCConnections ---------------------------
(* Connections with two Client addresses and descriptors 3 (the listener)  *)
(* to 5 or 6: descriptors run out, and every number is soon used again.    *)
EXTENDS Connections

CONSTANTS c1, c2

MCPtrs == {c1, c2}
MCOnePtr == {c1}
MCFds == 3..6
MCFewFds == 3..5
=============================================================================
