---------------------------- MODULE MCCgiWorkers ----------------------------
(* CgiWorkers with two clients and two workers.  With two slots the limit  *)
(* is met and a killed child can wait for its collection while another     *)
(* runs; with one slot a request can be refused.                           *)
EXTENDS CgiWorkers

CONSTANTS c1, c2, w1, w2

MCClients == {c1, c2}
MCWorkers == {w1, w2}
MCExec == {"exec"}
MCBadScripts == {"exec", "timeout", "oversize", "outputFirst"}
=============================================================================
