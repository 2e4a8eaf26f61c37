-------------------------- MODULE MCSessionManager --------------------------
(* SessionManager with two connections, three sessions and the timeouts of *)
(* test/confs/valid/config_vhost_session_timeout.yaml: 1 and 3 seconds.    *)
EXTENDS SessionManager

CONSTANTS c1, c2, s1, s2, s3

MCConns == {c1, c2}
MCIds == {s1, s2, s3}
MCTimeouts == {1, 3}
=============================================================================
