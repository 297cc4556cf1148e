---------------------------- MODULE MCLocalTrial ----------------------------
(* LocalTrial on small instances.                                          *)
EXTENDS LocalTrial

CONSTANTS t1, t2
=============================================================================
