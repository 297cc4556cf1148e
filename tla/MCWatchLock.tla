---------------------------- MODULE MCWatchLock ----------------------------
(* WatchLock on small instances.                                           *)
EXTENDS WatchLock

CONSTANTS p1, p2, p3

(* p3 belongs to a user that the others may not signal.                    *)
Reach == (Pids \X Pids) \ {<<p1, p3>>, <<p2, p3>>}
=============================================================================
