---------------------------- MODULE MCTrajTopup ----------------------------
(* TrajTopup on a small instance: c1's name begins c2's ("foo", "foo-bar").*)
EXTENDS TrajTopup, TLC

CONSTANTS c1, c2, v1, v2

MCRank == (c1 :> 1) @@ (c2 :> 2)
MCCovers == (c1 :> {c1, c2}) @@ (c2 :> {c2})

(* c1 arrives later, or never: it is one of the edits.  Contents are only  *)
(* ever compared with an earlier content of the same case, so it does not  *)
(* matter which one c2 has at the beginning.                               *)
MCInit == Init /\ dir = [c \in Cases |-> IF c = c1 THEN Absent ELSE v1]
MCSpec == MCInit /\ [][Next]_vars /\ Fairness
=============================================================================
