------------------------------ MODULE MCWatch ------------------------------
(* Watch on small instances.                                               *)
EXTENDS Watch, TLC

CONSTANTS c1, c2, v1, v2

(* Contents are only ever compared with other contents of the same case,   *)
(* so it does not matter which one a case has when it is first there.      *)
MCInit == Init /\ dir[c1] = v1 /\ dir[c2] \in {v1, Absent}
MCSpec ==
  /\ MCInit /\ [][Next]_vars
  /\ WF_vars(Main)
  /\ \A c \in Cases : WF_vars(Gate(c)) /\ WF_vars(Retry(c))
  /\ \A c \in Cases, k \in Launches : WF_vars(Trial(c, k))
=============================================================================
