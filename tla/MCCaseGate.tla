----------------------------- MODULE MCCaseGate -----------------------------
(* CaseGate on small instances.                                            *)
EXTENDS CaseGate, TLC

CONSTANTS c1, c2, v1, v2, v3

Symmetric == Permutations(Cases) \union Permutations(Versions)

(* A best-effort check, then a skip check that may repair.                 *)
WarnThenRepair ==
  << [onFailure |-> "warn", fix |-> FALSE],
     [onFailure |-> "skip", fix |-> TRUE] >>

(* The gate of an experiment that repairs nothing.                         *)
HardThenSkip ==
  << [onFailure |-> "fail", fix |-> FALSE],
     [onFailure |-> "skip", fix |-> FALSE] >>

(* A repair behind a check that has already judged the case.               *)
SkipThenRepair ==
  << [onFailure |-> "skip", fix |-> FALSE],
     [onFailure |-> "skip", fix |-> TRUE] >>

=============================================================================
