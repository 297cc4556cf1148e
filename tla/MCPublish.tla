----------------------------- MODULE MCPublish -----------------------------
(* Publish on small instances.                                             *)
EXTENDS Publish, TLC

CONSTANTS t1, t2

Symmetric == Permutations(Trials)

(* A guard, the dataset, a best-effort upload and a push.                  *)
GuardedShip ==
  << [uses |-> "guard",       onFailure |-> "fail"],
     [uses |-> "dataset",     onFailure |-> "warn"],
     [uses |-> "upload",      onFailure |-> "warn"],
     [uses |-> "ship_github", onFailure |-> "fail"] >>
=============================================================================
