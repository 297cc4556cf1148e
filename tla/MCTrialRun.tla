----------------------------- MODULE MCTrialRun -----------------------------
(* TrialRun on small instances.                                            *)
EXTENDS TrialRun, TLC

CONSTANTS t1, t2, t3

Symmetric == Permutations(Trials)

(* A curation pipeline: keep the hard trials, ship them, then a command    *)
(* that may veto.                                                          *)
GuardThenShip ==
  << [ships |-> FALSE, guard |-> TRUE,  onFailure |-> "fail"],
     [ships |-> TRUE,  guard |-> FALSE, onFailure |-> "fail"] >>

(* A veto before the ship, and a best-effort step.                         *)
VetoThenShip ==
  << [ships |-> FALSE, guard |-> FALSE, onFailure |-> "skip"],
     [ships |-> TRUE,  guard |-> FALSE, onFailure |-> "fail"],
     [ships |-> FALSE, guard |-> FALSE, onFailure |-> "warn"] >>

ShipOnly == << [ships |-> TRUE, guard |-> FALSE, onFailure |-> "fail"] >>
=============================================================================
