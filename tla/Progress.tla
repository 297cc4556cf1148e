------------------------------ MODULE Progress ------------------------------
(***************************************************************************)
(* progress.json (internal/progress/progress.go): what a run says of       *)
(* itself while it is going, and what `rollout-man status` reads from      *)
(* another process.  Each operation of the Tracker takes its mutex,        *)
(* changes the snapshot and replaces the file by a rename, so the file is  *)
(* the snapshot after some operation and is modelled as that.  The counts  *)
(* are kept for the batch; the file has them per case label as well.       *)
(***************************************************************************)
LOCAL INSTANCE Integers
LOCAL INSTANCE FiniteSets

NoSnapshot == [total |-> -1]

Seeded(total) ==
  [total |-> total, done |-> 0, dropped |-> 0, failed |-> 0, running |-> {}, finished |-> FALSE]

(* Resumed: trials of the batch that earlier lives recorded.  They count   *)
(* as done, whatever came of them.                                         *)
WithResumed(s, n) == [s EXCEPT !.done = @ + n]

(* Step: the trial is in flight (in which step is left out).               *)
WithStep(s, t) == [s EXCEPT !.running = @ \union {t}]

(* Finish: the trial is counted, once, as dropped before as not measured.  *)
WithFinish(s, t, measured, dropped) ==
  [s EXCEPT !.running = @ \ {t},
            !.done = @ + 1,
            !.dropped = IF dropped THEN @ + 1 ELSE @,
            !.failed = IF ~dropped /\ ~measured THEN @ + 1 ELSE @]

WithClose(s) == [s EXCEPT !.finished = TRUE]

(* What status prints of a run, and its "still going".                     *)
StillGoing(s) == s # NoSnapshot /\ ~s.finished

Snapshots(T) ==
  [total : 0 .. Cardinality(T), done : Nat, dropped : Nat, failed : Nat,
   running : SUBSET T, finished : BOOLEAN]
=============================================================================
