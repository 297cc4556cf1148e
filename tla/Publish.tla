------------------------------- MODULE Publish -------------------------------
(***************************************************************************)
(* What a run says of itself and hands to others: results.jsonl and        *)
(* progress.json while it goes (reportTrial, append and the Tracker), and  *)
(* the per_experiment steps after it (Finish, actions.RunList): a guard on *)
(* the batch, the dataset, an upload (ship, ship_hf, ship_rclone) and a    *)
(* commit into a checkout (ship_github).  A shipping step sends the        *)
(* dataset if it names that path, and the run directory if it names none.  *)
(* A life is `rollout-man run` or, once there is a record, `rollout-man    *)
(* ship`, which loads it (Restore) and runs the steps again.  Steps may    *)
(* fail, lives may be interrupted or die between any two of the writes,    *)
(* and append may lose a row.  How a trial comes to its row is TrialRun's  *)
(* and LocalTrial's.                                                       *)
(***************************************************************************)
EXTENDS Integers, FiniteSets, Sequences, Progress

CONSTANTS
  Trials,      \* trial ids that the matrix can have
  Steps,       \* pipeline.per_experiment
  MinShipped,  \* min_shipped of its guard
  MaxFaults,   \* bound: rows that append loses
  MaxCrashes,  \* bound: crashes
  MaxStarts    \* bound: lives

Step == [uses : {"guard", "dataset", "upload", "ship_github"}, onFailure : {"fail", "warn"}]

ASSUME PublishAssumption ==
  /\ IsFiniteSet(Trials)
  /\ Steps \in Seq(Step)
  /\ MinShipped \in Nat
  /\ MaxFaults \in Nat /\ MaxCrashes \in Nat /\ MaxStarts \in Nat

(* A row as publication sees it: data (a measurement, or a failure that    *)
(* counts against the agent), a trial that was dropped, a failure of ours. *)
Row == {"data", "dropped", "infra"}
NoRow == "none"

(* What is published: the trials it has rows or output of, or no file.     *)
NoFile == [file |-> "none"]
File(T) == [file |-> "rows", trials |-> T]
Files == {NoFile} \union {File(T) : T \in SUBSET Trials}

VARIABLES
  whole,      \* the destinations whose shipping steps name no path
  phase,      \* "down" | "gate" | "seeded" | "running" | "steps"
  command,    \* "run" | "ship"
  cancelled,
  matrix,     \* the trials that the gate admitted
  pc,         \* each trial: "none" | "spawned" | "working" | "counting" | "ended"
  memory,     \* Runner.results, Runner.done and Runner.dropped
  rows,       \* results.jsonl
  outputs,    \* the trials whose output the run directory has
  snap,       \* progress.json
  step,       \* index of the next per_experiment step
  git,        \* where ship_github is: "no" | "added" | "committed"
  dataset,    \* dataset/data/trials.jsonl
  hub,        \* what the upload's destination has
  checkout, head, origin,  \* ship_github: dest in the work tree, in HEAD, at origin
  claims,     \* history: destinations whose last step of this content returned nil
  stranded,   \* history: a commit was made and its push did not succeed
  interrupted,\* history: the life that closed snap had been interrupted
  lost,       \* history: trials recorded in memory and not in the file
  faults, crashes, starts

vars == <<whole, phase, command, cancelled, matrix, pc, memory, rows, outputs, snap, step, git,
          dataset, hub, checkout, head, origin, claims, stranded, interrupted, lost, faults,
          crashes, starts>>

process == <<whole, command, cancelled, crashes, starts>>
record == <<memory, rows, outputs, lost, faults>>
live == <<snap, matrix, interrupted>>
repository == <<checkout, head, origin, stranded>>
publication == <<step, git, dataset, hub, claims, repository>>

Init ==
  /\ whole \in SUBSET {"hub", "git"}
  /\ phase = "down" /\ command = "run" /\ cancelled = FALSE
  /\ matrix = {}
  /\ pc = [t \in Trials |-> "none"]
  /\ memory = [t \in Trials |-> NoRow] /\ rows = [t \in Trials |-> NoRow]
  /\ outputs = {}
  /\ snap = NoSnapshot
  /\ step = 1 /\ git = "no"
  /\ dataset = NoFile /\ hub = NoFile
  /\ checkout = NoFile /\ head = NoFile /\ origin = NoFile
  /\ claims = {} /\ stranded = FALSE
  /\ interrupted = FALSE /\ lost = {}
  /\ faults = 0 /\ crashes = 0 /\ starts = 0

----------------------------------------------------------------------------
(* loadDone: the rows of the file, dropped ones as dropped.                *)
\* Mutant: a resumed run forgets what was dropped.
LoadedForgets == [t \in Trials |-> IF rows[t] = "dropped" THEN "data" ELSE rows[t]]
Loaded == rows

(* Run up to perCase; cmdShip up to Finish, which has no context to cancel *)
(* and neither a gate nor progress.                                        *)
StartRun ==
  /\ phase = "down" /\ starts < MaxStarts
  /\ starts' = starts + 1
  /\ phase' = "gate" /\ command' = "run" /\ cancelled' = FALSE
  /\ memory' = Loaded
  /\ UNCHANGED <<whole, crashes, pc, rows, outputs, lost, faults, live, publication>>

StartShip ==
  /\ phase = "down" /\ starts < MaxStarts
  /\ starts' = starts + 1
  /\ phase' = "steps" /\ command' = "ship" /\ cancelled' = FALSE
  /\ memory' = Loaded
  /\ step' = 1
  /\ UNCHANGED <<whole, crashes, pc, rows, outputs, lost, faults, live, git, dataset, hub,
                 claims, repository>>

(* The gate fails: Run returns and progress.json is whatever it was.       *)
GateFails ==
  /\ phase = "gate"
  /\ phase' = "down"
  /\ UNCHANGED <<process, pc, record, live, publication>>

(* progress.New, then Resumed: the trials of the matrix, and those of them *)
(* that are recorded already.                                              *)
GateAdmits ==
  /\ phase = "gate"
  /\ \E M \in SUBSET Trials :
       matrix' = M /\ snap' = Seeded(Cardinality(M))
  /\ phase' = "seeded"
  /\ UNCHANGED <<process, interrupted, pc, record, publication>>

Done(t) == memory[t] # NoRow

Resume ==
  /\ phase = "seeded"
  /\ phase' = "running"
  /\ snap' = WithResumed(snap, Cardinality({t \in matrix : Done(t)}))
  /\ pc' = [t \in Trials |-> IF t \in matrix /\ ~Done(t) THEN "spawned" ELSE "none"]
  /\ UNCHANGED <<process, matrix, interrupted, record, publication>>

----------------------------------------------------------------------------
(* A goroutine of runAll: the context is looked at once, then the trial is *)
(* in flight until it is counted, after its row.  Its output is in the run *)
(* directory from then on, whatever becomes of it.                         *)
Begin(t) ==
  /\ phase = "running" /\ pc[t] = "spawned"
  /\ \/ cancelled /\ pc' = [pc EXCEPT ![t] = "ended"] /\ UNCHANGED <<snap, outputs, claims>>
     \/ /\ ~cancelled /\ pc' = [pc EXCEPT ![t] = "working"]
        /\ snap' = WithStep(snap, t)
        /\ outputs' = outputs \union {t} /\ claims' = claims \ whole
  /\ UNCHANGED <<phase, process, matrix, interrupted, memory, rows, lost, faults, step, git,
                 dataset, hub, repository>>

(* append: memory has the row whatever happens; the file misses it when    *)
(* open or write fails, or when it has no JSON (a reward of NaN).          *)
AppendRow(t) ==
  /\ phase = "running" /\ pc[t] = "working"
  /\ \E r \in Row :
       /\ memory' = [memory EXCEPT ![t] = r]
       /\ \/ rows' = [rows EXCEPT ![t] = r] /\ UNCHANGED <<lost, faults>>
          \/ /\ faults < MaxFaults
             /\ faults' = faults + 1 /\ lost' = lost \union {t}
             /\ UNCHANGED rows
  /\ pc' = [pc EXCEPT ![t] = "counting"]
  /\ UNCHANGED <<phase, process, outputs, live, publication>>

Count(t) ==
  /\ phase = "running" /\ pc[t] = "counting"
  /\ snap' = WithFinish(snap, t, memory[t] # "infra", memory[t] = "dropped")
  /\ pc' = [pc EXCEPT ![t] = "ended"]
  /\ UNCHANGED <<phase, process, matrix, interrupted, record, publication>>

\* Mutant: Close does not wait for the last goroutine to report.
CloseEarly ==
  /\ phase = "running" /\ \A t \in Trials : pc[t] \in {"none", "counting", "ended"}
  /\ snap' = WithClose(snap) /\ interrupted' = cancelled
  /\ pc' = [t \in Trials |-> "none"]
  /\ phase' = "steps" /\ step' = 1
  /\ UNCHANGED <<process, matrix, record, git, dataset, hub, claims, repository>>
(* wg.Wait has returned: Close marks the end, of an interrupted life too,  *)
(* and Finish begins.                                                      *)
Close ==
  /\ phase = "running" /\ \A t \in Trials : pc[t] \in {"none", "ended"}
  /\ snap' = WithClose(snap) /\ interrupted' = cancelled
  /\ pc' = [t \in Trials |-> "none"]
  /\ phase' = "steps" /\ step' = 1
  /\ UNCHANGED <<process, matrix, record, git, dataset, hub, claims, repository>>

----------------------------------------------------------------------------
(* RunList over the per_experiment steps.                                  *)
Running(uses) == phase = "steps" /\ step <= Len(Steps) /\ Steps[step].uses = uses

StepPasses == step' = step + 1 /\ git' = "no" /\ UNCHANGED phase

\* Mutant: the list goes on after a step that failed.
StepFailsOn == step' = step + 1 /\ git' = "no" /\ UNCHANGED phase
(* on_failure: warn goes on; anything else ends the list, and a tempfail   *)
(* (a command that says the environment failed) does whatever is declared. *)
StepFails ==
  \/ /\ Steps[step].onFailure = "warn"
     /\ StepPasses
  \/ phase' = "down" /\ git' = "no" /\ step' = 1

(* guard: trials that were not dropped count as shipped, our own failures  *)
(* among them.  on_violation: drop only leaves a note here.                *)
Shipped == {t \in Trials : memory[t] \in {"data", "infra"}}

Guard ==
  /\ Running("guard")
  /\ IF Cardinality(Shipped) >= MinShipped THEN StepPasses ELSE StepFails
  /\ UNCHANGED <<process, pc, record, live, dataset, hub, claims, repository>>

(* dataset: rewritten in place from memory, without what was dropped and   *)
(* without our failures.  No context can stop it, and a write that fails,  *)
(* or a life that dies in it, leaves a part of the rows.                   *)
Publishable == {t \in Trials : memory[t] = "data"}

Dataset ==
  /\ Running("dataset")
  /\ \/ dataset' = File(Publishable) /\ claims' = {} /\ StepPasses
     \/ UNCHANGED <<dataset, claims>> /\ StepFails
     \/ /\ \E T \in SUBSET Publishable : dataset' = File(T)
        /\ claims' = {} /\ StepFails
  /\ UNCHANGED <<process, pc, record, live, hub, repository>>

(* shipSource: the path the step names, here the dataset, or the whole run *)
(* directory, which has the output of every trial that was ever begun, of  *)
(* those dropped and of our failures too.                                  *)
Source(dest) == IF dest \in whole THEN File(outputs) ELSE dataset

(* One command that sends it: it may fail before or after it has sent it,  *)
(* and cannot be started once the context is cancelled.                    *)
Upload ==
  /\ Running("upload") /\ Source("hub") # NoFile
  /\ \/ /\ ~cancelled
        /\ hub' = Source("hub") /\ claims' = claims \union {"hub"}
        /\ StepPasses
     \/ /\ hub' \in {hub, Source("hub")} /\ (cancelled => hub' = hub)
        /\ UNCHANGED claims /\ StepFails
  /\ UNCHANGED <<process, pc, record, live, dataset, repository>>

(* No rows to send: the path is missing, or a directory without them, of   *)
(* which a command may make what it likes.                                 *)
UploadNothing ==
  /\ Running("upload") /\ Source("hub") = NoFile
  /\ StepFails \/ (~cancelled /\ StepPasses)
  /\ UNCHANGED <<process, pc, record, live, dataset, hub, claims, repository>>

(* ship_github: copy the source over dest in the checkout and stage it.    *)
GitAdd ==
  /\ Running("ship_github") /\ git = "no" /\ Source("git") # NoFile
  /\ \/ checkout' = Source("git") /\ ~cancelled /\ git' = "added" /\ UNCHANGED <<step, phase>>
     \/ checkout' \in {checkout, Source("git")} /\ StepFails
  /\ UNCHANGED <<process, pc, record, live, dataset, hub, claims, head, origin, stranded>>

(* diff --cached: nothing staged is success, and nothing is pushed.  A     *)
(* diff that could not run counts as a difference, and the commit fails.   *)
(* The run directory may differ in more than the trials it has output of.  *)
GitNothingNew ==
  /\ Running("ship_github") /\ git = "added" /\ ~cancelled
  /\ checkout = head
  /\ claims' = claims \union {"git"}
  /\ StepPasses
  /\ UNCHANGED <<process, pc, record, live, dataset, hub, repository>>

Staged == checkout # head \/ "git" \in whole

GitCommit ==
  /\ Running("ship_github") /\ git = "added"
  /\ \/ /\ ~cancelled /\ Staged
        /\ head' = checkout /\ git' = "committed" /\ stranded' = TRUE
        /\ UNCHANGED <<step, phase>>
     \/ UNCHANGED <<head, stranded>> /\ StepFails
     \/ ~cancelled /\ Staged /\ head' = checkout /\ stranded' = TRUE /\ StepFails
  /\ UNCHANGED <<process, pc, record, live, dataset, hub, claims, checkout, origin>>

\* Mutant: a push that failed is only logged.
GitPushLogs ==
  /\ Running("ship_github") /\ git = "committed"
  /\ origin' \in {origin, head} /\ stranded' = FALSE
  /\ claims' = claims \union {"git"}
  /\ StepPasses
  /\ UNCHANGED <<process, pc, record, live, dataset, hub, checkout, head>>
GitPush ==
  /\ Running("ship_github") /\ git = "committed"
  /\ \/ /\ ~cancelled
        /\ origin' = head /\ stranded' = FALSE
        /\ claims' = claims \union {"git"}
        /\ StepPasses
     \/ /\ origin' \in {origin, head} /\ (cancelled => origin' = origin)
        /\ UNCHANGED <<claims, stranded>> /\ StepFails
  /\ UNCHANGED <<process, pc, record, live, dataset, hub, checkout, head>>

(* No dataset: a missing path ends the life (copyTree's callback gets no   *)
(* entry and panics), an empty directory has nothing to stage.             *)
GitNothing ==
  /\ Running("ship_github") /\ Source("git") = NoFile
  /\ StepFails \/ (~cancelled /\ StepPasses)
  /\ UNCHANGED <<process, pc, record, live, dataset, hub, claims, repository>>

EndList ==
  /\ phase = "steps" /\ step > Len(Steps)
  /\ phase' = "down" /\ step' = 1
  /\ UNCHANGED <<process, pc, record, live, git, dataset, hub, claims, repository>>

(* The signal cancels the context of `run`; `ship` has none and dies.      *)
Interrupt ==
  /\ phase # "down" /\ command = "run" /\ ~cancelled
  /\ cancelled' = TRUE
  /\ UNCHANGED <<whole, phase, command, crashes, starts, pc, record, live, publication>>

Crash ==
  /\ phase # "down" /\ crashes < MaxCrashes
  /\ crashes' = crashes + 1
  /\ phase' = "down" /\ step' = 1 /\ git' = "no"
  /\ pc' = [t \in Trials |-> "none"]
  /\ UNCHANGED <<whole, command, cancelled, starts, record, live, dataset, hub, claims, repository>>

Trial(t) == Begin(t) \/ AppendRow(t) \/ Count(t)
PerExperiment ==
  \/ Guard \/ Dataset \/ Upload \/ UploadNothing
  \/ GitAdd \/ GitNothingNew \/ GitCommit \/ GitPush \/ GitNothing \/ EndList

Next ==
  \/ StartRun \/ StartShip \/ GateFails \/ GateAdmits \/ Resume \/ Close
  \/ \E t \in Trials : Trial(t)
  \/ PerExperiment \/ Interrupt \/ Crash

Spec == Init /\ [][Next]_vars

----------------------------------------------------------------------------
(* Properties.                                                             *)

MaybeRow == Row \union {NoRow}

(* Each variable has the values the code can give it.                      *)
TypeOK ==
  /\ phase \in {"down", "gate", "seeded", "running", "steps"} /\ command \in {"run", "ship"}
  /\ whole \subseteq {"hub", "git"} /\ cancelled \in BOOLEAN /\ matrix \subseteq Trials
  /\ pc \in [Trials -> {"none", "spawned", "working", "counting", "ended"}]
  /\ memory \in [Trials -> MaybeRow] /\ rows \in [Trials -> MaybeRow]
  /\ snap \in Snapshots(Trials) \union {NoSnapshot} /\ outputs \subseteq Trials
  /\ step \in 1 .. Len(Steps) + 1 /\ git \in {"no", "added", "committed"}
  /\ {dataset, hub, checkout, head, origin} \subseteq Files
  /\ claims \subseteq {"hub", "git"} /\ stranded \in BOOLEAN
  /\ interrupted \in BOOLEAN /\ lost \subseteq Trials
  /\ faults \in 0 .. MaxFaults /\ crashes \in 0 .. MaxCrashes /\ starts \in 0 .. MaxStarts

(* progress.json, whenever it is read and whatever was interrupted, died   *)
(* or resumed since: it counts nothing that has no row, except rows that   *)
(* append lost without saying so; and if it says that the run is finished, *)
(* no trial is in flight, none is shown in flight, and every trial of the  *)
(* matrix is counted unless that life was interrupted (Run, reportTrial).  *)
ProgressCountsRecords ==
  snap # NoSnapshot =>
    /\ snap.done <= Cardinality({t \in matrix : rows[t] # NoRow \/ t \in lost})
    /\ snap.dropped + snap.failed <= snap.done
    /\ ~StillGoing(snap) =>
         /\ snap.running = {} /\ \A t \in Trials : pc[t] = "none"
         /\ snap.done = snap.total \/ interrupted

(* run.go:52: dropped means "its artifacts should not be published".  What *)
(* the dataset and any destination of a step that names it hold, over      *)
(* every resume, re-ship and crash, is data of the record: no dropped      *)
(* trial, no failure of ours, nothing that has no row, except rows that    *)
(* append lost.  A step that names no path sends the run directory, with   *)
(* the output of dropped trials in it: nothing is said of its destination. *)
DatasetHolders ==
  {dataset} \union (IF "hub" \in whole THEN {} ELSE {hub})
            \union (IF "git" \in whole THEN {} ELSE {checkout, head, origin})

PublishedIsRecorded ==
  \A f \in DatasetHolders \ {NoFile} : \A t \in f.trials : rows[t] = "data" \/ t \in lost

(* A guard that comes first holds for everything that leaves the machine,  *)
(* in whichever life: what is at a destination was sent when at least      *)
(* min_shipped trials had not been dropped.  They need not be data: the    *)
(* guard counts our failures as shipped, the dataset leaves them out.      *)
GuardFirst ==
  Len(Steps) > 0 /\ Steps[1].uses = "guard" /\ Steps[1].onFailure = "fail"

PublishedPassedGuard ==
  GuardFirst /\ (hub # NoFile \/ origin # NoFile) =>
    Cardinality({t \in Trials : rows[t] \in {"data", "infra"} \/ t \in lost}) >= MinShipped

(* A shipping step that returned nil has put its source as it is now, the  *)
(* dataset or the run directory's output, at its destination, also after   *)
(* earlier steps that failed or died half way; ship_github only if no      *)
(* commit before it stayed unpushed, since a later run finds nothing to    *)
(* commit and does not push.                                               *)
ShippedMeansThere ==
  /\ "hub" \in claims => hub = Source("hub")
  /\ "git" \in claims => origin = Source("git") \/ stranded
=============================================================================
