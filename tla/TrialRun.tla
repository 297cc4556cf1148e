------------------------------ MODULE TrialRun ------------------------------
(***************************************************************************)
(* `rollout-man run`: the worker pool of internal/run/run.go on one run    *)
(* directory, over several lives of the process.                           *)
(*                                                                         *)
(* A life loads results.jsonl (loadDone), starts one goroutine per trial   *)
(* that has no row, and waits for all of them (runAll).  A goroutine takes *)
(* an executor slot, runs the trial command with retries (attempts, once,  *)
(* Harbor.score), gives the slot back, takes a post-processing slot, runs  *)
(* the per_trial steps (postTrial, RunList, execTrial) and appends one row *)
(* (append).  Then the per_experiment steps run (Finish) and the closing   *)
(* report is written (closeOut).  An operator may interrupt a life at any  *)
(* moment (the context is cancelled; every goroutine still runs to its     *)
(* end) or the process may crash; a later life resumes from the file.      *)
(***************************************************************************)
EXTENDS Integers, FiniteSets, Sequences

CONSTANTS
  Trials,       \* trial ids of the matrix, all distinct
  ExecSlots,    \* Experiment.Concurrency
  PostSlots,    \* Pipeline.Concurrency
  MaxAttempts,  \* Experiment.MaxAttempts
  Steps,        \* per_trial steps after the executor, in order
  TornWrites,   \* may a crash, or a write that fails, leave half a line?
  MaxCrashes,   \* bound: crashes in a behaviour
  MaxFaults,    \* bound: crashes and lost rows that one trial meets
  MaxStarts     \* bound: lives in a behaviour

(* A step as the pool sees it: whether success puts artifacts outside the  *)
(* machine, whether it is a guard with on_violation: drop, and what its    *)
(* on_failure says.  fix: is refused outside per_case (config.go:719).     *)
Step == [ships : BOOLEAN, guard : BOOLEAN, onFailure : {"fail", "warn", "skip"}]

ASSUME RunAssumption ==
  /\ IsFiniteSet(Trials)
  /\ ExecSlots \in Nat \ {0}      \* defaults in config.go:677-685
  /\ PostSlots \in Nat \ {0}
  /\ MaxAttempts \in Nat \ {0}
  /\ Steps \in Seq(Step)
  /\ TornWrites \in BOOLEAN
  /\ MaxCrashes \in Nat /\ MaxFaults \in Nat
  /\ MaxStarts \in Nat

(* What a trial can come to.  "host" stands for the retryable codes        *)
(* HOST_ERROR and VERIFIER_ERROR (and for REDACT_FAILED, which only a      *)
(* post step produces), "env" for ENV_FAILED, "agent" for AGENT_TIMEOUT    *)
(* and AGENT_FAILED, "reward" for a measurement.                           *)
Outcome == {"reward", "agent", "env", "host"}

Retryable(o) == o = "host"

(* What OUT_DIR can say of a trial: a failure code, a reward, or nothing.  *)
Evidence == Outcome \union {"none"}

(* A row of results.jsonl; ran, a history field, says of the life that     *)
(* wrote it whether it started the trial command at least once ("yes"),    *)
(* was kept from it by the interrupt ("cut"), or neither.                  *)
Ran == {"no", "yes", "cut"}
Row == [outcome : Outcome, dropped : BOOLEAN, ran : Ran]
NoRow == [outcome |-> "none"]

(* Which line of results.jsonl is half a line: none, the last one, or one  *)
(* that more was glued to.                                                 *)
Torn == {"no", "last", "inner"}

VARIABLES
  phase,      \* "down" | "running" (runAll) | "finishing" (Finish, closeOut)
  cancelled,  \* the signal context is done
  pc,         \* where each trial's goroutine is
  attempt,    \* n in attempts
  outcome,    \* res of the goroutine
  ran,        \* history: has this life started the trial command
  step,       \* index of the next post step
  drop,       \* res.Dropped / actions.Ctx.Drop
  execSem,    \* trials holding an executor slot
  postSem,    \* trials holding a post-processing slot
  done,       \* Runner.done (and the ids of Runner.results)
  dropped,    \* Runner.dropped
  rows,       \* results.jsonl: trial id -> the sequence of its rows
  torn,       \* results.jsonl: which line is half a line
  evidence,   \* what the trial's OUT_DIR says (failure.txt, reward.txt)
  shipped,    \* how often a ship step of the trial has succeeded
  settled,    \* history: commands of the trial that ended in a result
  lost,       \* history: rows of the trial that append lost
  report,     \* the closing report on disk
  crashes, starts

vars == <<phase, cancelled, pc, attempt, outcome, ran, step, drop, execSem,
          postSem, done, dropped, rows, torn, evidence, shipped, settled,
          lost, report, crashes, starts>>

life == <<phase, cancelled, crashes, starts>>
disk == <<rows, torn, lost, report>>
memory == <<done, dropped>>
work == <<attempt, outcome, ran, evidence, settled>>
post == <<step, drop, shipped>>

Recorded(t) == rows[t] # <<>>

Init ==
  /\ phase = "down" /\ cancelled = FALSE
  /\ pc = [t \in Trials |-> "none"]
  /\ attempt = [t \in Trials |-> 0]
  /\ outcome = [t \in Trials |-> "host"]
  /\ ran = [t \in Trials |-> "no"]
  /\ step = [t \in Trials |-> 1]
  /\ drop = [t \in Trials |-> FALSE]
  /\ execSem = {} /\ postSem = {}
  /\ done = {} /\ dropped = {}
  /\ rows = [t \in Trials |-> <<>>]
  /\ torn = "no" /\ lost = [t \in Trials |-> 0]
  /\ evidence = [t \in Trials |-> "none"]
  /\ shipped = [t \in Trials |-> 0]
  /\ settled = [t \in Trials |-> 0]
  /\ report = "none"
  /\ crashes = 0 /\ starts = 0

----------------------------------------------------------------------------
(* Run: loadDone reads results.jsonl and fails on a torn line, in which    *)
(* case Run returns before anything starts.  Otherwise runAll spawns one   *)
(* goroutine for every trial that is not done.                             *)
Loads == torn = "no"

\* Mutant: a host failure counts as not done.
LoadedDoneReruns == {t \in Trials : Recorded(t) /\ rows[t][Len(rows[t])].outcome # "host"}
LoadedDone == {t \in Trials : Recorded(t)}

\* Mutant: a resumed run forgets what was dropped.
LoadedDroppedForgets == {}
LoadedDropped == {t \in Trials : Recorded(t) /\ rows[t][Len(rows[t])].dropped}

Start ==
  /\ phase = "down" /\ starts < MaxStarts
  /\ Loads
  /\ phase' = "running" /\ cancelled' = FALSE
  /\ done' = LoadedDone
  /\ dropped' = LoadedDropped
  /\ pc' = [t \in Trials |-> IF t \in LoadedDone THEN "none" ELSE "spawned"]
  /\ starts' = starts + 1
  /\ UNCHANGED <<crashes, work, post, execSem, postSem, disk>>

(* The goroutine looks at the context once, before it queues for a slot.   *)
CheckContext(t) ==
  /\ phase = "running" /\ pc[t] = "spawned"
  /\ pc' = [pc EXCEPT ![t] = IF cancelled THEN "quit" ELSE "queued"]
  /\ UNCHANGED <<life, work, post, execSem, postSem, memory, disk>>

AcquireExec(t) ==
  /\ phase = "running" /\ pc[t] = "queued"
  /\ Cardinality(execSem) < ExecSlots
  /\ execSem' = execSem \union {t}
  /\ pc' = [pc EXCEPT ![t] = "attempt"]
  /\ attempt' = [attempt EXCEPT ![t] = 1]
  /\ UNCHANGED <<life, outcome, ran, evidence, settled, post, postSem, memory, disk>>

Again(t, o) == Retryable(o) /\ attempt[t] < MaxAttempts /\ ~cancelled


(* The end of one attempt: retry what could succeed on a second run, else  *)
(* release the executor slot and move on to the post steps.                *)
EndAttempt(t, o) ==
  /\ outcome' = [outcome EXCEPT ![t] = o]
  /\ IF Again(t, o)
     THEN /\ pc' = [pc EXCEPT ![t] = "attempt"]
          /\ attempt' = [attempt EXCEPT ![t] = @ + 1]
          /\ UNCHANGED execSem
     ELSE /\ pc' = [pc EXCEPT ![t] = "packing"]
          /\ execSem' = execSem \ {t}
          /\ UNCHANGED attempt

(* Harbor.score: a failure code, then a reward, then the exit status.      *)
Score(e, exitedClean) ==
  CASE e # "none" -> e
    [] e = "none" /\ ~exitedClean -> "env"
    [] OTHER -> "host"

(* once, up to the trial command.  The endpoint may not resolve; the       *)
(* command may not start (no key, no fork; with the context cancelled it   *)
(* never does), and what is scored then is whatever an earlier command     *)
(* left in OUT_DIR; otherwise the command runs and the adapter clears      *)
(* OUT_DIR's evidence first (adapters/harbor.sh).                          *)
ResolveFails(t) ==
  /\ phase = "running" /\ pc[t] = "attempt"
  /\ \E o \in {"env", "host"} : EndAttempt(t, o)
  /\ UNCHANGED <<life, ran, evidence, settled, post, postSem, memory, disk>>

CommandRefused(t) ==
  /\ phase = "running" /\ pc[t] = "attempt"
  /\ EndAttempt(t, Score(evidence[t], FALSE))
  /\ ran' = [ran EXCEPT ![t] = IF @ = "no" /\ cancelled THEN "cut" ELSE @]
  /\ UNCHANGED <<life, evidence, settled, post, postSem, memory, disk>>

CommandStarts(t) ==
  /\ phase = "running" /\ pc[t] = "attempt" /\ ~cancelled
  /\ pc' = [pc EXCEPT ![t] = "command"]
  /\ ran' = [ran EXCEPT ![t] = "yes"]
  /\ evidence' = [evidence EXCEPT ![t] = "none"]
  /\ UNCHANGED <<life, attempt, outcome, settled, post, execSem, postSem, memory, disk>>

(* The command ends, on its own, by its timeout, or killed by the          *)
(* cancelled context: with any evidence written so far and any exit.       *)
CommandEnds(t) ==
  /\ phase = "running" /\ pc[t] = "command"
  /\ \E e \in Evidence, clean \in BOOLEAN :
       /\ cancelled => ~clean
       /\ evidence' = [evidence EXCEPT ![t] = e]
       /\ settled' = [settled EXCEPT ![t] = IF Retryable(Score(e, clean)) THEN @ ELSE @ + 1]
       /\ EndAttempt(t, Score(e, clean))
  /\ UNCHANGED <<life, ran, post, postSem, memory, disk>>

----------------------------------------------------------------------------
\* Mutant: the second semaphore is one too wide.
PostSlotFreeOffByOne == Cardinality(postSem) <= PostSlots
PostSlotFree == Cardinality(postSem) < PostSlots

\* Mutant: the row is written before the post steps run.
AcquirePostRecordsFirst(t) ==
  /\ phase = "running" /\ pc[t] = "packing" /\ PostSlotFree
  /\ postSem' = postSem \union {t}
  /\ pc' = [pc EXCEPT ![t] = "post"]
  /\ rows' = [rows EXCEPT ![t] = Append(@, [outcome |-> outcome[t], dropped |-> FALSE, ran |-> ran[t]])]
  /\ UNCHANGED <<life, work, post, execSem, memory, torn, lost, report>>

(* execTrial holds a slot of the second semaphore for the post steps.      *)
AcquirePost(t) ==
  /\ phase = "running" /\ pc[t] = "packing"
  /\ PostSlotFree
  /\ postSem' = postSem \union {t}
  /\ pc' = [pc EXCEPT ![t] = "post"]
  /\ UNCHANGED <<life, work, post, execSem, memory, disk>>

(* The locals of the goroutines in S are gone: they ended, or died.        *)
Forget(S) ==
  /\ attempt' = [t \in Trials |-> IF t \in S THEN 0 ELSE attempt[t]]
  /\ outcome' = [t \in Trials |-> IF t \in S THEN "host" ELSE outcome[t]]
  /\ ran' = [t \in Trials |-> IF t \in S THEN "no" ELSE ran[t]]
  /\ step' = [t \in Trials |-> IF t \in S THEN 1 ELSE step[t]]
  /\ drop' = [t \in Trials |-> IF t \in S THEN FALSE ELSE drop[t]]

InStep(t, s) ==
  /\ phase = "running" /\ pc[t] = "post"
  /\ step[t] <= Len(Steps) /\ s = Steps[step[t]]

\* Mutant: a dropped trial's steps still run.
DueAnyway(t, s) == InStep(t, s)
Due(t, s) == InStep(t, s) /\ ~drop[t]

NextStep(t) == step' = [step EXCEPT ![t] = @ + 1]

\* Mutant: the post slot is not given back.
EndPostLeaks(t, o, d) ==
  /\ outcome' = [outcome EXCEPT ![t] = o]
  /\ drop' = [drop EXCEPT ![t] = d]
  /\ dropped' = IF d THEN dropped \union {t} ELSE dropped
  /\ UNCHANGED postSem
  /\ pc' = [pc EXCEPT ![t] = "report"]

(* postTrial and execTrial after RunList has returned: remember a drop and *)
(* release the slot.                                                       *)
EndPost(t, o, d) ==
  /\ outcome' = [outcome EXCEPT ![t] = o]
  /\ drop' = [drop EXCEPT ![t] = d]
  /\ dropped' = IF d THEN dropped \union {t} ELSE dropped
  /\ postSem' = postSem \ {t}
  /\ pc' = [pc EXCEPT ![t] = "report"]

(* A step that fails may have published before it failed.                  *)
MayHaveShipped(t, s) ==
  \/ UNCHANGED shipped
  \/ s.ships /\ shipped' = [shipped EXCEPT ![t] = @ + 1]

(* A guard has dropped the trial: the steps behind it do not run.          *)
SkipStep(t) ==
  /\ \E s \in Step : InStep(t, s)
  /\ drop[t]
  /\ NextStep(t)
  /\ UNCHANGED <<life, work, pc, drop, shipped, execSem, postSem, memory, disk>>

StepPasses(t) ==
  /\ \E s \in Step :
       /\ Due(t, s)
       /\ shipped' = [shipped EXCEPT ![t] = IF s.ships THEN @ + 1 ELSE @]
  /\ NextStep(t)
  /\ UNCHANGED <<life, work, pc, drop, execSem, postSem, memory, disk>>

GuardDrops(t) ==
  /\ \E s \in Step : Due(t, s) /\ s.guard
  /\ drop' = [drop EXCEPT ![t] = TRUE]
  /\ NextStep(t)
  /\ UNCHANGED <<life, work, pc, shipped, execSem, postSem, memory, disk>>

(* A step fails with on_failure: warn.  A tempfail is not a verdict and    *)
(* never takes this branch (see StepStops).                                *)
StepWarns(t) ==
  /\ \E s \in Step : Due(t, s) /\ s.onFailure = "warn" /\ MayHaveShipped(t, s)
  /\ NextStep(t)
  /\ UNCHANGED <<life, work, pc, drop, execSem, postSem, memory, disk>>

(* on_failure: skip on a measured trial is a publication veto; on a failed *)
(* trial it is only logged.                                                *)
StepVetoes(t) ==
  /\ \E s \in Step : Due(t, s) /\ s.onFailure = "skip" /\ MayHaveShipped(t, s)
  /\ EndPost(t, outcome[t], outcome[t] = "reward")
  /\ UNCHANGED <<life, attempt, ran, evidence, settled, step, execSem, done, disk>>

\* Mutant: a trial whose artifacts were not shipped keeps its reward.
StepStopsKeepsReward(t) ==
  /\ \E s \in Step : Due(t, s) /\ MayHaveShipped(t, s)
  /\ EndPost(t, outcome[t], FALSE)
  /\ UNCHANGED <<life, attempt, ran, evidence, settled, step, execSem, done, disk>>

(* A failure with on_failure: fail, or a tempfail of any step: the list    *)
(* stops.  A measurement becomes a failure of ours; a failed trial keeps   *)
(* its own code.                                                           *)
StepStops(t) ==
  /\ \E s \in Step : Due(t, s) /\ MayHaveShipped(t, s)
  /\ EndPost(t, IF outcome[t] = "reward" THEN "host" ELSE outcome[t], FALSE)
  /\ UNCHANGED <<life, attempt, ran, evidence, settled, step, execSem, done, disk>>

PostDone(t) ==
  /\ phase = "running" /\ pc[t] = "post" /\ step[t] > Len(Steps)
  /\ EndPost(t, outcome[t], drop[t])
  /\ UNCHANGED <<life, attempt, ran, evidence, settled, step, shipped, execSem, done, disk>>

(* append: under the mutex, the row reaches memory and then the file.      *)
(* Every error on the way to the file is ignored: it cannot be opened, a   *)
(* reward that is NaN is no JSON and leaves an empty line, a write that    *)
(* runs out of space leaves half a line, and a row behind half a line is   *)
(* glued to it.  Such a row is in memory and nowhere else.                 *)
RowOf(t) == [outcome |-> outcome[t], dropped |-> drop[t], ran |-> ran[t]]

MayFail(t) == crashes + lost[t] < MaxFaults

RowLands(t) ==
  /\ torn # "last"
  /\ rows' = [rows EXCEPT ![t] = Append(@, RowOf(t))]
  /\ UNCHANGED <<torn, lost>>

RowIsLost(t) ==
  /\ MayFail(t) \/ torn = "last"
  /\ lost' = [lost EXCEPT ![t] = @ + 1]
  /\ torn' \in {IF torn = "last" THEN "inner" ELSE torn} \union (IF TornWrites THEN {"last"} ELSE {})
  /\ UNCHANGED rows

AppendRow(t) ==
  /\ phase = "running" /\ pc[t] = "report"
  /\ RowLands(t) \/ RowIsLost(t)
  /\ done' = done \union {t}
  /\ pc' = [pc EXCEPT ![t] = "recorded"]
  /\ Forget({t})
  /\ UNCHANGED <<life, evidence, settled, shipped, execSem, postSem, dropped, report>>

----------------------------------------------------------------------------
(* wg.Wait() returns; the per_experiment steps follow.                     *)
Finished == \A t \in Trials : pc[t] \in {"none", "quit", "recorded"}

AllDone ==
  /\ phase = "running" /\ Finished
  /\ phase' = "finishing"
  /\ UNCHANGED <<cancelled, crashes, starts, pc, work, post, execSem, postSem, memory, disk>>

(* A declared report step writes the report during Finish, without an      *)
(* outcome: "draft" has the text of "complete" until closeOut agrees.      *)
DeclaredReport ==
  /\ phase = "finishing" /\ report # "draft"
  /\ report' = "draft"
  /\ UNCHANGED <<life, pc, work, post, execSem, postSem, memory, rows, torn, lost>>

\* Mutant: an interrupted run is closed out as if it had finished.
RunStatusUninterrupted(ok) == IF ok THEN "complete" ELSE "stopped"
RunStatus(ok) == IF ok /\ ~cancelled THEN "complete" ELSE "stopped"

(* closeOut names the way the run ended: an error of a per_experiment step *)
(* or a cancelled context.                                                 *)
CloseOut ==
  /\ phase = "finishing"
  /\ \E ok \in BOOLEAN : report' = RunStatus(ok)
  /\ phase' = "down"
  /\ UNCHANGED <<cancelled, crashes, starts, pc, work, post, execSem, postSem, memory, rows, torn, lost>>

Interrupt ==
  /\ phase # "down" /\ ~cancelled
  /\ cancelled' = TRUE
  /\ UNCHANGED <<phase, crashes, starts, pc, work, post, execSem, postSem, memory, disk>>

(* The process dies.  What was on disk stays; a line that was being        *)
(* written may be cut in half, and a trial command that was running leaves *)
(* its OUT_DIR in any state.                                               *)
InCommand == {t \in Trials : pc[t] = "command"}

Crash ==
  /\ phase # "down" /\ crashes < MaxCrashes
  /\ \A t \in Trials : MayFail(t)
  /\ crashes' = crashes + 1
  /\ phase' = "down"
  /\ \/ UNCHANGED torn
     \/ /\ TornWrites
        /\ \E t \in Trials : pc[t] = "report"
        /\ torn' = "last"
  /\ \E left \in [InCommand -> Evidence] :
       evidence' = [t \in Trials |-> IF t \in InCommand THEN left[t] ELSE evidence[t]]
  /\ pc' = [t \in Trials |-> "none"]
  /\ execSem' = {} /\ postSem' = {}
  /\ done' = {} /\ dropped' = {}
  /\ Forget(Trials)
  /\ UNCHANGED <<cancelled, starts, settled, shipped, rows, lost, report>>

Attempting(t) == ResolveFails(t) \/ CommandRefused(t) \/ CommandStarts(t) \/ CommandEnds(t)
PostStep(t) == SkipStep(t) \/ StepPasses(t) \/ GuardDrops(t) \/ StepWarns(t)
               \/ StepVetoes(t) \/ StepStops(t) \/ PostDone(t)
Goroutine(t) == CheckContext(t) \/ AcquireExec(t) \/ Attempting(t)
                \/ AcquirePost(t) \/ PostStep(t) \/ AppendRow(t)

Next ==
  \/ Start
  \/ \E t \in Trials : Goroutine(t)
  \/ AllDone \/ DeclaredReport \/ CloseOut
  \/ Interrupt \/ Crash

Spec == Init /\ [][Next]_vars

(* Go schedules every goroutine that can run; a command and a post step    *)
(* end by their timeout at the latest; a waiter on a full channel is       *)
(* served when a slot is freed.  Nobody has to start, interrupt or crash.  *)
Fairness ==
  /\ \A t \in Trials : WF_vars(Goroutine(t))
  /\ WF_vars(AllDone) /\ WF_vars(CloseOut)

FairSpec == Spec /\ Fairness

----------------------------------------------------------------------------
(* Properties.                                                             *)

PC == {"none", "spawned", "quit", "queued", "attempt", "command", "packing",
       "post", "report", "recorded"}

(* Every variable has the values the code can give it.                     *)
TypeOK ==
  /\ phase \in {"down", "running", "finishing"} /\ cancelled \in BOOLEAN
  /\ pc \in [Trials -> PC]
  /\ attempt \in [Trials -> 0 .. MaxAttempts]
  /\ outcome \in [Trials -> Outcome]
  /\ ran \in [Trials -> Ran]
  /\ step \in [Trials -> 1 .. Len(Steps) + 1]
  /\ drop \in [Trials -> BOOLEAN]
  /\ execSem \subseteq Trials /\ postSem \subseteq Trials
  /\ done \subseteq Trials /\ dropped \subseteq Trials
  /\ rows \in [Trials -> Seq(Row)]
  /\ torn \in Torn /\ lost \in [Trials -> Nat]
  /\ evidence \in [Trials -> Evidence]
  /\ shipped \in [Trials -> Nat] /\ settled \in [Trials -> Nat]
  /\ report \in {"none", "draft", "complete", "stopped"}
  /\ crashes \in 0 .. MaxCrashes /\ starts \in 0 .. MaxStarts

(* Over every interrupt, crash and resume, results.jsonl never holds two   *)
(* rows of one trial id (runAll skips what loadDone found).                *)
RecordedOnce == \A t \in Trials : Len(rows[t]) <= 1

(* A container slot is held by exactly the trials that are running their   *)
(* command, a post slot by those that are post-processing; neither width   *)
(* is exceeded; no trial holds a container while it packs (runAll).        *)
SlotDiscipline ==
  /\ Cardinality(execSem) <= ExecSlots /\ Cardinality(postSem) <= PostSlots
  /\ execSem = {t \in Trials : pc[t] \in {"attempt", "command"}}
  /\ postSem = {t \in Trials : pc[t] = "post"}

(* While a life runs it knows every row of the file and what it says of    *)
(* the drop, whoever recorded it and in whichever life; what it believes   *)
(* recorded and is not is a row that append itself has lost, in this life: *)
(* the per_experiment steps publish from this memory (snapshot, isDropped).*)
MemoryMatchesDisk ==
  phase # "down" =>
    /\ \A t \in Trials : Recorded(t) =>
         t \in done /\ (t \in dropped <=> rows[t][Len(rows[t])].dropped)
    /\ \A t \in done : Recorded(t) \/ (lost[t] > 0 /\ pc[t] = "recorded")

(* A published number has its artifacts: a row with a reward that nothing  *)
(* dropped has been through every ship step that is not on_failure: warn.  *)
MustShip == {i \in 1 .. Len(Steps) : Steps[i].ships /\ Steps[i].onFailure # "warn"}
MeasuredIsShipped ==
  \A t \in Trials : \A i \in 1 .. Len(rows[t]) :
    rows[t][i].outcome = "reward" /\ ~rows[t][i].dropped
      => shipped[t] >= Cardinality(MustShip)

(* A result is never re-rolled: the command of a trial ends in a result    *)
(* once, and once more for every crash and every row of this trial that    *)
(* append lost (attempts, loadDone).                                       *)
SettledOncePerLoss == \A t \in Trials : settled[t] <= 1 + crashes + lost[t]

(* A closing report that reads "complete" is the report of a run directory *)
(* in which every trial of the matrix is recorded, but for a row that      *)
(* append lost and nobody was told of: neither an interrupt nor a crash    *)
(* nor a trial that never started leaves a report that claims it           *)
(* (closeOut).                                                             *)
CompleteReportIsTrue ==
  report = "complete" => \A t \in Trials : Recorded(t) \/ lost[t] > 0

(* A measurement, or a failure that counts against the agent, is of a      *)
(* command that the life which wrote the row has run.  score asks whether  *)
(* the command could be started last of all, after what an earlier one     *)
(* left in OUT_DIR: only a life that crashed, or one that lost the row of  *)
(* this trial, may have left it (Harbor.score).                            *)
UnrunResultIsALeftover ==
  \A t \in Trials : \A i \in 1 .. Len(rows[t]) :
    rows[t][i].outcome \in {"reward", "agent"} /\ rows[t][i].ran # "yes"
      => crashes > 0 \/ lost[t] > 0

(* A trial that has its row is never published again, by any life.         *)
NoShipAfterRow ==
  [][\A t \in Trials : Recorded(t) => shipped'[t] = shipped[t]]_vars

(* Once a guard or a veto has dropped a trial, nothing of it is published  *)
(* in that life, and the row that is written for it says so (RunList,      *)
(* execTrial).                                                             *)
DropIsFinal ==
  [][\A t \in Trials : drop[t] /\ phase = "running" =>
       /\ shipped'[t] = shipped[t]
       /\ rows'[t] # rows[t] => rows'[t][Len(rows'[t])].dropped]_vars

(* The record as TrialLedger states it.                                    *)
Ledger == INSTANCE TrialLedger WITH
  ledger <- [t \in Trials |-> IF Recorded(t) THEN rows[t][Len(rows[t])] ELSE NoRow],
  uploads <- shipped
ImplementsLedger == Ledger!LedgerSpec

(* A life that nothing kills comes to its end, whatever is interrupted and *)
(* however the slots are contended for.                                    *)
LifeEnds == phase = "running" ~> phase = "down"


(* README.md:45: an interrupted run is picked up with "the trials that are *)
(* missing", and watch.go:302: "an interrupted trial is simply not         *)
(* recorded".  No row is written for a trial whose command the interrupt   *)
(* kept from starting.                                                     *)
InterruptedIsNotRecorded ==
  \A t \in Trials : \A i \in 1 .. Len(rows[t]) : rows[t][i].ran # "cut"
============================================================================
