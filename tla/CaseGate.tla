------------------------------ MODULE CaseGate ------------------------------
(***************************************************************************)
(* The per_case gate of internal/run/run.go: perCase gates every case of   *)
(* the experiment concurrently, GateOne takes one case through the         *)
(* per_case steps, reusing and recording verdicts in the gate cache that   *)
(* lives beside the runs, and actions.RunList runs one step with its       *)
(* repair rounds.  A check is whatever the experiment declares: it may say *)
(* yes or no to the same bytes on two days, report a failure that is not   *)
(* the case's (a tempfail), be killed by the cancelled context, or say     *)
(* nothing at all: it could not be started, ran out of its time, or left   *)
(* an output file that cannot be read.                                     *)
(*                                                                         *)
(* A version is the content of a case directory (its hash identifies it).  *)
(* The directories are edited only between the lives of the process, and,  *)
(* within a life, by the repairs of their own gate.                        *)
(***************************************************************************)
EXTENDS Integers, FiniteSets, Sequences

CONSTANTS
  Cases,     \* the case directories of the experiment
  Versions,  \* what a case directory can contain
  Steps,     \* pipeline.per_case, in order
  Slots,     \* pipeline.per_case_concurrency
  Rounds,    \* fix_attempts
  MaxEdits,  \* bound: edits of a directory or of a check between lives
  MaxStarts  \* bound: lives

(* fix: the step names a repair and has fix_writeback: true.               *)
Step == [onFailure : {"fail", "skip", "warn"}, fix : BOOLEAN]

ASSUME GateAssumption ==
  /\ IsFiniteSet(Cases)
  /\ Steps \in Seq(Step)
  /\ Slots \in Nat \ {0}          \* default 1
  /\ Rounds \in Nat \ {0}         \* Action.Repairs
  /\ MaxEdits \in Nat /\ MaxStarts \in Nat

StepIds == 1 .. Len(Steps)

(* A cached verdict of one step: the fingerprint of the step's definition  *)
(* when it ran, and what it said.                                          *)
Verdict == [fp : Nat, passed : BOOLEAN]
NoVerdict == [fp |-> -1]
Known(v) == v # NoVerdict

VARIABLES
  phase,      \* "down" | "gating"
  cancelled,  \* the run's context is done
  regate,     \* Runner.Regate
  pc,         \* where the goroutine of each case is in perCase / GateOne
  dir,        \* the content of each case directory
  key,        \* the hash Resolve found
  sha,        \* Case.SHA256
  unhashed,   \* history: the edited directory could not be hashed again in this gate
  step, round,
  ran,        \* GateOne's ran > 0
  err,        \* how the last run of the check failed: "no", or a member of Unanswered
  verdicts,   \* GateOne's verdicts
  cache,      \* Runner.gateCache: version -> step -> verdict
  disk,       \* gate-cache.json
  def,        \* the current definition of each check (its fingerprint)
  listed,     \* what perCase returned last
  edits, starts,
  answers,    \* history: <<step, definition, version, "yes" | "no" | "mute">>
  repaired,   \* history: versions that a repair started from or arrived at
  fixer       \* history: the step that had the case repaired last in this gate, or 0

vars == <<phase, cancelled, regate, pc, dir, key, sha, unhashed, step, round, ran, err, verdicts,
          cache, disk, def, listed, edits, starts, answers, repaired, fixer>>

process == <<phase, cancelled, regate, starts>>
gate == <<key, sha, unhashed, step, round, ran, err, verdicts>>
world == <<dir, def, edits>>
stores == <<cache, disk>>
history == <<answers, repaired, fixer>>

NoVerdicts == [i \in StepIds |-> NoVerdict]
EmptyCache == [v \in Versions |-> NoVerdicts]

Active == {"step", "check", "fix", "persist", "save"}
Ended == {"admitted", "rejected", "failed", "unjudged"}

Init ==
  /\ phase = "down" /\ cancelled = FALSE /\ regate = FALSE
  /\ pc = [c \in Cases |-> "queued"]
  /\ dir \in [Cases -> Versions]
  /\ key = dir /\ sha = dir /\ unhashed = [c \in Cases |-> FALSE]
  /\ step = [c \in Cases |-> 1] /\ round = [c \in Cases |-> 0]
  /\ ran = [c \in Cases |-> FALSE]
  /\ err = [c \in Cases |-> "none"]
  /\ verdicts = [c \in Cases |-> NoVerdicts]
  /\ cache = EmptyCache /\ disk = EmptyCache
  /\ def = [i \in StepIds |-> 0]
  /\ listed = [ok |-> TRUE, cases |-> {}]
  /\ edits = 0 /\ starts = 0
  /\ answers = {} /\ repaired = {} /\ fixer = [c \in Cases |-> 0]

----------------------------------------------------------------------------
(* perCase: a goroutine per case, a semaphore, and a context that the      *)
(* first hard failure cancels for everybody.                               *)
Stopped == cancelled \/ \E c \in Cases : pc[c] = "failed"

Fresh ==
  /\ pc' = [c \in Cases |-> "queued"]
  /\ key' = dir /\ sha' = dir /\ unhashed' = [c \in Cases |-> FALSE]
  /\ step' = [c \in Cases |-> 1] /\ round' = [c \in Cases |-> 0]
  /\ ran' = [c \in Cases |-> FALSE]
  /\ err' = [c \in Cases |-> "none"]
  /\ verdicts' = [c \in Cases |-> NoVerdicts]

\* Mutant: --regate starts from an empty cache.
BeginRegatesEmpty ==
  /\ phase = "down" /\ starts < MaxStarts
  /\ phase' = "gating" /\ cancelled' = FALSE
  /\ regate' \in BOOLEAN
  /\ starts' = starts + 1
  /\ cache' = IF regate' THEN EmptyCache ELSE disk
  /\ Fresh
  /\ UNCHANGED <<world, disk, listed, history>>
Begin ==
  /\ phase = "down" /\ starts < MaxStarts
  /\ phase' = "gating" /\ cancelled' = FALSE
  /\ regate' \in BOOLEAN
  /\ starts' = starts + 1
  /\ cache' = disk
  /\ Fresh
  /\ UNCHANGED <<world, disk, listed, history>>

SlotFree == Cardinality({c \in Cases : pc[c] \in Active}) < Slots

(* A case that was still queued when the context was cancelled is not      *)
(* gated at all.                                                           *)
GiveUp(c) ==
  /\ phase = "gating" /\ pc[c] = "queued" /\ SlotFree /\ Stopped
  /\ pc' = [pc EXCEPT ![c] = "unjudged"]
  /\ UNCHANGED <<process, gate, world, stores, listed, history>>

(* GateOne: resolve the case (which may fail) and fetch what the cache     *)
(* knows of its content.                                                   *)
Resolve(c) ==
  /\ phase = "gating" /\ pc[c] = "queued" /\ SlotFree /\ ~Stopped
  /\ key' = [key EXCEPT ![c] = dir[c]]
  /\ sha' = [sha EXCEPT ![c] = dir[c]]
  /\ unhashed' = [unhashed EXCEPT ![c] = FALSE]
  /\ verdicts' = [verdicts EXCEPT ![c] = cache[dir[c]]]
  /\ step' = [step EXCEPT ![c] = 1]
  /\ ran' = [ran EXCEPT ![c] = FALSE]
  /\ pc' = [pc EXCEPT ![c] = "step"]
  /\ fixer' = [fixer EXCEPT ![c] = 0]
  /\ UNCHANGED <<process, round, err, world, stores, listed, answers, repaired>>

ResolveFails(c) ==
  /\ phase = "gating" /\ pc[c] = "queued" /\ SlotFree /\ ~Stopped
  /\ pc' = [pc EXCEPT ![c] = "failed"]
  /\ UNCHANGED <<process, gate, world, stores, listed, history>>

----------------------------------------------------------------------------
(* The loop over the steps.                                                *)
AtStep(c, i) == phase = "gating" /\ pc[c] = "step" /\ step[c] = i /\ i <= Len(Steps)

\* Mutant: the fingerprint of the step is not compared.
ReusableAnyDefinition(c, i) == Known(verdicts[c][i]) /\ ~regate
Reusable(c, i) == Known(verdicts[c][i]) /\ verdicts[c][i].fp = def[i] /\ ~regate

(* The gate of a case is over.  When no step ran nothing can have changed  *)
(* and nothing is recorded; otherwise a clean end hashes the directory     *)
(* again, because a repair (even one that failed) may have edited it, and  *)
(* every end is persisted.  A directory that cannot be hashed keeps the    *)
(* hash it had.                                                            *)
\* Mutant: the directory is not hashed again.
RehashNever(c, clean) == UNCHANGED <<sha, unhashed>>
Rehash(c, clean) ==
  \/ clean /\ sha' = [sha EXCEPT ![c] = dir'[c]] /\ UNCHANGED unhashed
  \/ clean /\ dir'[c] # sha[c] /\ unhashed' = [unhashed EXCEPT ![c] = TRUE] /\ UNCHANGED sha
  \/ ~clean /\ UNCHANGED <<sha, unhashed>>

EndGate(c, how) ==
  /\ IF ran[c] THEN Rehash(c, how # "failed") ELSE UNCHANGED <<sha, unhashed>>
  /\ pc' = [pc EXCEPT ![c] = IF ran[c] THEN "persist" ELSE how]
  /\ err' = [err EXCEPT ![c] = how]

Reuse(c) ==
  /\ \E i \in StepIds : AtStep(c, i) /\ Reusable(c, i) /\ verdicts[c][i].passed
  /\ step' = [step EXCEPT ![c] = @ + 1]
  /\ UNCHANGED <<process, key, sha, unhashed, round, ran, err, verdicts, pc, world, stores, listed, history>>

ReuseRejection(c) ==
  /\ \E i \in StepIds : AtStep(c, i) /\ Reusable(c, i) /\ ~verdicts[c][i].passed
  /\ UNCHANGED <<process, key, step, round, ran, verdicts, world, stores, listed, history>>
  /\ EndGate(c, "rejected")

Run(c) ==
  /\ \E i \in StepIds : AtStep(c, i) /\ ~Reusable(c, i)
  /\ pc' = [pc EXCEPT ![c] = "check"]
  /\ ran' = [ran EXCEPT ![c] = TRUE]
  /\ round' = [round EXCEPT ![c] = 1]
  /\ UNCHANGED <<process, key, sha, unhashed, step, err, verdicts, world, stores, listed, history>>

AllPassed(c) ==
  /\ phase = "gating" /\ pc[c] = "step" /\ step[c] > Len(Steps)
  /\ UNCHANGED <<process, key, step, round, ran, verdicts, world, stores, listed, history>>
  /\ EndGate(c, "admitted")

----------------------------------------------------------------------------
(* actions.RunList on one step, and what GateOne makes of its outcome.     *)
InCheck(c, i) == phase = "gating" /\ pc[c] = "check" /\ step[c] = i

Answered(c, i, said) == answers' = answers \union {<<i, def[i], dir[c], said>>}

Record(c, i, passed) ==
  verdicts' = [verdicts EXCEPT ![c][i] = [fp |-> def[i], passed |-> passed]]

(* The step is a pass to GateOne: RunList returned nil.                    *)
StepPassed(c, i) ==
  /\ Record(c, i, TRUE)
  /\ step' = [step EXCEPT ![c] = @ + 1]
  /\ pc' = [pc EXCEPT ![c] = "step"]
  /\ UNCHANGED <<key, sha, unhashed, round, ran, err>>

(* The step has failed for good, and how decides (on_failure).  A tempfail *)
(* is nobody's verdict; a skip under a cancelled context is not one        *)
(* either, since the check may have died with the process.                 *)
\* Mutant: an interrupted skip is cached as a rejection.
StepFailedInterrupted(c, i, how) ==
  \/ /\ how = "tempfail" \/ Steps[i].onFailure = "fail"
     /\ EndGate(c, "failed")
     /\ UNCHANGED <<key, step, round, ran, verdicts>>
  \/ /\ how # "tempfail" /\ Steps[i].onFailure = "warn"
     /\ StepPassed(c, i)
  \/ /\ how # "tempfail" /\ Steps[i].onFailure = "skip"
     /\ Record(c, i, FALSE)
     /\ EndGate(c, "rejected")
     /\ UNCHANGED <<key, step, round, ran>>
\* Mutant: an outage is taken for a no.
StepFailedOutage(c, i, how) ==
  \/ /\ Steps[i].onFailure = "fail"
     /\ EndGate(c, "failed")
     /\ UNCHANGED <<key, step, round, ran, verdicts>>
  \/ /\ Steps[i].onFailure = "warn"
     /\ StepPassed(c, i)
  \/ /\ Steps[i].onFailure = "skip" /\ ~Stopped
     /\ Record(c, i, FALSE)
     /\ EndGate(c, "rejected")
     /\ UNCHANGED <<key, step, round, ran>>
StepFailed(c, i, how) ==
  \/ /\ how = "tempfail" \/ Steps[i].onFailure = "fail"
     /\ EndGate(c, "failed")
     /\ UNCHANGED <<key, step, round, ran, verdicts>>
  \/ /\ how # "tempfail" /\ Steps[i].onFailure = "warn"
     /\ StepPassed(c, i)
  \/ /\ how # "tempfail" /\ Steps[i].onFailure = "skip" /\ Stopped
     /\ EndGate(c, "failed")
     /\ UNCHANGED <<key, step, round, ran, verdicts>>
  \/ /\ how # "tempfail" /\ Steps[i].onFailure = "skip" /\ ~Stopped
     /\ Record(c, i, FALSE)
     /\ EndGate(c, "rejected")
     /\ UNCHANGED <<key, step, round, ran>>

(* A failed check goes to the repair while there are rounds left.          *)
Repairable(c, i) == Steps[i].fix /\ round[c] <= Rounds

CheckFailed(c, i, how) ==
  \/ /\ Repairable(c, i)
     /\ pc' = [pc EXCEPT ![c] = "fix"]
     /\ err' = [err EXCEPT ![c] = how]
     /\ UNCHANGED <<key, sha, unhashed, step, round, ran, verdicts>>
  \/ ~Repairable(c, i) /\ StepFailed(c, i, how)

SaysYes(c) ==
  /\ \E i \in StepIds : InCheck(c, i) /\ Answered(c, i, "yes") /\ StepPassed(c, i)
  /\ UNCHANGED <<process, world, stores, listed, repaired, fixer>>

SaysNo(c) ==
  /\ UNCHANGED <<process, world, stores, listed, repaired, fixer>>
  /\ \E i \in StepIds : InCheck(c, i) /\ Answered(c, i, "no") /\ CheckFailed(c, i, "no")

(* The check gives no answer.  The environment fails and the check says so *)
(* (exit 75, or a probe that could not run); the check is killed with the  *)
(* context; or it is mute: its pin or its model does not resolve, it       *)
(* cannot be forked, its own timeout kills it, its outputs do not parse.   *)
(* Only a tempfail and the cancelled context are told from a no.           *)
Unanswered == {"tempfail", "killed", "mute"}
CannotSay(c) ==
  /\ UNCHANGED <<process, world, stores, listed, repaired, fixer>>
  /\ \E i \in StepIds, how \in Unanswered :
       /\ InCheck(c, i) /\ (how = "killed" => Stopped)
       /\ IF how = "mute" THEN Answered(c, i, "mute") ELSE UNCHANGED answers
       /\ CheckFailed(c, i, how)

(* The repair edits the directory and the check runs again; a repair that  *)
(* fails, possibly half way, leaves the last failure to on_failure.  It is *)
(* a command, and cannot be started once the context is cancelled.         *)
Edited(c, v) ==
  /\ v # dir[c] => err[c] # "killed"
  /\ dir' = [dir EXCEPT ![c] = v]
  /\ fixer' = [fixer EXCEPT ![c] = step[c]]
  /\ repaired' = IF v = dir[c] THEN repaired ELSE repaired \union {key[c], dir[c], v}

\* Mutants: the repair is trusted; the rounds are not counted.
FixTrusted(c) ==
  /\ phase = "gating" /\ pc[c] = "fix" /\ err[c] # "killed"
  /\ \E v \in Versions : Edited(c, v)
  /\ StepPassed(c, step[c])
  /\ UNCHANGED <<process, def, edits, stores, listed, answers>>
FixForever(c) ==
  /\ phase = "gating" /\ pc[c] = "fix" /\ err[c] # "killed"
  /\ \E v \in Versions : Edited(c, v)
  /\ pc' = [pc EXCEPT ![c] = "check"]
  /\ UNCHANGED <<process, key, sha, unhashed, step, round, ran, err, verdicts, def, edits, stores, listed, answers>>
Fix(c) ==
  /\ phase = "gating" /\ pc[c] = "fix" /\ err[c] # "killed"
  /\ \E v \in Versions : Edited(c, v)
  /\ pc' = [pc EXCEPT ![c] = "check"]
  /\ round' = [round EXCEPT ![c] = @ + 1]
  /\ UNCHANGED <<process, key, sha, unhashed, step, ran, err, verdicts, def, edits, stores, listed, answers>>

FixFails(c) ==
  /\ phase = "gating" /\ pc[c] = "fix"
  /\ \E v \in Versions : Edited(c, v)
  /\ StepFailed(c, step[c], err[c])
  /\ UNCHANGED <<process, def, edits, stores, listed, answers>>

----------------------------------------------------------------------------
(* persistGateVerdicts: under the mutex, one entry with this gate's        *)
(* verdicts and, for the steps it did not reach, those of the old entries  *)
(* of both hashes (in the map's order) is filed under both hashes.         *)
CarryOver(entry, old) == [i \in StepIds |-> IF Known(entry[i]) THEN entry[i] ELSE old[i]]

Entry(c, first, second) == CarryOver(CarryOver(verdicts[c], cache[first]), cache[second])

Persist(c) ==
  /\ phase = "gating" /\ pc[c] = "persist"
  /\ \E e \in {Entry(c, key[c], sha[c]), Entry(c, sha[c], key[c])} :
       cache' = [v \in Versions |-> IF v \in {key[c], sha[c]} THEN e ELSE cache[v]]
  /\ pc' = [pc EXCEPT ![c] = "save"]
  /\ UNCHANGED <<process, gate, world, disk, listed, history>>

(* saveGateCache: the whole cache, by rename.  GateOne returns.            *)
Save(c) ==
  /\ phase = "gating" /\ pc[c] = "save"
  /\ disk' = cache
  /\ pc' = [pc EXCEPT ![c] = err[c]]
  /\ UNCHANGED <<process, gate, world, cache, listed, history>>

\* Mutant: perCase returns what it has, whatever failed.
OutcomeIgnoresErrors == [ok |-> TRUE, cases |-> {c \in Cases : pc[c] = "admitted"}]
Outcome ==
  IF \E c \in Cases : pc[c] = "failed"
  THEN [ok |-> FALSE, cases |-> {}]
  ELSE [ok |-> TRUE, cases |-> {c \in Cases : pc[c] = "admitted"}]

Return ==
  /\ phase = "gating" /\ \A c \in Cases : pc[c] \in Ended
  /\ phase' = "down"
  /\ listed' = Outcome
  /\ UNCHANGED <<cancelled, regate, starts, pc, gate, world, stores, history>>

Interrupt ==
  /\ phase = "gating" /\ ~cancelled
  /\ cancelled' = TRUE
  /\ UNCHANGED <<phase, regate, starts, pc, gate, world, stores, listed, history>>

(* The process dies: the verdicts it had not saved are lost.               *)
Crash ==
  /\ phase = "gating"
  /\ phase' = "down"
  /\ cache' = EmptyCache
  /\ Fresh
  /\ listed' = [ok |-> FALSE, cases |-> {}]
  /\ UNCHANGED <<cancelled, regate, starts, world, disk, history>>

(* Between two lives somebody edits (or restores) a case or a check.       *)
EditCase(c) ==
  /\ phase = "down" /\ edits < MaxEdits
  /\ \E v \in Versions \ {dir[c]} : dir' = [dir EXCEPT ![c] = v]
  /\ edits' = edits + 1
  /\ pc' = [pc EXCEPT ![c] = "queued"]
  /\ UNCHANGED <<process, gate, def, stores, listed, history>>

EditCheck(i) ==
  /\ phase = "down" /\ edits < MaxEdits
  /\ def' = [def EXCEPT ![i] = @ + 1]
  /\ edits' = edits + 1
  /\ pc' = [c \in Cases |-> "queued"]
  /\ UNCHANGED <<process, gate, dir, stores, listed, history>>

Gating(c) ==
  \/ GiveUp(c) \/ Resolve(c) \/ ResolveFails(c)
  \/ Reuse(c) \/ ReuseRejection(c) \/ Run(c) \/ AllPassed(c)
  \/ SaysYes(c) \/ SaysNo(c) \/ CannotSay(c) \/ Fix(c) \/ FixFails(c)
  \/ Persist(c) \/ Save(c)

Next ==
  \/ Begin \/ Return \/ Interrupt \/ Crash
  \/ \E c \in Cases : Gating(c) \/ EditCase(c)
  \/ \E i \in StepIds : EditCheck(i)

Spec == Init /\ [][Next]_vars

(* Go schedules every goroutine that can run, and a check or a repair ends *)
(* (by its own timeout at the latest).                                     *)
FairSpec == Spec /\ (\A c \in Cases : WF_vars(Gating(c))) /\ WF_vars(Return)

----------------------------------------------------------------------------
(* Properties.                                                             *)

MaybeVerdict == Verdict \union {NoVerdict}

(* Every variable has the values the code can give it.                     *)
TypeOK ==
  /\ phase \in {"down", "gating"} /\ cancelled \in BOOLEAN /\ regate \in BOOLEAN
  /\ pc \in [Cases -> {"queued"} \union Active \union Ended]
  /\ dir \in [Cases -> Versions] /\ key \in [Cases -> Versions] /\ sha \in [Cases -> Versions]
  /\ unhashed \in [Cases -> BOOLEAN]
  /\ step \in [Cases -> 1 .. Len(Steps) + 1] /\ round \in [Cases -> 0 .. Rounds + 1]
  /\ ran \in [Cases -> BOOLEAN]
  /\ err \in [Cases -> {"none", "no", "admitted", "rejected", "failed"} \union Unanswered]
  /\ verdicts \in [Cases -> [StepIds -> MaybeVerdict]]
  /\ cache \in [Versions -> [StepIds -> MaybeVerdict]]
  /\ disk \in [Versions -> [StepIds -> MaybeVerdict]]
  /\ def \in [StepIds -> Nat]
  /\ listed \in [ok : BOOLEAN, cases : SUBSET Cases]
  /\ edits \in 0 .. MaxEdits /\ starts \in 0 .. MaxStarts
  /\ answers \subseteq StepIds \X Nat \X Versions \X {"yes", "no", "mute"}
  /\ repaired \subseteq Versions /\ fixer \in [Cases -> {0} \union StepIds]

(* A cached verdict was earned: the check it names, in the definition it   *)
(* is filed for, gave that answer on those bytes, or was mute on them,     *)
(* which the code takes for a no.  A warn step passes whatever it answers, *)
(* and also when it was killed before it answered.                         *)
TakenFor(passed) == IF passed THEN {"yes"} ELSE {"no", "mute"}
Heard(i, fp, v, passed) == \E said \in TakenFor(passed) : <<i, fp, v, said>> \in answers
Earned(i, v, d) ==
  Known(d) => Heard(i, d.fp, v, d.passed) \/ (Steps[i].onFailure = "warn" /\ d.passed)

(* For content no repair has touched, every verdict in memory and in       *)
(* gate-cache.json is earned, whatever was interrupted, crashed, edited,   *)
(* regated or gated at the same time under the same hash (GateOne,         *)
(* persistGateVerdicts).                                                   *)
VerdictsAreEarned ==
  \A v \in Versions \ repaired, i \in StepIds : Earned(i, v, cache[v][i]) /\ Earned(i, v, disk[v][i])

(* A case is admitted only when every check that can keep it out has, in   *)
(* its present definition, said yes to the bytes that will be measured,    *)
(* now or when it was cached (GateOne).                                    *)
Judged(c) ==
  \A i \in StepIds : Steps[i].onFailure # "warn" => Heard(i, def[i], dir[c], TRUE)

AdmittedIsJudged ==
  \A c \in Cases : pc[c] = "admitted" /\ dir[c] \notin repaired => Judged(c)

(* A case is rejected only if a check that may reject it has, in its       *)
(* present definition, said no, or been mute, to the bytes the case had or *)
(* to bytes that a repair had to do with: an outage that the check or a    *)
(* probe reports, and an interrupt, in whichever round, reject nobody (the *)
(* incident told in Runner.probe).  A check that could not be started or   *)
(* ran out of time does: only a tempfail is let through (RunList).         *)
RejectionIsAnAnswer ==
  \A c \in Cases : pc[c] = "rejected" =>
    \E i \in StepIds, v \in {key[c]} \union repaired :
      Steps[i].onFailure = "skip" /\ Heard(i, def[i], v, FALSE)

(* The hash that is recorded for an admitted case is the hash of the bytes *)
(* that will be measured, repaired or not (run.go:580); when the repaired  *)
(* directory could not be hashed it is the hash of what the gate began     *)
(* with (run.go:591), and never a third one.                               *)
MeasuredBytesAreHashed ==
  \A c \in Cases : pc[c] = "admitted" => sha[c] = IF unhashed[c] THEN key[c] ELSE dir[c]

(* A repaired case is admitted only if the check that had it repaired last *)
(* has said yes to the bytes as repaired: a repair is always followed by   *)
(* its check (RunList).  A repair of a warn step is followed by one as     *)
(* well, but the case passes whatever it says.                             *)
Rechecked(i, v) == Heard(i, def[i], v, TRUE) \/ Steps[i].onFailure = "warn"
RepairIsRechecked ==
  \A c \in Cases : pc[c] = "admitted" /\ fixer[c] # 0 => Rechecked(fixer[c], dir[c])

(* What gate-cache.json knows of a check and of content no repair has      *)
(* touched is never lost and never replaced by what an older definition of *)
(* the check said, over interrupts, crashes, --regate and failures: a      *)
(* retry runs "only from the failing step on" (GateOne).  Two gates of the *)
(* same content are excepted: the one that did not reach the step files    *)
(* what it had found in the cache at its beginning.                        *)
Twins(v) ==
  \E c, d \in Cases : c # d /\ {key[c], key[d]} = {v} /\ "queued" \notin {pc[c], pc[d]}

FiledVerdictIsKept ==
  [][\A v \in Versions \ repaired, i \in StepIds :
       Known(disk[v][i]) /\ ~Twins(v) => Known(disk'[v][i]) /\ disk'[v][i].fp >= disk[v][i].fp]_vars

(* No case is lost: when perCase returns a list, a case that is not on it  *)
(* was rejected, or the run itself had been cancelled; never because       *)
(* another case's failure stopped the gate (perCase).                      *)
NothingIsLost ==
  phase = "down" /\ listed.ok =>
    \A c \in Cases : pc[c] \in Ended /\ c \notin listed.cases => pc[c] = "rejected" \/ cancelled

(* Every gate comes to an end, whatever fails, is repaired or cancelled.   *)
GateEnds == phase = "gating" ~> phase = "down"

(* README.md:274: "A gate verdict is bound to the case's content hash and  *)
(* a fingerprint of the checks": repaired cases are not excepted.          *)
VerdictBoundToContent == \A c \in Cases : pc[c] = "admitted" => Judged(c)

=============================================================================
