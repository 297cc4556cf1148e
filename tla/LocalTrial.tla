----------------------------- MODULE LocalTrial -----------------------------
(***************************************************************************)
(* `--executor local`: what a trial leaves on disk.  Local.Trial           *)
(* (internal/exec/exec.go) runs the agent and the verifier of a case in a  *)
(* sandbox directory, copies what they left into OUT_DIR on the way out    *)
(* and removes the sandbox; attempts and once (run.go) run it again after  *)
(* a failure that is nobody's, and append writes the row.  Attempts,       *)
(* crashes and later lives all work in the same two directories, so a file *)
(* is stamped "now" (the attempt that is going) or "old" (one before), and *)
(* a reward of now with who wrote it.                                      *)
(* Trials share no file; slots, post steps and the closing of a run are    *)
(* TrialRun's, and the post steps are one outcome here.                    *)
(***************************************************************************)
EXTENDS Integers, FiniteSets

CONSTANTS
  Trials,       \* trial ids, each with its WorkDir
  MaxAttempts,  \* Experiment.MaxAttempts
  MaxFaults,    \* bound: file operations whose error the code ignores
  MaxCrashes,   \* bound: crashes
  MaxStarts     \* bound: lives

ASSUME LocalAssumption ==
  /\ IsFiniteSet(Trials)
  /\ MaxAttempts \in Nat \ {0}
  /\ MaxFaults \in Nat /\ MaxCrashes \in Nat /\ MaxStarts \in Nat

Stamp == {"none", "now", "old"}

(* reward.txt: a number in [0, 1], NaN (which is neither below 0 nor above *)
(* 1, and which JSON cannot carry), or nothing that readReward accepts.    *)
(* The logs are mounted for the agent as for the verifier.                 *)
Value == {"number", "nan"}
Reward(v, by) == [val |-> v, by |-> by]
NoReward == Reward("none", "none")
Author == {"verifier", "agent", "old"}
RewardFile == [val : Value, by : Author] \union {NoReward}

Clean == [reward |-> NoReward, traj |-> "none"]
Sandbox == [reward : RewardFile, traj : Stamp]
Out == [traj : Stamp \union {"empty"}, result : Stamp \union {"empty"}]

(* What an attempt comes to: a measurement, a failure that is retried      *)
(* (HOST_ERROR, VERIFIER_ERROR), or one that is a result of its own.       *)
Measured(r) == [kind |-> "reward", val |-> r.val, by |-> r.by]
Failed(kind) == [kind |-> kind, val |-> "none", by |-> "none"]
Failure == {Failed("retry"), Failed("final")}
Outcome == [kind : {"reward"}, val : Value, by : Author] \union Failure

VARIABLES
  phase,      \* "down" | "running"
  cancelled,
  pc,         \* where each trial's goroutine is
  attempt,    \* n in attempts
  res,        \* what the attempt has come to
  sandbox,    \* WorkDir/root: reward.txt and traj.jsonl
  orphan,     \* a command of a dead process still runs in that sandbox
  out,        \* OUT_DIR: traj.jsonl and result.json
  rows,       \* results.jsonl
  left,       \* history: trials whose sandbox has outlived an attempt
  lost,       \* history: trials that were recorded in memory only
  spoiled,    \* history: trials of which an artifact could not be written
  lives,      \* history: the lives that set out to run each trial
  faults, crashes, starts

vars == <<phase, cancelled, pc, attempt, res, sandbox, orphan, out, rows, left, lost, spoiled,
          lives, faults, crashes, starts>>

process == <<phase, cancelled, crashes, starts>>
files == <<sandbox, orphan, out>>
history == <<left, lost, spoiled, lives>>

NoRow == [kind |-> "none"]
Recorded(t) == rows[t] # NoRow

Init ==
  /\ phase = "down" /\ cancelled = FALSE
  /\ pc = [t \in Trials |-> "none"]
  /\ attempt = [t \in Trials |-> 0]
  /\ res = [t \in Trials |-> Failed("retry")]
  /\ sandbox = [t \in Trials |-> Clean]
  /\ orphan = [t \in Trials |-> FALSE]
  /\ out = [t \in Trials |-> [traj |-> "none", result |-> "none"]]
  /\ rows = [t \in Trials |-> NoRow]
  /\ left = {} /\ lost = {} /\ spoiled = {} /\ lives = [t \in Trials |-> 0]
  /\ faults = 0 /\ crashes = 0 /\ starts = 0

Go(t, where) == pc' = [pc EXCEPT ![t] = where]
At(t, where) == phase = "running" /\ pc[t] = where

----------------------------------------------------------------------------
(* A life runs every trial that has no row; the goroutine looks at the     *)
(* context once, before it begins.                                         *)
Start ==
  /\ phase = "down" /\ starts < MaxStarts
  /\ phase' = "running" /\ cancelled' = FALSE
  /\ starts' = starts + 1
  /\ pc' = [t \in Trials |-> IF Recorded(t) THEN "done" ELSE "spawned"]
  /\ UNCHANGED <<attempt, res, files, rows, history, faults, crashes>>

NewAttempt(t, n) == attempt' = [attempt EXCEPT ![t] = n] /\ Go(t, "prepare")

Begin(t) ==
  /\ At(t, "spawned")
  /\ \/ cancelled /\ Go(t, "done") /\ UNCHANGED <<attempt, lives>>
     \/ /\ ~cancelled /\ NewAttempt(t, 1)
        /\ lives' = [lives EXCEPT ![t] = @ + 1]
  /\ UNCHANGED <<process, res, files, rows, left, lost, spoiled, faults>>

\* Mutant: the row keeps the 1 that once starts from.
EndAttemptUncounted(t, r) ==
  /\ res' = [res EXCEPT ![t] = r]
  /\ Go(t, IF r.kind = "retry" /\ attempt[t] < MaxAttempts /\ ~cancelled THEN "prepare" ELSE "post")
  /\ UNCHANGED attempt
(* attempts: again, after a failure that could go better a second time.    *)
EndAttempt(t, r) ==
  /\ res' = [res EXCEPT ![t] = r]
  /\ IF r.kind = "retry" /\ attempt[t] < MaxAttempts /\ ~cancelled
     THEN NewAttempt(t, attempt[t] + 1)
     ELSE Go(t, "post") /\ UNCHANGED attempt

(* once: the key of the model cannot be had, and Trial is never called.    *)
ResolveFails(t) ==
  /\ At(t, "prepare")
  /\ \E f \in Failure : EndAttempt(t, f)
  /\ UNCHANGED <<process, files, rows, history, faults>>

----------------------------------------------------------------------------
(* Local.Trial.  prepare makes the directories that are missing: what an   *)
(* earlier life left in the sandbox stays, and what was of this attempt is *)
(* of an earlier one.  When it fails nothing is collected.                 *)
Age(s) == IF s \in {"now", "verifier", "agent"} THEN "old" ELSE s
Aged(s) == [reward |-> Reward(s.reward.val, Age(s.reward.by)), traj |-> Age(s.traj)]

Prepare(t) ==
  /\ At(t, "prepare")
  /\ sandbox' = [sandbox EXCEPT ![t] = Aged(@)]
  /\ out' = [out EXCEPT ![t] = [traj |-> Age(@.traj), result |-> Age(@.result)]]
  /\ \/ Go(t, "agent") /\ UNCHANGED res
     \/ Go(t, "cleanup") /\ \E f \in Failure : res' = [res EXCEPT ![t] = f]
  /\ UNCHANGED <<process, attempt, orphan, rows, history, faults>>

(* runAgent: no script or no command (ENV_FAILED), a shell that could not  *)
(* run, was killed by the context or ran out of time, an exit status, or   *)
(* nothing to do.  A trajectory may have been written in any case, and so  *)
(* may logs/verifier/reward.txt.                                           *)
Agent(t) ==
  /\ At(t, "agent")
  /\ \E r \in {sandbox[t].reward, NoReward} \union [val : Value, by : {"agent"}],
        j \in {sandbox[t].traj, "now"} :
       sandbox' = [sandbox EXCEPT ![t] = [reward |-> r, traj |-> j]]
  /\ \/ Go(t, "verify") /\ UNCHANGED res
     \/ Go(t, "collect") /\ \E f \in Failure : res' = [res EXCEPT ![t] = f]
  /\ UNCHANGED <<process, attempt, orphan, out, rows, history, faults>>

(* runVerifier: the script may write reward.txt, or remove it, or leave    *)
(* it; a child that the agent left running may still write it.  What is    *)
(* there counts if the shell came back with the context alive, whatever    *)
(* the exit status.                                                        *)
ScoreOf(r) == IF r = NoReward THEN Failed("retry") ELSE Measured(r)

Verify(t) ==
  /\ At(t, "verify")
  /\ \E r \in {sandbox[t].reward, NoReward} \union [val : Value, by : {"verifier", "agent"}] :
       /\ sandbox' = [sandbox EXCEPT ![t].reward = r]
       /\ \/ ~cancelled /\ res' = [res EXCEPT ![t] = ScoreOf(r)]
          \/ res' = [res EXCEPT ![t] = Failed("retry")]
  /\ Go(t, "collect")
  /\ UNCHANGED <<process, attempt, orphan, out, rows, history, faults>>

(* An artifact cannot be written, or not to its end; nobody is told.       *)
Spoil(t) == faults < MaxFaults /\ faults' = faults + 1 /\ spoiled' = spoiled \union {t}

(* collect: copy the trajectory if there is one; leave an empty file only  *)
(* if OUT_DIR has none.                                                    *)
Collected(have, new) ==
  CASE new # "none" -> new
    [] new = "none" /\ have = "none" -> "empty"
    [] OTHER -> have

Collect(t) ==
  /\ At(t, "collect")
  /\ \/ /\ out' = [out EXCEPT ![t].traj = Collected(@, sandbox[t].traj)]
        /\ UNCHANGED <<spoiled, faults>>
     \/ Spoil(t) /\ \E f \in {out[t].traj, "empty"} : out' = [out EXCEPT ![t].traj = f]
  /\ Go(t, "cleanup")
  /\ UNCHANGED <<process, attempt, res, sandbox, orphan, rows, left, lost, lives>>

\* Mutant: the sandbox of a failed attempt is kept for whoever debugs it.
RemoveSandboxIfMeasured(t) ==
  /\ sandbox' = [sandbox EXCEPT ![t] = IF res[t].kind = "reward" THEN Clean ELSE @]
  /\ orphan' = [orphan EXCEPT ![t] = FALSE]
  /\ UNCHANGED <<left, faults>>
(* cleanup: the sandbox goes, and with it the directories that an orphan   *)
(* has mounted; an error of RemoveAll is ignored.                          *)
RemoveSandbox(t) ==
  \/ /\ sandbox' = [sandbox EXCEPT ![t] = Clean]
     /\ orphan' = [orphan EXCEPT ![t] = FALSE]
     /\ UNCHANGED <<left, faults>>
  \/ /\ faults < MaxFaults
     /\ faults' = faults + 1
     /\ left' = left \union {t}
     /\ UNCHANGED <<sandbox, orphan>>

(* Trial returns.                                                          *)
Cleanup(t) ==
  /\ At(t, "cleanup")
  /\ RemoveSandbox(t)
  /\ IF res[t].kind = "reward"
     THEN Go(t, "file") /\ UNCHANGED <<attempt, res>>
     ELSE EndAttempt(t, res[t])
  /\ UNCHANGED <<process, out, rows, lost, spoiled, lives>>

(* once writes result.json for a measurement (NaN cannot be encoded and    *)
(* leaves an empty file).                                                  *)
WriteResult(t) ==
  /\ At(t, "file")
  /\ \/ /\ out' = [out EXCEPT ![t].result = IF res[t].val = "nan" THEN "empty" ELSE "now"]
        /\ UNCHANGED <<spoiled, faults>>
     \/ Spoil(t) /\ \E f \in {out[t].result, "empty"} : out' = [out EXCEPT ![t].result = f]
  /\ Go(t, "post")
  /\ UNCHANGED <<process, attempt, res, sandbox, orphan, rows, left, lost, lives>>

----------------------------------------------------------------------------
(* execTrial: the post steps leave the result, or turn a measurement into  *)
(* a failure of ours.                                                      *)
Post(t) ==
  /\ At(t, "post")
  /\ \/ UNCHANGED res
     \/ res[t].kind = "reward" /\ res' = [res EXCEPT ![t] = Failed("retry")]
  /\ Go(t, "append")
  /\ UNCHANGED <<process, attempt, files, rows, history, faults>>

RowOf(t) ==
  [kind |-> res[t].kind, by |-> res[t].by, attempts |-> attempt[t],
   traj |-> out[t].traj, result |-> out[t].result]

Forget(S) ==
  /\ attempt' = [t \in Trials |-> IF t \in S THEN 0 ELSE attempt[t]]
  /\ res' = [t \in Trials |-> IF t \in S THEN Failed("retry") ELSE res[t]]

\* Mutant: an interrupted trial is simply not recorded (watch.go:302).
AppendRowUninterrupted(t) ==
  /\ At(t, "append")
  /\ rows' = [rows EXCEPT ![t] = IF cancelled \/ res[t].val = "nan" THEN @ ELSE RowOf(t)]
  /\ lost' = IF res[t].val = "nan" THEN lost \union {t} ELSE lost
  /\ Go(t, "done") /\ Forget({t})
  /\ UNCHANGED <<process, files, left, spoiled, lives, faults>>
(* append: the trial is done for this life, whatever happens; a row with   *)
(* NaN has no JSON and leaves an empty line, an error of open or write is  *)
(* ignored.                                                                *)
AppendRow(t) ==
  /\ At(t, "append")
  /\ \/ res[t].val # "nan" /\ rows' = [rows EXCEPT ![t] = RowOf(t)] /\ UNCHANGED <<lost, faults>>
     \/ res[t].val = "nan" /\ lost' = lost \union {t} /\ UNCHANGED <<rows, faults>>
     \/ /\ faults < MaxFaults
        /\ faults' = faults + 1 /\ lost' = lost \union {t}
        /\ UNCHANGED rows
  /\ Go(t, "done") /\ Forget({t})
  /\ UNCHANGED <<process, files, left, spoiled, lives>>

AllDone ==
  /\ phase = "running" /\ \A t \in Trials : pc[t] = "done"
  /\ phase' = "down"
  /\ UNCHANGED <<cancelled, crashes, starts, pc, attempt, res, files, rows, history, faults>>

Interrupt ==
  /\ phase = "running" /\ ~cancelled
  /\ cancelled' = TRUE
  /\ UNCHANGED <<phase, crashes, starts, pc, attempt, res, files, rows, history, faults>>

(* The process dies.  Its commands are process groups of their own and may *)
(* go on in their sandboxes.                                               *)
InSandbox == {t \in Trials : pc[t] \in {"agent", "verify", "collect", "cleanup"}}
Commanding == {t \in Trials : pc[t] \in {"agent", "verify"}}

Crash ==
  /\ phase = "running" /\ crashes < MaxCrashes
  /\ crashes' = crashes + 1
  /\ phase' = "down"
  /\ left' = left \union InSandbox
  /\ orphan' = [t \in Trials |-> orphan[t] \/ t \in Commanding]
  /\ pc' = [t \in Trials |-> "done"] /\ Forget(Trials)
  /\ UNCHANGED <<cancelled, starts, sandbox, out, rows, lost, spoiled, lives, faults>>

(* A command that outlived its process writes, or ends.                    *)
OrphanWrites(t) ==
  /\ orphan[t]
  /\ \E r \in {sandbox[t].reward} \union [val : Value, by : {"old"}], j \in {sandbox[t].traj, "old"} :
       sandbox' = [sandbox EXCEPT ![t] = [reward |-> r, traj |-> j]]
  /\ UNCHANGED <<process, pc, attempt, res, orphan, out, rows, history, faults>>

OrphanEnds(t) ==
  /\ orphan[t]
  /\ orphan' = [orphan EXCEPT ![t] = FALSE]
  /\ UNCHANGED <<process, pc, attempt, res, sandbox, out, rows, history, faults>>

Trial(t) ==
  \/ Begin(t) \/ ResolveFails(t) \/ Prepare(t) \/ Agent(t) \/ Verify(t)
  \/ Collect(t) \/ Cleanup(t) \/ WriteResult(t) \/ Post(t) \/ AppendRow(t)

Next ==
  \/ Start \/ AllDone \/ Interrupt \/ Crash
  \/ \E t \in Trials : Trial(t) \/ OrphanWrites(t) \/ OrphanEnds(t)

Spec == Init /\ [][Next]_vars

----------------------------------------------------------------------------
(* Properties.                                                             *)

Row == [kind : {"reward", "retry", "final"}, by : Author \union {"none"}, attempts : 1 .. MaxAttempts,
        traj : Stamp \union {"empty"}, result : Stamp \union {"empty"}]

PC == {"none", "spawned", "prepare", "agent", "verify", "collect", "cleanup", "file", "post",
       "append", "done"}

(* Each variable has the values the code can give it.                      *)
TypeOK ==
  /\ phase \in {"down", "running"} /\ cancelled \in BOOLEAN
  /\ pc \in [Trials -> PC]
  /\ attempt \in [Trials -> 0 .. MaxAttempts]
  /\ res \in [Trials -> Outcome]
  /\ sandbox \in [Trials -> Sandbox] /\ orphan \in [Trials -> BOOLEAN]
  /\ out \in [Trials -> Out]
  /\ rows \in [Trials -> Row \union {NoRow}]
  /\ left \subseteq Trials /\ lost \subseteq Trials /\ spoiled \subseteq Trials
  /\ lives \in [Trials -> Nat]
  /\ faults \in 0 .. MaxFaults /\ crashes \in 0 .. MaxCrashes /\ starts \in 0 .. MaxStarts

(* The number in a row was written in that very attempt, by its verifier   *)
(* or, where the verifier left the file alone, by its agent: a reward.txt  *)
(* of an earlier attempt, of a life that died or of a command that         *)
(* outlived it is scored only if a sandbox was left behind, by a crash or  *)
(* by a cleanup that failed (prepare does not clear it, and runVerifier    *)
(* asks neither for the exit status nor for the file's age).               *)
RewardIsEarned ==
  \A t \in Trials : Recorded(t) /\ rows[t].kind = "reward" /\ rows[t].by = "old" => t \in left

(* Beside a recorded reward lie its result.json and the trajectory of the  *)
(* same attempt, or an empty one; another attempt's trajectory lies there  *)
(* only if the row says that there was one, or an earlier life ran the     *)
(* trial (collect keeps what OUT_DIR has when the agent wrote none).  A    *)
(* trial of which an artifact could not be written is left out.            *)
ArtifactsAreOfTheAttempt ==
  \A t \in Trials \ spoiled : Recorded(t) /\ rows[t].kind = "reward" =>
    /\ rows[t].result = "now" /\ rows[t].traj # "none"
    /\ rows[t].traj = "old" => rows[t].attempts > 1 \/ lives[t] > 1

(* A trial that a life has begun is not begun by a later one, unless a     *)
(* crash lost it, or append lost its row without a word: an interrupt ends *)
(* every attempt but lets every begun trial be recorded (runAll, attempts, *)
(* append).                                                                *)
SecondLifeIsForALoss ==
  \A t \in Trials : lives[t] > 1 => t \in lost \/ crashes > 0
============================================================================
