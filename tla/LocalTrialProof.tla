--------------------------- MODULE LocalTrialProof ---------------------------
(***************************************************************************)
(* Theorems about the files of LocalTrial, for every set of trials and     *)
(* every number of attempts, lives, crashes and ignored errors.            *)
(***************************************************************************)
EXTENDS LocalTrial, TLAPS

Busy == {"prepare", "agent", "verify", "collect", "cleanup", "file", "post", "append"}

(* A trial that is being run is in some attempt, the first one at least.   *)
Counted == \A t \in Trials : pc[t] \in Busy => attempt[t] >= 1

Typed == TypeOK /\ Counted

----------------------------------------------------------------------------
(* Typing, one lemma per action that is more than a step of pc.            *)

(* What each conjunct of Typed comes to, with its shorthands expanded.     *)
LEMMA ResultTypes ==
  /\ \A f \in Failure : f \in Outcome /\ f.kind # "reward" /\ f.by = "none" /\ f.val = "none"
  /\ Failed("retry") \in Failure
  /\ \A r \in RewardFile : ScoreOf(r) \in Outcome
  /\ \A r \in RewardFile : ScoreOf(r).by = r.by
  /\ Clean \in Sandbox /\ Clean.reward = NoReward /\ Clean.traj = "none"
  /\ NoReward \in RewardFile /\ NoReward.by = "none"
  /\ \A r \in RewardFile : r.by = "none" <=> r = NoReward
<1>1. \A f \in Failure : f \in Outcome
  BY DEF Outcome
<1>2. \A f \in Failure : f.kind # "reward" /\ f.by = "none" /\ f.val = "none"
  BY DEF Failure, Failed
<1>3. Failed("retry") \in Failure
  BY DEF Failure
<1>4. NoReward \in RewardFile /\ NoReward.by = "none"
  BY DEF RewardFile, NoReward, Reward, Author
<1>5. \A r \in RewardFile : r.by = "none" <=> r = NoReward
  BY DEF RewardFile, NoReward, Reward, Author
<1>6. Clean \in Sandbox /\ Clean.reward = NoReward /\ Clean.traj = "none"
  BY <1>4 DEF Clean, Sandbox, Stamp
<1>7. \A r \in RewardFile : ScoreOf(r) \in Outcome /\ ScoreOf(r).by = r.by
  <2>1. SUFFICES ASSUME NEW r \in RewardFile PROVE ScoreOf(r) \in Outcome /\ ScoreOf(r).by = r.by
    OBVIOUS
  <2>2. CASE r = NoReward
    BY <1>1, <1>2, <1>3, <1>4, <2>2 DEF ScoreOf
  <2>3. CASE r # NoReward
    BY <2>3 DEF ScoreOf, Measured, Outcome, RewardFile, Author
  <2>4. QED
    BY <2>2, <2>3
<1>8. QED
  BY <1>1, <1>2, <1>3, <1>4, <1>5, <1>6, <1>7

LEMMA InitTyped == Init => Typed
<1>1. SUFFICES ASSUME Init PROVE Typed
  OBVIOUS
<1>2. res \in [Trials -> Outcome] /\ sandbox \in [Trials -> Sandbox]
  BY <1>1, ResultTypes DEF Init
<1>3. [traj |-> "none", result |-> "none"] \in Out
  BY DEF Out, Stamp
<1>4. out \in [Trials -> Out] /\ rows \in [Trials -> Row \union {NoRow}]
  BY <1>1, <1>3 DEF Init
<1>5. pc \in [Trials -> PC] /\ attempt \in [Trials -> 0 .. MaxAttempts] /\ Counted
  BY <1>1, LocalAssumption DEF Init, PC, Counted, Busy
<1>6. orphan \in [Trials -> BOOLEAN] /\ lives \in [Trials -> Nat]
  BY <1>1 DEF Init
<1>7. /\ phase \in {"down", "running"} /\ cancelled \in BOOLEAN
      /\ left \subseteq Trials /\ lost \subseteq Trials /\ spoiled \subseteq Trials
  BY <1>1 DEF Init
<1>8. faults \in 0 .. MaxFaults /\ crashes \in 0 .. MaxCrashes /\ starts \in 0 .. MaxStarts
  BY <1>1, LocalAssumption DEF Init
<1>9. QED
  BY <1>2, <1>4, <1>5, <1>6, <1>7, <1>8 DEF Typed, TypeOK

LEMMA EndAttemptTyped ==
  ASSUME Typed, NEW t \in Trials, pc[t] \in Busy, NEW r \in Outcome, EndAttempt(t, r)
  PROVE  /\ res' \in [Trials -> Outcome]
         /\ attempt' \in [Trials -> 0 .. MaxAttempts] /\ pc' \in [Trials -> PC]
         /\ Counted'
BY LocalAssumption DEF EndAttempt, NewAttempt, Go, Typed, TypeOK, Counted, PC, Busy

LEMMA StartTyped == ASSUME Typed, Start PROVE Typed'
<1>1. pc' \in [Trials -> PC] /\ \A t \in Trials : pc'[t] \notin Busy
  BY DEF Start, PC, Busy
<1>2. starts' \in 0 .. MaxStarts
  BY LocalAssumption DEF Start, Typed, TypeOK
<1>3. QED
  BY <1>1, <1>2 DEF Start, Typed, TypeOK, Counted, files, history

LEMMA BeginTyped == ASSUME Typed, NEW t \in Trials, Begin(t) PROVE Typed'
<1>1. pc' \in [Trials -> PC] /\ attempt' \in [Trials -> 0 .. MaxAttempts]
  BY LocalAssumption DEF Begin, At, Go, NewAttempt, Typed, TypeOK, PC
<1>2. lives' \in [Trials -> Nat]
  BY DEF Begin, Typed, TypeOK
<1>3. Counted'
  BY LocalAssumption DEF Begin, At, Go, NewAttempt, Typed, TypeOK, Counted, PC, Busy
<1>4. QED
  BY <1>1, <1>2, <1>3 DEF Begin, Typed, TypeOK, process, files

LEMMA ResolveTyped == ASSUME Typed, NEW t \in Trials, ResolveFails(t) PROVE Typed'
<1>1. PICK f \in Failure : EndAttempt(t, f)
  BY DEF ResolveFails
<1>2. pc[t] \in Busy /\ f \in Outcome
  BY ResultTypes DEF ResolveFails, At, Busy
<1>3. QED
  BY <1>1, <1>2, EndAttemptTyped DEF ResolveFails, Typed, TypeOK, process, files, history

LEMMA PrepareTyped == ASSUME Typed, NEW t \in Trials, Prepare(t) PROVE Typed'
<1>1. sandbox' \in [Trials -> Sandbox]
  <2>1. sandbox[t] \in Sandbox
    BY DEF Typed, TypeOK
  <2>2. Aged(sandbox[t]) \in Sandbox
    BY <2>1 DEF Aged, Age, Sandbox, RewardFile, Author, Stamp, NoReward, Reward, Value
  <2>3. QED
    BY <2>2 DEF Prepare, Typed, TypeOK
<1>2. out' \in [Trials -> Out]
  BY DEF Prepare, Typed, TypeOK, Out, Stamp, Age
<1>3. res' \in [Trials -> Outcome]
  BY ResultTypes DEF Prepare, Typed, TypeOK
<1>4. pc' \in [Trials -> PC] /\ Counted'
  BY DEF Prepare, At, Go, Typed, TypeOK, Counted, PC, Busy
<1>5. QED
  BY <1>1, <1>2, <1>3, <1>4 DEF Prepare, Typed, TypeOK, process, history

LEMMA AgentTyped == ASSUME Typed, NEW t \in Trials, Agent(t) PROVE Typed'
<1>1. sandbox' \in [Trials -> Sandbox]
  <2>1. PICK r \in {sandbox[t].reward, NoReward} \union [val : Value, by : {"agent"}],
             j \in {sandbox[t].traj, "now"} :
          sandbox' = [sandbox EXCEPT ![t] = [reward |-> r, traj |-> j]]
    BY DEF Agent
  <2>2. r \in RewardFile /\ j \in Stamp
    BY ResultTypes DEF Typed, TypeOK, Sandbox, RewardFile, Author, Stamp
  <2>3. QED
    BY <2>1, <2>2 DEF Typed, TypeOK, Sandbox
<1>2. res' \in [Trials -> Outcome]
  BY ResultTypes DEF Agent, Typed, TypeOK
<1>3. pc' \in [Trials -> PC] /\ Counted'
  BY DEF Agent, At, Go, Typed, TypeOK, Counted, PC, Busy
<1>4. QED
  BY <1>1, <1>2, <1>3 DEF Agent, Typed, TypeOK, process, history

(* What the verifier may leave in reward.txt.                              *)
LEMMA VerifyTyped == ASSUME Typed, NEW t \in Trials, Verify(t) PROVE Typed'
<1>1. PICK r \in {sandbox[t].reward, NoReward} \union [val : Value, by : {"verifier", "agent"}] :
        /\ sandbox' = [sandbox EXCEPT ![t].reward = r]
        /\ res' = [res EXCEPT ![t] = ScoreOf(r)] \/ res' = [res EXCEPT ![t] = Failed("retry")]
  BY DEF Verify
<1>2. r \in RewardFile
  BY ResultTypes DEF Typed, TypeOK, Sandbox, RewardFile, Author
<1>3. sandbox' \in [Trials -> Sandbox]
  BY <1>1, <1>2 DEF Typed, TypeOK, Sandbox
<1>4. res' \in [Trials -> Outcome]
  BY <1>1, <1>2, ResultTypes DEF Typed, TypeOK
<1>5. pc' \in [Trials -> PC] /\ Counted'
  BY DEF Verify, At, Go, Typed, TypeOK, Counted, PC, Busy
<1>6. QED
  BY <1>3, <1>4, <1>5 DEF Verify, Typed, TypeOK, process, history

LEMMA SpoilTyped ==
  ASSUME Typed, NEW t \in Trials, Spoil(t)
  PROVE  spoiled' \subseteq Trials /\ faults' \in 0 .. MaxFaults
BY LocalAssumption DEF Spoil, Typed, TypeOK

(* What collect and writeResultJSON leave in OUT_DIR.                      *)
LEMMA Collecting ==
  ASSUME Typed, NEW t \in Trials, Collect(t)
  PROVE  /\ out' \in [Trials -> Out] /\ out'[t].result = out[t].result
         /\ out'[t].traj = "old" => out[t].traj = "old" \/ sandbox[t].traj = "old"
         /\ t \notin spoiled' => out'[t].traj # "none"
<1>1. out[t] \in Out /\ sandbox[t] \in Sandbox
  BY DEF Typed, TypeOK
<1>2. CASE out' = [out EXCEPT ![t].traj = Collected(@, sandbox[t].traj)]
  <2>1. out'[t] = [out[t] EXCEPT !.traj = Collected(@, sandbox[t].traj)]
    BY <1>2 DEF Typed, TypeOK
  <2>2. Collected(out[t].traj, sandbox[t].traj) \in (Stamp \union {"empty"}) \ {"none"}
    BY <1>1 DEF Collected, Out, Sandbox, Stamp
  <2>3. out'[t] \in Out /\ out'[t].result = out[t].result /\ out'[t].traj # "none"
    BY <1>1, <2>1, <2>2 DEF Out
  <2>4. out'[t].traj = Collected(out[t].traj, sandbox[t].traj)
    BY <1>1, <2>1 DEF Out
  <2>5. out'[t].traj = "old" => out[t].traj = "old" \/ sandbox[t].traj = "old"
    BY <1>1, <2>4 DEF Collected, Out, Sandbox, Stamp
  <2>6. out' \in [Trials -> Out]
    BY <1>2, <2>3 DEF Typed, TypeOK
  <2>7. QED
    BY <2>3, <2>5, <2>6
<1>3. ASSUME Spoil(t), NEW f \in {out[t].traj, "empty"}, out' = [out EXCEPT ![t].traj = f]
      PROVE  /\ out' \in [Trials -> Out] /\ out'[t].result = out[t].result
             /\ out'[t].traj = "old" => out[t].traj = "old"
             /\ t \in spoiled'
  <2>1. out'[t] = [out[t] EXCEPT !.traj = f]
    BY <1>3 DEF Typed, TypeOK
  <2>2. out'[t] \in Out /\ out'[t].result = out[t].result /\ out'[t].traj = f
    BY <1>1, <2>1 DEF Out
  <2>3. out' \in [Trials -> Out]
    BY <1>3, <2>2 DEF Typed, TypeOK
  <2>4. QED
    BY <1>3, <2>2, <2>3 DEF Spoil
<1>4. QED
  BY <1>2, <1>3 DEF Collect

LEMMA Writing ==
  ASSUME Typed, NEW t \in Trials, WriteResult(t)
  PROVE  /\ out' \in [Trials -> Out] /\ out'[t].traj = out[t].traj
         /\ t \notin spoiled' /\ res[t].val # "nan" => out'[t].result = "now"
<1>1. out[t] \in Out
  BY DEF Typed, TypeOK
<1>2. PICK f \in Stamp \union {"empty"} :
        /\ out' = [out EXCEPT ![t].result = f]
        /\ t \notin spoiled' /\ res[t].val # "nan" => f = "now"
  BY <1>1 DEF WriteResult, Spoil, Out, Stamp
<1>3. out'[t] = [out[t] EXCEPT !.result = f]
  BY <1>2 DEF Typed, TypeOK
<1>4. out'[t] \in Out /\ out'[t].traj = out[t].traj /\ out'[t].result = f
  BY <1>1, <1>3 DEF Out
<1>5. out' \in [Trials -> Out]
  BY <1>2, <1>4 DEF Typed, TypeOK
<1>6. QED
  BY <1>2, <1>4, <1>5

LEMMA CollectTyped == ASSUME Typed, NEW t \in Trials, Collect(t) PROVE Typed'
<1>1. out' \in [Trials -> Out]
  BY Collecting
<1>2. pc' \in [Trials -> PC] /\ Counted'
  BY DEF Collect, At, Go, Typed, TypeOK, Counted, PC, Busy
<1>3. spoiled' \subseteq Trials /\ faults' \in 0 .. MaxFaults
  BY SpoilTyped DEF Collect, Typed, TypeOK
<1>4. QED
  BY <1>1, <1>2, <1>3 DEF Collect, Typed, TypeOK, process

LEMMA CleanupTyped == ASSUME Typed, NEW t \in Trials, Cleanup(t) PROVE Typed'
<1>1. pc[t] \in Busy /\ res[t] \in Outcome
  BY DEF Cleanup, At, Busy, Typed, TypeOK
<1>2. /\ res' \in [Trials -> Outcome]
      /\ attempt' \in [Trials -> 0 .. MaxAttempts] /\ pc' \in [Trials -> PC]
      /\ Counted'
  <2>1. CASE EndAttempt(t, res[t])
    BY <1>1, <2>1, EndAttemptTyped
  <2>2. CASE Go(t, "file") /\ UNCHANGED <<attempt, res>>
    BY <1>1, <2>2 DEF Go, Typed, TypeOK, Counted, PC, Busy
  <2>3. QED
    BY <2>1, <2>2 DEF Cleanup
<1>3. sandbox' \in [Trials -> Sandbox] /\ orphan' \in [Trials -> BOOLEAN]
  BY ResultTypes DEF Cleanup, RemoveSandbox, Typed, TypeOK
<1>4. left' \subseteq Trials /\ faults' \in 0 .. MaxFaults
  BY LocalAssumption DEF Cleanup, RemoveSandbox, Typed, TypeOK
<1>5. QED
  BY <1>2, <1>3, <1>4 DEF Cleanup, Typed, TypeOK, process

LEMMA WriteTyped == ASSUME Typed, NEW t \in Trials, WriteResult(t) PROVE Typed'
<1>1. out' \in [Trials -> Out]
  BY Writing
<1>2. pc' \in [Trials -> PC] /\ Counted'
  BY DEF WriteResult, At, Go, Typed, TypeOK, Counted, PC, Busy
<1>3. spoiled' \subseteq Trials /\ faults' \in 0 .. MaxFaults
  BY SpoilTyped DEF WriteResult, Typed, TypeOK
<1>4. QED
  BY <1>1, <1>2, <1>3 DEF WriteResult, Typed, TypeOK, process

LEMMA PostTyped == ASSUME Typed, NEW t \in Trials, Post(t) PROVE Typed'
<1>1. res' \in [Trials -> Outcome]
  BY ResultTypes DEF Post, Typed, TypeOK
<1>2. pc' \in [Trials -> PC] /\ Counted'
  BY DEF Post, At, Go, Typed, TypeOK, Counted, PC, Busy
<1>3. QED
  BY <1>1, <1>2 DEF Post, Typed, TypeOK, process, files, history

LEMMA RowTyped ==
  ASSUME Typed, NEW t \in Trials, pc[t] \in Busy
  PROVE  RowOf(t) \in Row /\ RowOf(t) # NoRow
<1>1. res[t] \in Outcome /\ out[t] \in Out /\ attempt[t] \in 1 .. MaxAttempts
  BY LocalAssumption DEF Typed, TypeOK, Counted
<1>2. res[t].kind \in {"reward", "retry", "final"} /\ res[t].by \in Author \union {"none"}
  BY <1>1 DEF Outcome, Failure, Failed
<1>3. RowOf(t) \in Row
  BY <1>1, <1>2 DEF RowOf, Row, Out
<1>4. RowOf(t).kind # NoRow.kind
  BY <1>2 DEF RowOf, NoRow
<1>5. QED
  BY <1>3, <1>4

LEMMA AppendTyped == ASSUME Typed, NEW t \in Trials, AppendRow(t) PROVE Typed'
<1>1. pc[t] \in Busy
  BY DEF AppendRow, At, Busy
<1>2. rows' \in [Trials -> Row \union {NoRow}] /\ lost' \subseteq Trials
  BY <1>1, RowTyped DEF AppendRow, Typed, TypeOK
<1>3. attempt' \in [Trials -> 0 .. MaxAttempts] /\ res' \in [Trials -> Outcome]
  BY LocalAssumption, ResultTypes DEF AppendRow, Forget, Typed, TypeOK
<1>4. pc' \in [Trials -> PC] /\ Counted'
  BY DEF AppendRow, At, Go, Forget, Typed, TypeOK, Counted, PC, Busy
<1>5. faults' \in 0 .. MaxFaults
  BY LocalAssumption DEF AppendRow, Typed, TypeOK
<1>6. QED
  BY <1>2, <1>3, <1>4, <1>5 DEF AppendRow, Typed, TypeOK, process, files

LEMMA CrashTyped == ASSUME Typed, Crash PROVE Typed'
<1>1. attempt' \in [Trials -> 0 .. MaxAttempts] /\ res' \in [Trials -> Outcome]
  BY LocalAssumption, ResultTypes DEF Crash, Forget, Typed, TypeOK
<1>2. pc' \in [Trials -> PC] /\ Counted'
  BY DEF Crash, Typed, TypeOK, Counted, PC, Busy
<1>3. left' \subseteq Trials /\ orphan' \in [Trials -> BOOLEAN]
  BY DEF Crash, InSandbox, Typed, TypeOK
<1>4. crashes' \in 0 .. MaxCrashes
  BY LocalAssumption DEF Crash, Typed, TypeOK
<1>5. QED
  BY <1>1, <1>2, <1>3, <1>4 DEF Crash, Typed, TypeOK

LEMMA OrphanTyped ==
  ASSUME Typed, NEW t \in Trials, OrphanWrites(t) \/ OrphanEnds(t) PROVE Typed'
<1>1. ASSUME OrphanWrites(t) PROVE sandbox' \in [Trials -> Sandbox]
  <2>1. PICK r \in {sandbox[t].reward} \union [val : Value, by : {"old"}],
             j \in {sandbox[t].traj, "old"} :
          sandbox' = [sandbox EXCEPT ![t] = [reward |-> r, traj |-> j]]
    BY <1>1 DEF OrphanWrites
  <2>2. r \in RewardFile /\ j \in Stamp
    BY DEF Typed, TypeOK, Sandbox, RewardFile, Author, Stamp
  <2>3. QED
    BY <2>1, <2>2 DEF Typed, TypeOK, Sandbox
<1>2. sandbox' \in [Trials -> Sandbox]
  BY <1>1 DEF OrphanEnds, Typed, TypeOK
<1>3. QED
  BY <1>2 DEF OrphanWrites, OrphanEnds, Typed, TypeOK, Counted, process, history

LEMMA StepTyped == ASSUME Typed, [Next]_vars PROVE Typed'
<1>1. CASE UNCHANGED vars
  BY <1>1 DEF vars, Typed, TypeOK, Counted
<1>2. CASE AllDone \/ Interrupt
  BY <1>2 DEF AllDone, Interrupt, Typed, TypeOK, Counted, files, history
<1>3. ASSUME NEW t \in Trials, Trial(t) PROVE Typed'
  BY <1>3, BeginTyped, ResolveTyped, PrepareTyped, AgentTyped, VerifyTyped, CollectTyped,
     CleanupTyped, WriteTyped, PostTyped, AppendTyped DEF Trial
<1>4. QED
  BY <1>1, <1>2, <1>3, StartTyped, CrashTyped, OrphanTyped DEF Next

(* TypeOK: every variable has the values the code can give it; attempts    *)
(* are from 1 to MaxAttempts while a trial is being run.                   *)
THEOREM Typing == Spec => []TypeOK
<1>1. Typed => TypeOK
  BY DEF Typed
<1>2. QED
  BY <1>1, InitTyped, StepTyped, PTL DEF Spec

----------------------------------------------------------------------------
(* What holds of a trial between any two steps.                            *)

(* As long as its sandbox has never outlived an attempt, no command of a   *)
(* dead life runs in it, and a reward is there, of this attempt, only from *)
(* the agent to the cleanup.                                               *)
Fresh(t) ==
  t \notin left =>
    /\ ~orphan[t]
    /\ sandbox[t].reward.by # "old" /\ res[t].by # "old"
    /\ sandbox[t].reward # NoReward => pc[t] \in {"verify", "collect", "cleanup"}

Earned(t) == rows[t] # NoRow /\ rows[t].by = "old" => t \in left

(* Before the first life has begun it there is nothing of the trial; in    *)
(* the first attempt of the first life there is nothing older.             *)
Untouched(t) ==
  lives[t] = 0 =>
    ~orphan[t] /\ sandbox[t].traj = "none" /\ out[t].traj = "none" /\ pc[t] \notin Busy

FirstAttempt(t) ==
  pc[t] \in Busy /\ lives[t] <= 1 /\ attempt[t] <= 1 =>
    /\ ~orphan[t] /\ sandbox[t].traj # "old" /\ out[t].traj # "old"
    /\ pc[t] = "prepare" => sandbox[t].traj = "none" /\ out[t].traj = "none"

(* Once Trial has returned a measurement, its files are in OUT_DIR, unless *)
(* one could not be written.                                               *)
Filed(t) ==
  t \notin spoiled =>
    /\ pc[t] \in {"cleanup", "file", "post", "append"} /\ res[t].kind = "reward" =>
         out[t].traj # "none"
    /\ pc[t] \in {"post", "append"} /\ res[t].kind = "reward" /\ res[t].val # "nan" =>
         out[t].result = "now"

Beside(t) ==
  t \notin spoiled /\ rows[t] # NoRow /\ rows[t].kind = "reward" =>
    /\ rows[t].result = "now" /\ rows[t].traj # "none"
    /\ rows[t].traj = "old" => rows[t].attempts > 1 \/ lives[t] > 1

(* Without a crash and with its row not lost, a trial that a life began is *)
(* being run by it or recorded.                                            *)
OneLife(t) ==
  /\ crashes = 0 /\ t \notin lost =>
       lives[t] <= 1 /\ (lives[t] = 1 => pc[t] \in Busy \/ rows[t] # NoRow)
  /\ pc[t] = "spawned" => rows[t] = NoRow
  /\ phase = "down" => pc[t] \in {"none", "done"}

Sound(t) ==
  /\ Fresh(t) /\ Earned(t)
  /\ Untouched(t) /\ FirstAttempt(t)
  /\ Filed(t) /\ Beside(t)
  /\ OneLife(t)

Inv == Typed /\ \A t \in Trials : Sound(t)

LEMMA InitSound == Init => \A t \in Trials : Sound(t)
BY ResultTypes
DEF Init, Sound, Fresh, Earned, Untouched, FirstAttempt, Filed, Beside, OneLife, Busy, Failed, NoRow

(* A step of another trial leaves this one as it was.                      *)
LEMMA Frame ==
  ASSUME NEW t \in Trials, Sound(t), crashes \in Nat, crashes' \in Nat,
         UNCHANGED <<pc[t], attempt[t], res[t], sandbox[t], orphan[t], out[t], rows[t], lives[t]>>,
         UNCHANGED phase, left \subseteq left', lost \subseteq lost', spoiled \subseteq spoiled',
         crashes' = 0 => crashes = 0
  PROVE  Sound(t)'
BY DEF Sound, Fresh, Earned, Untouched, FirstAttempt, Filed, Beside, OneLife

LEMMA OtherSound ==
  ASSUME Inv, NEW s \in Trials, Trial(s) \/ OrphanWrites(s) \/ OrphanEnds(s),
         NEW t \in Trials, t # s
  PROVE  Sound(t)'
<1>1. UNCHANGED <<pc[t], attempt[t], res[t], sandbox[t], orphan[t], out[t], rows[t], lives[t]>>
  BY DEF Trial, Begin, ResolveFails, Prepare, Agent, Verify, Collect, Cleanup, WriteResult, Post,
         AppendRow, OrphanWrites, OrphanEnds, EndAttempt, NewAttempt, RemoveSandbox, Forget, Go,
         process, files, history, Inv, Typed, TypeOK
<1>2. /\ UNCHANGED <<phase, crashes>> /\ left \subseteq left' /\ lost \subseteq lost'
      /\ spoiled \subseteq spoiled'
  BY DEF Trial, Begin, ResolveFails, Prepare, Agent, Verify, Collect, Cleanup, WriteResult, Post,
         AppendRow, OrphanWrites, OrphanEnds, RemoveSandbox, Spoil, process, history
<1>3. QED
  BY <1>1, <1>2, Frame DEF Inv, Typed, TypeOK

LEMMA BeginSound == ASSUME Inv, NEW t \in Trials, Begin(t) PROVE Sound(t)'
<1>1. Fresh(t)' /\ Earned(t)'
  BY DEF Inv, Sound, Fresh, Earned, Begin, At, NewAttempt, Go, files, Typed, TypeOK
<1>2. Untouched(t)' /\ FirstAttempt(t)'
  BY DEF Inv, Sound, Untouched, FirstAttempt, Begin, At, NewAttempt, Go, files, Busy, Typed,
         TypeOK
<1>3. Filed(t)' /\ Beside(t)'
  BY DEF Inv, Sound, Filed, Beside, Begin, At, NewAttempt, Go, files, Typed, TypeOK
<1>4. OneLife(t)'
  BY DEF Inv, Sound, OneLife, Begin, At, NewAttempt, Go, process, Busy, Typed, TypeOK
<1>5. QED
  BY <1>1, <1>2, <1>3, <1>4 DEF Sound

LEMMA ResolveSound == ASSUME Inv, NEW t \in Trials, ResolveFails(t) PROVE Sound(t)'
<1>1. Fresh(t)' /\ Earned(t)'
  BY ResultTypes DEF Inv, Sound, Fresh, Earned, ResolveFails, EndAttempt, NewAttempt, files,
                     At, Go, process, history, Typed, TypeOK
<1>2. Untouched(t)' /\ FirstAttempt(t)'
  BY ResultTypes DEF Inv, Sound, Untouched, FirstAttempt, ResolveFails, EndAttempt, NewAttempt,
                     files, At, Go, process, history, Busy, Typed, TypeOK, Counted
<1>3. Filed(t)' /\ Beside(t)'
  BY ResultTypes DEF Inv, Sound, Filed, Beside, ResolveFails, EndAttempt, NewAttempt, files,
                     At, Go, process, history, Typed, TypeOK
<1>4. OneLife(t)'
  BY ResultTypes DEF Inv, Sound, OneLife, ResolveFails, EndAttempt, NewAttempt, files, At, Go,
                     process, history, Busy, Typed, TypeOK
<1>5. QED
  BY <1>1, <1>2, <1>3, <1>4 DEF Sound

LEMMA PrepareSound == ASSUME Inv, NEW t \in Trials, Prepare(t) PROVE Sound(t)'
<1>1. Fresh(t)' /\ Earned(t)'
  <2>1. Earned(t)' /\ left' = left /\ orphan' = orphan
    BY DEF Inv, Sound, Earned, Prepare, history
  <2>2. res'[t].by # "old" \/ res'[t] = res[t]
    BY ResultTypes DEF Prepare, Inv, Typed, TypeOK
  <2>3. ASSUME t \notin left PROVE sandbox'[t].reward = NoReward
    <3>1. sandbox[t].reward = NoReward
      BY <2>3 DEF Inv, Sound, Fresh, Prepare, At
    <3>2. Aged(sandbox[t]).reward = NoReward
      BY <3>1 DEF Aged, Age, NoReward, Reward
    <3>3. QED
      BY <3>2 DEF Prepare, Inv, Typed, TypeOK
  <2>4. QED
    BY <2>1, <2>2, <2>3, ResultTypes DEF Inv, Sound, Fresh
<1>2. Untouched(t)' /\ FirstAttempt(t)'
  BY ResultTypes DEF Inv, Sound, Untouched, FirstAttempt, Prepare, Aged, Age, Reward, At, Go,
                     process, history, Busy, Typed, TypeOK, Counted
<1>3. Filed(t)' /\ Beside(t)'
  BY ResultTypes DEF Inv, Sound, Filed, Beside, Prepare, Aged, Age, Reward, At, Go, process,
                     history, Typed, TypeOK
<1>4. OneLife(t)'
  BY ResultTypes DEF Inv, Sound, OneLife, Prepare, Aged, Age, Reward, At, Go, process, history,
                     Busy, Typed, TypeOK
<1>5. QED
  BY <1>1, <1>2, <1>3, <1>4 DEF Sound

LEMMA AgentSound == ASSUME Inv, NEW t \in Trials, Agent(t) PROVE Sound(t)'
<1>0. PICK r \in {sandbox[t].reward, NoReward} \union [val : Value, by : {"agent"}],
           j \in {sandbox[t].traj, "now"} :
        sandbox' = [sandbox EXCEPT ![t] = [reward |-> r, traj |-> j]]
  BY DEF Agent
<1>1. Fresh(t)' /\ Earned(t)'
  <2>1. r.by # "old" \/ r = sandbox[t].reward
    BY ResultTypes
  <2>2. sandbox'[t].reward = r /\ pc'[t] \in {"verify", "collect"}
    BY <1>0 DEF Agent, Go, Inv, Typed, TypeOK
  <2>3. res'[t].by # "old" \/ res'[t] = res[t]
    BY ResultTypes DEF Agent, Inv, Typed, TypeOK
  <2>4. QED
    BY <2>1, <2>2, <2>3 DEF Inv, Sound, Fresh, Earned, Agent, history
<1>2. Untouched(t)' /\ FirstAttempt(t)'
  <2>1. sandbox'[t].traj = j
    BY <1>0 DEF Inv, Typed, TypeOK
  <2>2. QED
    BY <2>1 DEF Inv, Sound, Untouched, FirstAttempt, Agent, At, Go, process, history,
                     Busy, Typed, TypeOK, Counted
<1>3. Filed(t)' /\ Beside(t)'
  BY ResultTypes DEF Inv, Sound, Filed, Beside, Agent, At, Go, process, history, Typed, TypeOK
<1>4. OneLife(t)'
  BY ResultTypes DEF Inv, Sound, OneLife, Agent, At, Go, process, history, Busy, Typed, TypeOK
<1>5. QED
  BY <1>1, <1>2, <1>3, <1>4 DEF Sound

LEMMA VerifySound == ASSUME Inv, NEW t \in Trials, Verify(t) PROVE Sound(t)'
<1>1. Fresh(t)' /\ Earned(t)'
  <2>1. PICK r \in {sandbox[t].reward, NoReward} \union [val : Value, by : {"verifier", "agent"}] :
          /\ sandbox' = [sandbox EXCEPT ![t].reward = r]
          /\ res' = [res EXCEPT ![t] = ScoreOf(r)] \/ res' = [res EXCEPT ![t] = Failed("retry")]
    BY DEF Verify
  <2>2. r \in RewardFile
    BY ResultTypes DEF Inv, Typed, TypeOK, Sandbox, RewardFile, Author
  <2>3. r.by # "old" \/ r.by = sandbox[t].reward.by
    BY ResultTypes
  <2>4. sandbox'[t].reward = r /\ res'[t].by \in {r.by, "none"}
    BY <2>1, <2>2, ResultTypes DEF Inv, Typed, TypeOK, Sandbox
  <2>5. QED
    BY <2>3, <2>4 DEF Inv, Sound, Fresh, Earned, Verify, Go, history, Typed, TypeOK
<1>2. Untouched(t)' /\ FirstAttempt(t)'
  BY ResultTypes DEF Inv, Sound, Untouched, FirstAttempt, Verify, At, Go, process, history,
                     Busy, Typed, TypeOK, Counted
<1>3. Filed(t)' /\ Beside(t)'
  BY ResultTypes DEF Inv, Sound, Filed, Beside, Verify, At, Go, process, history, Typed, TypeOK
<1>4. OneLife(t)'
  BY ResultTypes DEF Inv, Sound, OneLife, Verify, At, Go, process, history, Busy, Typed, TypeOK
<1>5. QED
  BY <1>1, <1>2, <1>3, <1>4 DEF Sound

LEMMA CollectSound == ASSUME Inv, NEW t \in Trials, Collect(t) PROVE Sound(t)'
<1>1. Fresh(t)' /\ Earned(t)'
  BY ResultTypes DEF Inv, Sound, Fresh, Earned, Collect, Collected, At, Go, process, history,
                     Typed, TypeOK
<1>2. Untouched(t)' /\ FirstAttempt(t)'
  BY Collecting DEF Inv, Sound, Untouched, FirstAttempt, Collect, At, Go, process, Busy, Typed,
                    TypeOK, Counted
<1>3. Filed(t)' /\ Beside(t)'
  <2>1. pc'[t] = "cleanup" /\ spoiled \subseteq spoiled' /\ UNCHANGED <<rows, lives, res>>
    BY DEF Collect, Spoil, Go, Inv, Typed, TypeOK
  <2>2. QED
    BY <2>1, Collecting DEF Inv, Sound, Filed, Beside
<1>4. OneLife(t)'
  BY ResultTypes DEF Inv, Sound, OneLife, Collect, Collected, At, Go, process, history, Busy,
                     Typed, TypeOK
<1>5. QED
  BY <1>1, <1>2, <1>3, <1>4 DEF Sound

LEMMA CleanupSound == ASSUME Inv, NEW t \in Trials, Cleanup(t) PROVE Sound(t)'
<1>1. Fresh(t)' /\ Earned(t)'
  BY ResultTypes DEF Inv, Sound, Fresh, Earned, Cleanup, RemoveSandbox, EndAttempt, NewAttempt,
                     At, Go, process, history, Typed, TypeOK
<1>2. Untouched(t)' /\ FirstAttempt(t)'
  BY ResultTypes DEF Inv, Sound, Untouched, FirstAttempt, Cleanup, RemoveSandbox, EndAttempt,
                     NewAttempt, At, Go, process, history, Busy, Typed, TypeOK, Counted
<1>3. Filed(t)' /\ Beside(t)'
  BY ResultTypes DEF Inv, Sound, Filed, Beside, Cleanup, RemoveSandbox, EndAttempt, NewAttempt,
                     At, Go, process, history, Typed, TypeOK
<1>4. OneLife(t)'
  BY ResultTypes DEF Inv, Sound, OneLife, Cleanup, RemoveSandbox, EndAttempt, NewAttempt, At,
                     Go, process, history, Busy, Typed, TypeOK
<1>5. QED
  BY <1>1, <1>2, <1>3, <1>4 DEF Sound

LEMMA WriteSound == ASSUME Inv, NEW t \in Trials, WriteResult(t) PROVE Sound(t)'
<1>1. Fresh(t)' /\ Earned(t)'
  BY ResultTypes DEF Inv, Sound, Fresh, Earned, WriteResult, At, Go, process, Typed, TypeOK
<1>2. Untouched(t)' /\ FirstAttempt(t)'
  BY Writing DEF Inv, Sound, Untouched, FirstAttempt, WriteResult, At, Go, process, Busy,
                 Typed, TypeOK, Counted
<1>3. Filed(t)' /\ Beside(t)'
  <2>1. /\ pc[t] = "file" /\ pc'[t] = "post" /\ spoiled \subseteq spoiled'
        /\ UNCHANGED <<rows, lives, res>>
    BY DEF WriteResult, Spoil, At, Go, Inv, Typed, TypeOK
  <2>2. QED
    BY <2>1, Writing DEF Inv, Sound, Filed, Beside
<1>4. OneLife(t)'
  BY ResultTypes DEF Inv, Sound, OneLife, WriteResult, At, Go, process, Busy, Typed, TypeOK
<1>5. QED
  BY <1>1, <1>2, <1>3, <1>4 DEF Sound

LEMMA PostSound == ASSUME Inv, NEW t \in Trials, Post(t) PROVE Sound(t)'
<1>1. Fresh(t)' /\ Earned(t)'
  BY ResultTypes DEF Inv, Sound, Fresh, Earned, Post, files, At, Go, process, history, Typed,
                     TypeOK
<1>2. Untouched(t)' /\ FirstAttempt(t)'
  BY ResultTypes DEF Inv, Sound, Untouched, FirstAttempt, Post, files, At, Go, process,
                     history, Busy, Typed, TypeOK, Counted
<1>3. Filed(t)' /\ Beside(t)'
  BY ResultTypes DEF Inv, Sound, Filed, Beside, Post, files, At, Go, process, history, Typed,
                     TypeOK
<1>4. OneLife(t)'
  BY ResultTypes DEF Inv, Sound, OneLife, Post, files, At, Go, process, history, Busy, Typed,
                     TypeOK
<1>5. QED
  BY <1>1, <1>2, <1>3, <1>4 DEF Sound

LEMMA AppendSound == ASSUME Inv, NEW t \in Trials, AppendRow(t) PROVE Sound(t)'
<1>0. /\ pc[t] = "append" /\ RowOf(t) # NoRow
      /\ \/ rows' = [rows EXCEPT ![t] = RowOf(t)] /\ res[t].val # "nan"
         \/ UNCHANGED rows /\ t \in lost'
  BY RowTyped, LocalAssumption DEF AppendRow, At, Busy, Inv
<1>1. Fresh(t)' /\ Earned(t)'
  BY ResultTypes DEF Inv, Sound, Fresh, Earned, AppendRow, RowOf, Forget, files, At, Go,
                     process, history, Typed, TypeOK
<1>2. Untouched(t)' /\ FirstAttempt(t)'
  BY ResultTypes DEF Inv, Sound, Untouched, FirstAttempt, AppendRow, RowOf, Forget, files, At,
                     Go, process, history, Busy, Typed, TypeOK, Counted
<1>3. Filed(t)' /\ Beside(t)'
  <2>1. pc'[t] = "done" /\ UNCHANGED <<out, spoiled, lives>>
    BY DEF AppendRow, Go, files, Inv, Typed, TypeOK
  <2>2. CASE rows' = [rows EXCEPT ![t] = RowOf(t)] /\ res[t].val # "nan"
    <3>1. /\ RowOf(t).kind = res[t].kind /\ RowOf(t).attempts = attempt[t]
          /\ RowOf(t).traj = out[t].traj /\ RowOf(t).result = out[t].result
      BY DEF RowOf
    <3>2. attempt[t] \in Nat /\ lives[t] \in Nat
      BY DEF Inv, Typed, TypeOK
    <3>3. rows'[t] = RowOf(t)
      BY <2>2 DEF Inv, Typed, TypeOK
    <3>4. QED
      BY <1>0, <2>1, <2>2, <3>1, <3>2, <3>3 DEF Inv, Sound, Filed, Beside, FirstAttempt, Busy
  <2>3. CASE UNCHANGED rows
    BY <2>1, <2>3 DEF Inv, Sound, Filed, Beside
  <2>4. QED
    BY <1>0, <2>2, <2>3
<1>4. OneLife(t)'
  <2>1. pc'[t] = "done" /\ UNCHANGED <<lives, crashes, phase>> /\ lost \subseteq lost'
    BY DEF AppendRow, Go, process, Inv, Typed, TypeOK
  <2>2. rows'[t] # NoRow \/ t \in lost'
    BY <1>0 DEF Inv, Typed, TypeOK
  <2>3. QED
    BY <2>1, <2>2 DEF Inv, Sound, OneLife
<1>5. QED
  BY <1>1, <1>2, <1>3, <1>4 DEF Sound

LEMMA OrphanSound == ASSUME Inv, NEW t \in Trials, OrphanWrites(t) \/ OrphanEnds(t) PROVE Sound(t)'
<1>1. Fresh(t)' /\ Earned(t)'
  BY ResultTypes DEF Inv, Sound, Fresh, Earned, OrphanWrites, OrphanEnds, process, history,
                     Typed, TypeOK
<1>2. Untouched(t)' /\ FirstAttempt(t)'
  BY ResultTypes DEF Inv, Sound, Untouched, FirstAttempt, OrphanWrites, OrphanEnds, process,
                     history, Busy, Typed, TypeOK, Counted
<1>3. Filed(t)' /\ Beside(t)'
  BY ResultTypes DEF Inv, Sound, Filed, Beside, OrphanWrites, OrphanEnds, process, history,
                     Typed, TypeOK
<1>4. OneLife(t)'
  BY ResultTypes DEF Inv, Sound, OneLife, OrphanWrites, OrphanEnds, process, history, Busy,
                     Typed, TypeOK
<1>5. QED
  BY <1>1, <1>2, <1>3, <1>4 DEF Sound

----------------------------------------------------------------------------
(* The steps of the whole process.                                         *)
LEMMA ProcessSound ==
  ASSUME Inv, Start \/ AllDone \/ Interrupt \/ Crash, NEW t \in Trials
  PROVE  Sound(t)'
<1>1. CASE Start
  <2>1. UNCHANGED <<attempt, res, sandbox, orphan, out, rows, left, lost, spoiled, lives, crashes>>
    BY <1>1 DEF Start, files, history
  <2>2. /\ pc'[t] \in {"done", "spawned"} /\ phase' = "running" /\ phase = "down"
        /\ pc'[t] = "spawned" => rows[t] = NoRow
    BY <1>1 DEF Start, Recorded
  <2>3. QED
    BY <2>1, <2>2 DEF Inv, Sound, Fresh, Earned, Untouched, FirstAttempt, Filed, Beside, OneLife,
                      Busy
<1>2. CASE AllDone
  <2>1. UNCHANGED <<pc, attempt, res, sandbox, orphan, out, rows, left, lost, spoiled, lives,
                  crashes>>
    BY <1>2 DEF AllDone, files, history
  <2>2. pc[t] = "done"
    BY <1>2 DEF AllDone
  <2>3. QED
    BY <2>1, <2>2 DEF Inv, Sound, Fresh, Earned, Untouched, FirstAttempt, Filed, Beside, OneLife
<1>3. CASE Interrupt
  BY <1>3, Frame DEF Interrupt, files, history, Inv, Typed, TypeOK
<1>4. CASE Crash
  <2>1. /\ UNCHANGED <<sandbox, out, rows, lost, spoiled, lives>>
        /\ pc'[t] = "done" /\ crashes' = crashes + 1 /\ res'[t] = Failed("retry")
        /\ left' = left \union InSandbox /\ orphan'[t] = (orphan[t] \/ t \in Commanding)
    BY <1>4 DEF Crash, Forget
  <2>2. crashes \in Nat
    BY DEF Inv, Typed, TypeOK
  <2>3. Fresh(t)'
    <3>1. SUFFICES ASSUME t \notin left' PROVE Fresh(t)'
      BY DEF Fresh
    <3>2. t \notin left /\ pc[t] \notin {"agent", "verify", "collect", "cleanup"}
      BY <2>1, <3>1 DEF InSandbox
    <3>3. ~orphan'[t]
      BY <2>1, <3>2 DEF Commanding, Inv, Sound, Fresh
    <3>4. QED
      BY <2>1, <3>2, <3>3, ResultTypes DEF Inv, Sound, Fresh
  <2>4. Untouched(t)'
    BY <2>1 DEF Inv, Sound, Untouched, Commanding, Busy
  <2>5. Earned(t)' /\ FirstAttempt(t)' /\ Filed(t)' /\ Beside(t)' /\ OneLife(t)'
    BY <2>1, <2>2 DEF Inv, Sound, Earned, FirstAttempt, Filed, Beside, OneLife, Busy
  <2>6. QED
    BY <2>3, <2>4, <2>5 DEF Sound
<1>5. QED
  BY <1>1, <1>2, <1>3, <1>4

LEMMA Invariance == Spec => []Inv
<1>1. Init => Inv
  BY InitTyped, InitSound DEF Inv
<1>2. Inv /\ [Next]_vars => Inv'
  <2>1. SUFFICES ASSUME Inv, [Next]_vars PROVE Inv'
    OBVIOUS
  <2>2. Typed'
    BY <2>1, StepTyped DEF Inv
  <2>3. ASSUME NEW t \in Trials PROVE Sound(t)'
    <3>1. CASE UNCHANGED vars
      <4>1. crashes \in Nat /\ Sound(t)
        BY <2>1 DEF Inv, Typed, TypeOK
      <4>2. QED
        BY <3>1, <4>1, Frame DEF vars
    <3>2. CASE Trial(t) \/ OrphanWrites(t) \/ OrphanEnds(t)
      BY <2>1, <3>2, BeginSound, ResolveSound, PrepareSound, AgentSound, VerifySound, CollectSound,
         CleanupSound, WriteSound, PostSound, AppendSound, OrphanSound DEF Trial
    <3>3. QED
      BY <2>1, <3>1, <3>2, OtherSound, ProcessSound DEF Next
  <2>4. QED
    BY <2>2, <2>3 DEF Inv
<1>3. QED
  BY <1>1, <1>2, PTL DEF Spec

----------------------------------------------------------------------------
(* RewardIsEarned: a row carries a reward that the verifier or the agent   *)
(* of its own attempt wrote; an older one only if the trial's sandbox      *)
(* outlived an attempt, by a crash or a failed cleanup.                    *)
THEOREM Earning == Spec => []RewardIsEarned
<1>1. Inv => RewardIsEarned
  BY DEF Inv, Sound, Earned, RewardIsEarned, Recorded
<1>2. QED
  BY <1>1, Invariance, PTL

(* ArtifactsAreOfTheAttempt: beside a recorded reward lie its result.json  *)
(* and, unless there was an earlier attempt or life, no older trajectory;  *)
(* only a trial of which an artifact could not be written has less.        *)
THEOREM Artifacts == Spec => []ArtifactsAreOfTheAttempt
<1>1. Inv => ArtifactsAreOfTheAttempt
  BY DEF Inv, Sound, Beside, ArtifactsAreOfTheAttempt, Recorded
<1>2. QED
  BY <1>1, Invariance, PTL

(* SecondLifeIsForALoss: only a crash, or a row that append lost, makes a  *)
(* later life begin a trial again; an interrupt does not.                  *)
THEOREM SecondLife == Spec => []SecondLifeIsForALoss
<1>1. Inv => SecondLifeIsForALoss
  BY DEF Inv, Sound, OneLife, SecondLifeIsForALoss, Typed, TypeOK
<1>2. QED
  BY <1>1, Invariance, PTL

=============================================================================
