----------------------------- MODULE WatchProof -----------------------------
(***************************************************************************)
(* Theorems about the watch loop of Watch, for every directory, width and  *)
(* number of edits, failures and restarts.  Each invariant is proved from  *)
(* the ones before it; a step lemma groups the actions that leave its      *)
(* variables alone.                                                        *)
(***************************************************************************)
EXTENDS Watch, FiniteSetTheorems, TLAPS

----------------------------------------------------------------------------
(* What the goroutines leave alone.                                        *)
LEMMA TrialFrame ==
  ASSUME NEW c \in Cases, NEW k \in Launches, Trial(c, k)
  PROVE  UNCHANGED watching
BY DEF Trial, Acquire, CheckLoaded, LoadBegins, LoadEnds, Lookup, TrialEnds

(* What a gate leaves alone.                                               *)
LEMMA GateFrame ==
  ASSUME NEW c \in Cases, Gate(c)
  PROVE  UNCHANGED <<process, main, state, pending, backoff, runner, finished, seen>>
BY DEF Gate, GateRefused, GateStarts, GateErrs, GateReturns

(* The jobs of a poll: a job has the hash of a scan, its case is not       *)
(* pending, and there are none outside a poll or without a process.        *)
JobInv ==
  /\ \A c \in Cases :
       job[c].pc # "none" => job[c].hash \in Versions /\ pending[c] = Absent
  /\ \A c \in Cases : job[c].pc = "gating" => job[c].sha \in Versions
  /\ main # "poll" => \A c \in Cases : job[c].pc = "none"
  /\ phase = "down" => main = "start"

(* The trials that watch has started and that have not ended.              *)
ActiveTrials == {g \in Cases \X Launches : trial[g[1]][g[2]].pc \notin {"none", "ended"}}
CountInv == inflight = Cardinality(ActiveTrials)

USE DEF Content

----------------------------------------------------------------------------
(* Typing, part by part.                                                   *)
LEMMA ProcessStep ==
  ASSUME TypeOK, Next
  PROVE  ProcessOK'
<1>1. CASE Start
  <2>1. starts \in 0 .. MaxStarts /\ starts < MaxStarts /\ starts' = starts + 1
    BY <1>1 DEF Start, TypeOK, ProcessOK
  <2>2. starts' \in 0 .. MaxStarts
    BY <2>1, WatchAssumption
  <2>3. QED
    BY <1>1, <2>2 DEF Start, TypeOK, ProcessOK
<1>2. CASE Scan
  <2>1. PICK U \in SUBSET {c \in Cases : Present(c)} :
          /\ fails + Cardinality(U) <= MaxFails
          /\ fails' = fails + Cardinality(U)
    BY <1>2 DEF Scan, ScanReads
  <2>2. Cardinality(U) \in Nat
    <3>1. IsFiniteSet(U)
      BY FS_Subset, WatchAssumption
    <3>2. QED
      BY <3>1, FS_CardinalityType
  <2>3. fails' \in 0 .. MaxFails
    BY <2>1, <2>2, WatchAssumption DEF TypeOK, ProcessOK
  <2>4. main' \in {"start", "loop", "poll", "quiet"}
    BY <1>2 DEF Scan
  <2>5. QED
    BY <1>2, <2>3, <2>4 DEF Scan, TypeOK, ProcessOK, process
<1>3. CASE Apply \/ PollEnds \/ Finish \/ Interrupt
  BY <1>3 DEF Apply, PollEnds, Finish, Interrupt, TypeOK, ProcessOK, process
<1>4. CASE Exit \/ Crash
  BY <1>4 DEF Exit, Crash, Die, TypeOK, ProcessOK
<1>5. ASSUME NEW c \in Cases, Gate(c)
      PROVE  ProcessOK'
  <2>1. fails' \in 0 .. MaxFails
    BY <1>5, WatchAssumption
       DEF Gate, GateRefused, GateStarts, GateErrs, GateReturns, TypeOK, ProcessOK
  <2>2. QED
    BY <1>5, <2>1, GateFrame DEF TypeOK, ProcessOK, process
<1>6. ASSUME NEW c \in Cases, Retry(c) \/ Edit(c)
      PROVE  ProcessOK'
  BY <1>6 DEF Retry, Edit, TypeOK, ProcessOK, process
<1>7. ASSUME NEW c \in Cases, NEW k \in Launches, Trial(c, k)
      PROVE  ProcessOK'
  <2>1. fails' \in 0 .. MaxFails
    BY <1>7, WatchAssumption
       DEF Trial, Acquire, CheckLoaded, LoadBegins, LoadEnds, Lookup, TrialEnds, TypeOK, ProcessOK
  <2>2. QED
    BY <1>7, <2>1, TrialFrame DEF TypeOK, ProcessOK, watching, process
<1>8. QED
  BY <1>1, <1>2, <1>3, <1>4, <1>5, <1>6, <1>7 DEF Next, Main

(* Every step keeps the directories and the edit count typed.              *)
LEMMA WorldStep ==
  ASSUME TypeOK, Next
  PROVE  WorldOK'
<1>1. CASE Start \/ Scan \/ Apply \/ PollEnds \/ Finish \/ Interrupt
  BY <1>1 DEF Start, Scan, Apply, PollEnds, Finish, Interrupt, TypeOK, WorldOK, world
<1>2. CASE Exit \/ Crash
  BY <1>2 DEF Exit, Crash, Die, TypeOK, WorldOK, world
<1>3. ASSUME NEW c \in Cases, Gate(c)
      PROVE  WorldOK'
  BY <1>3, WatchAssumption
     DEF Gate, GateRefused, GateStarts, GateErrs, GateReturns, TypeOK, WorldOK, world
<1>4. ASSUME NEW c \in Cases, Retry(c) \/ Edit(c)
      PROVE  WorldOK'
  BY <1>4, WatchAssumption DEF Retry, Edit, TypeOK, WorldOK, world
<1>5. ASSUME NEW c \in Cases, NEW k \in Launches, Trial(c, k)
      PROVE  WorldOK'
  BY <1>5, TrialFrame DEF TypeOK, WorldOK, watching, world
<1>6. QED
  BY <1>1, <1>2, <1>3, <1>4, <1>5 DEF Next, Main

(* The result that Apply takes.                                            *)
LEMMA HeadResult ==
  ASSUME GatesOK, results # <<>>
  PROVE  /\ Head(results) \in ResultOK
         /\ Tail(results) \in Seq(ResultOK)
BY DEF GatesOK

(* Every step keeps watch's state and watch-state.json typed.              *)
LEMMA StateStep ==
  ASSUME TypeOK, Next
  PROVE  StateOK'
<1> USE DEF StateOK, state
<1>1. CASE Start
  BY <1>1 DEF Start, TypeOK
<1>2. CASE Scan
  <2>1. known' \in [Cases -> Content] /\ admitted' = admitted
    BY <1>2 DEF Scan, ScanReads, TypeOK
  <2>2. saved' = saved \/ saved' = [known |-> known', admitted |-> admitted]
    BY <1>2 DEF Scan
  <2>3. QED
    BY <2>1, <2>2 DEF TypeOK
<1>3. CASE Apply
  <2>1. Head(results) \in ResultOK
    BY <1>3, HeadResult DEF Apply, TypeOK
  <2>2. CASE Head(results).err
    BY <1>3, <2>2 DEF Apply, Failed, TypeOK
  <2>3. CASE ~Head(results).err
    <3>1. /\ known' = [known EXCEPT ![Head(results).case] = Head(results).sha]
          /\ admitted' = [admitted EXCEPT ![Head(results).case] = Head(results).admitted]
          /\ saved' = [known |-> known', admitted |-> admitted']
      BY <1>3, <2>3 DEF Apply, Judged, RecordedHash
    <3>2. known \in [Cases -> Content] /\ admitted \in [Cases -> BOOLEAN]
      BY DEF TypeOK
    <3>3. Head(results).sha \in Content /\ Head(results).admitted \in BOOLEAN
      BY <2>1 DEF ResultOK
    <3>4. known' \in [Cases -> Content] /\ admitted' \in [Cases -> BOOLEAN]
      BY <3>1, <3>2, <3>3
    <3>5. QED
      BY <3>1, <3>4
  <2>4. QED
    BY <2>2, <2>3
<1>4. CASE PollEnds \/ Finish \/ Interrupt
  BY <1>4 DEF PollEnds, Finish, Interrupt, TypeOK
<1>5. CASE Exit \/ Crash
  <2>1. known' = Blank /\ admitted' = Nobody /\ saved' \in {saved, NoState}
    BY <1>5 DEF Exit, Crash, Die
  <2>2. Blank \in [Cases -> Content] /\ Nobody \in [Cases -> BOOLEAN]
    BY DEF Blank, Nobody
  <2>3. NoState \in [known : [Cases -> Content], admitted : [Cases -> BOOLEAN]]
    BY <2>2 DEF NoState
  <2>4. QED
    BY <2>1, <2>2, <2>3 DEF TypeOK
<1>6. ASSUME NEW c \in Cases, Gate(c) \/ Retry(c) \/ Edit(c)
      PROVE  StateOK'
  BY <1>6, GateFrame DEF Retry, Edit, TypeOK
<1>7. ASSUME NEW c \in Cases, NEW k \in Launches, Trial(c, k)
      PROVE  StateOK'
  BY <1>7, TrialFrame DEF TypeOK, watching
<1>8. QED
  BY <1>1, <1>2, <1>3, <1>4, <1>5, <1>6, <1>7 DEF Next, Main

(* Every step keeps what poll remembers of its scans typed.                *)
LEMMA ScanStep ==
  ASSUME TypeOK, Next
  PROVE  ScanOK'
<1> USE DEF ScanOK, backoff, seen
<1>1. CASE Start \/ PollEnds \/ Finish \/ Interrupt
  BY <1>1 DEF Start, PollEnds, Finish, Interrupt, TypeOK
<1>2. CASE Scan
  <2>0. dir \in [Cases -> Content]
    BY DEF TypeOK, WorldOK
  <2>1. PICK U \in SUBSET Cases, R \in SUBSET Cases : ScanReads(R, U)
    BY <1>2 DEF Scan
  <2>2. /\ failHash \in [Cases -> Content] /\ waiting \in [Cases -> BOOLEAN]
        /\ pending \in [Cases -> Content] /\ lastSeen \in [Cases -> Content]
    BY DEF TypeOK
  <2>3. failHash' \in [Cases -> Content] /\ waiting' \in [Cases -> BOOLEAN]
    BY <2>1, <2>2 DEF ScanReads
  <2>4. pending' \in [Cases -> Content]
    BY <2>0, <2>1, <2>2 DEF ScanReads
  <2>5. lastSeen' \in [Cases -> Content] /\ unread' \subseteq Cases
    BY <2>0, <2>1, <2>2 DEF ScanReads
  <2>6. QED
    BY <2>3, <2>4, <2>5
<1>3. CASE Apply
  <2>1. Head(results) \in ResultOK
    BY <1>3, HeadResult DEF Apply, TypeOK
  <2>2. CASE Head(results).err
    BY <1>3, <2>1, <2>2 DEF Apply, Failed, ResultOK, TypeOK
  <2>3. CASE ~Head(results).err
    BY <1>3, <2>1, <2>3 DEF Apply, Judged, ResultOK, TypeOK
  <2>4. QED
    BY <2>2, <2>3
<1>4. CASE Exit \/ Crash
  BY <1>4 DEF Exit, Crash, Die, Blank, Nobody, TypeOK
<1>5. ASSUME NEW c \in Cases, Gate(c) \/ Retry(c) \/ Edit(c)
      PROVE  ScanOK'
  BY <1>5, GateFrame DEF Retry, Edit, TypeOK
<1>6. ASSUME NEW c \in Cases, NEW k \in Launches, Trial(c, k)
      PROVE  ScanOK'
  BY <1>6, TrialFrame DEF TypeOK, watching
<1>7. QED
  BY <1>1, <1>2, <1>3, <1>4, <1>5, <1>6 DEF Next, Main

(* What a step of a gate does: it starts, or sends its one result, and a   *)
(* result without an error is on the record of verdicts.                   *)
LEMMA GateForm ==
  ASSUME TypeOK, JobInv, NEW c \in Cases, Gate(c)
  PROVE  \/ /\ job[c].pc = "ready" /\ results' = results /\ verdicts' = verdicts
            /\ \E v \in Versions : job' = [job EXCEPT ![c].pc = "gating", ![c].sha = v]
         \/ /\ job[c].pc \in {"ready", "gating"}
            /\ job' = [job EXCEPT ![c].pc = "sent"]
            /\ verdicts \subseteq verdicts'
            /\ verdicts' \subseteq Cases \X Versions \X BOOLEAN
            /\ \E r \in ResultOK :
                 /\ results' = Append(results, r) /\ r.case = c
                 /\ ~r.err => <<c, r.sha, r.admitted>> \in verdicts'
<1>1. verdicts \subseteq Cases \X Versions \X BOOLEAN /\ dir \in [Cases -> Content]
  BY DEF TypeOK, WorldOK
<1>2. job[c].pc # "none" => job[c].hash \in Versions
  BY DEF JobInv
<1>3. job[c].pc # "none" => Failure(c) \in ResultOK
  BY <1>2 DEF Failure, ResultOK
<1>4. CASE GateRefused(c) \/ GateErrs(c)
  <2>1. /\ job[c].pc \in {"ready", "gating"} /\ verdicts' = verdicts
        /\ Send(c, Failure(c))
    BY <1>4 DEF GateRefused, GateErrs
  <2>2. Failure(c) \in ResultOK /\ Failure(c).case = c /\ Failure(c).err
    BY <1>3, <2>1 DEF Failure
  <2>3. results' = Append(results, Failure(c)) /\ job' = [job EXCEPT ![c].pc = "sent"]
    BY <2>1 DEF Send
  <2>4. QED
    BY <1>1, <2>1, <2>2, <2>3
<1>5. CASE GateStarts(c)
  <2>1. /\ job[c].pc = "ready" /\ results' = results /\ verdicts' = verdicts
        /\ job' = [job EXCEPT ![c].pc = "gating", ![c].sha = dir[c]]
        /\ Present(c)
    BY <1>5 DEF GateStarts
  <2>2. dir[c] \in Versions
    BY <1>1, <2>1 DEF Present
  <2>3. QED
    BY <2>1, <2>2
<1>6. CASE GateReturns(c)
  <2>1. job[c].pc = "gating" /\ job[c].sha \in Versions
    BY <1>6 DEF GateReturns, JobInv
  <2>2. PICK admit \in BOOLEAN, sha \in Versions :
          /\ Send(c, Verdict(c, sha, admit))
          /\ verdicts' = verdicts \union {<<c, sha, admit>>}
    BY <1>6, <2>1 DEF GateReturns
  <2>3. /\ Verdict(c, sha, admit) \in ResultOK
        /\ Verdict(c, sha, admit).case = c
        /\ Verdict(c, sha, admit).sha = sha
        /\ Verdict(c, sha, admit).admitted = admit
    BY <1>2, <2>1 DEF Verdict, ResultOK
  <2>4. /\ results' = Append(results, Verdict(c, sha, admit))
        /\ job' = [job EXCEPT ![c].pc = "sent"]
    BY <2>2 DEF Send
  <2>5. verdicts' \subseteq Cases \X Versions \X BOOLEAN /\ verdicts \subseteq verdicts'
    BY <1>1, <2>2
  <2>6. <<c, sha, admit>> \in verdicts'
    BY <2>2
  <2>7. QED
    BY <2>1, <2>3, <2>4, <2>5, <2>6
<1>7. QED
  BY <1>4, <1>5, <1>6 DEF Gate

(* The record of verdicts only grows, and stays typed.                     *)
LEMMA VerdictsStep ==
  ASSUME TypeOK, JobInv, Next
  PROVE  /\ verdicts \subseteq verdicts'
         /\ verdicts' \subseteq Cases \X Versions \X BOOLEAN
<1>1. verdicts \subseteq Cases \X Versions \X BOOLEAN
  BY DEF TypeOK
<1>2. CASE Start \/ Scan \/ Apply \/ PollEnds \/ Finish \/ Interrupt \/ Exit \/ Crash
  BY <1>1, <1>2 DEF Start, Scan, Apply, PollEnds, Finish, Interrupt, Exit, Crash, Die
<1>3. ASSUME NEW c \in Cases, Gate(c)
      PROVE  /\ verdicts \subseteq verdicts'
             /\ verdicts' \subseteq Cases \X Versions \X BOOLEAN
  BY <1>1, <1>3, GateForm
<1>4. ASSUME NEW c \in Cases, Retry(c) \/ Edit(c)
      PROVE  verdicts' = verdicts
  BY <1>4 DEF Retry, Edit
<1>5. ASSUME NEW c \in Cases, NEW k \in Launches, Trial(c, k)
      PROVE  verdicts' = verdicts
  BY <1>5, TrialFrame DEF watching
<1>6. QED
  BY <1>1, <1>2, <1>3, <1>4, <1>5 DEF Next, Main

(* Every step keeps the jobs and the results channel typed.                *)
LEMMA GatesStep ==
  ASSUME TypeOK, JobInv, Next
  PROVE  GatesOK'
<1> USE DEF GatesOK, gates
<1>0. job \in [Cases -> JobOK] /\ results \in Seq(ResultOK) /\ dir \in [Cases -> Content]
  BY DEF TypeOK, WorldOK
<1>1. CASE Start \/ PollEnds \/ Finish \/ Interrupt
  BY <1>0, <1>1 DEF Start, PollEnds, Finish, Interrupt
<1>2. CASE Scan
  <2>1. PICK U \in SUBSET Cases, R \in SUBSET Cases : ScanReads(R, U)
    BY <1>2 DEF Scan
  <2>2. NoJob \in JobOK /\ \A c \in Cases : [NoJob EXCEPT !.pc = "ready", !.hash = dir[c]] \in JobOK
    BY <1>0 DEF NoJob, JobOK
  <2>3. job' \in [Cases -> JobOK]
    BY <2>1, <2>2 DEF ScanReads
  <2>4. QED
    BY <1>0, <1>2, <2>3 DEF Scan
<1>3. CASE Apply
  <2>1. Head(results).case \in Cases /\ Tail(results) \in Seq(ResultOK)
    BY <1>3, <1>0, HeadResult DEF Apply, ResultOK
  <2>2. job' = [job EXCEPT ![Head(results).case] = NoJob] /\ results' = Tail(results)
    BY <1>3 DEF Apply
  <2>3. NoJob \in JobOK
    BY DEF NoJob, JobOK
  <2>4. QED
    BY <1>0, <2>1, <2>2, <2>3
<1>4. CASE Exit \/ Crash
  <2>1. job' = [c \in Cases |-> NoJob] /\ results' = <<>>
    BY <1>4 DEF Exit, Crash, Die
  <2>2. NoJob \in JobOK /\ <<>> \in Seq(ResultOK)
    BY DEF NoJob, JobOK
  <2>3. QED
    BY <2>1, <2>2
<1>5. ASSUME NEW c \in Cases, Gate(c)
      PROVE  GatesOK'
  <2>1. \A v \in Versions : [job EXCEPT ![c].pc = "gating", ![c].sha = v] \in [Cases -> JobOK]
    BY <1>0 DEF JobOK
  <2>2. [job EXCEPT ![c].pc = "sent"] \in [Cases -> JobOK]
    BY <1>0 DEF JobOK
  <2>3. QED
    <3>0. \/ \E v \in Versions : job' = [job EXCEPT ![c].pc = "gating", ![c].sha = v]
          \/ job' = [job EXCEPT ![c].pc = "sent"]
      BY <1>5, GateForm
    <3>1. job' \in [Cases -> JobOK]
      BY <2>1, <2>2, <3>0
    <3>2. results' = results \/ \E r \in ResultOK : results' = Append(results, r)
      BY <1>5, GateForm
    <3>3. results' \in Seq(ResultOK)
      BY <1>0, <3>2
    <3>4. QED
      BY <3>1, <3>3
<1>6. ASSUME NEW c \in Cases, Retry(c) \/ Edit(c)
      PROVE  GatesOK'
  BY <1>0, <1>6 DEF Retry, Edit
<1>7. ASSUME NEW c \in Cases, NEW k \in Launches, Trial(c, k)
      PROVE  GatesOK'
  BY <1>0, <1>7, TrialFrame DEF watching
<1>8. QED
  BY <1>1, <1>2, <1>3, <1>4, <1>5, <1>6, <1>7 DEF Next, Main

----------------------------------------------------------------------------
(* The jobs of a poll.                                                     *)
LEMMA JobStep ==
  ASSUME TypeOK, JobInv, Next
  PROVE  JobInv'
<1>0. /\ job \in [Cases -> JobOK] /\ dir \in [Cases -> Content]
      /\ pending \in [Cases -> Content] /\ Absent \notin Versions
  BY WatchAssumption DEF TypeOK, WorldOK, ScanOK, GatesOK
<1>1. CASE Start
  BY <1>1 DEF Start, JobInv, gates
<1>2. CASE Scan
  <2>1. PICK U \in SUBSET Cases :
          LET R == {c \in Cases : Present(c)} \ U IN
            /\ ScanReads(R, U)
            /\ main' # "poll" => Jobs(R) = {}
    BY <1>2 DEF Scan
  <2>2. DEFINE R == {c \in Cases : Present(c)} \ U
  <2>3. job' = [c \in Cases |-> IF c \in Jobs(R) THEN [NoJob EXCEPT !.pc = "ready", !.hash = dir[c]]
                                                 ELSE NoJob]
    BY <2>1 DEF ScanReads
  <2>4. ASSUME NEW c \in Cases, c \in Jobs(R)
        PROVE  dir[c] \in Versions /\ pending'[c] = Absent
    <3>1. c \notin U /\ dir[c] # Absent
      BY <2>4 DEF Jobs, Due, New, Changed, Present
    <3>2. pending'[c] = Absent
      BY <2>1, <2>4, <3>1 DEF ScanReads
    <3>3. QED
      BY <1>0, <3>1, <3>2
  <2>5. \A c \in Cases : /\ job'[c].pc = IF c \in Jobs(R) THEN "ready" ELSE "none"
                         /\ c \in Jobs(R) => job'[c].hash = dir[c]
    BY <2>3 DEF NoJob
  <2>6. phase' = "up"
    BY <1>2 DEF Scan, process
  <2>7. QED
    BY <2>1, <2>4, <2>5, <2>6 DEF JobInv
<1>3. CASE Apply
  <2>1. Head(results) \in ResultOK
    BY <1>3, HeadResult DEF Apply, TypeOK
  <2>2. /\ main = "poll" /\ main' = main /\ pending' = pending /\ phase' = phase
        /\ job' = [job EXCEPT ![Head(results).case] = NoJob]
    BY <1>3 DEF Apply, process
  <2>3. \A c \in Cases : job'[c] = job[c] \/ job'[c] = NoJob
    BY <1>0, <2>2
  <2>4. QED
    BY <2>2, <2>3 DEF JobInv, NoJob
<1>4. CASE PollEnds
  <2>1. \A c \in Cases : job'[c].pc = "none"
    BY <1>4 DEF PollEnds, gates, NoJob
  <2>2. phase' = "up"
    BY <1>4 DEF PollEnds, process
  <2>3. QED
    BY <2>1, <2>2 DEF JobInv
<1>5. CASE Finish \/ Interrupt
  BY <1>5 DEF Finish, Interrupt, JobInv, gates, process
<1>6. CASE Exit \/ Crash
  <2>1. main' = "start" /\ job' = [c \in Cases |-> NoJob]
    BY <1>6 DEF Exit, Crash, Die
  <2>2. QED
    BY <2>1 DEF JobInv, NoJob
<1>7. ASSUME NEW c \in Cases, Gate(c)
      PROVE  JobInv'
  <2>1. main' = main /\ pending' = pending /\ phase' = phase
    BY <1>7, GateFrame DEF process
  <2>2. job[c].pc \in {"ready", "gating"}
    BY <1>7, GateForm
  <2>3. main = "poll"
    BY <2>2 DEF JobInv
  <2>4. /\ job'[c].pc \in {"gating", "sent"} /\ job'[c].hash = job[c].hash
        /\ job'[c].pc = "gating" => job'[c].sha \in Versions
        /\ \A d \in Cases \ {c} : job'[d] = job[d]
    <3>1. CASE \E v \in Versions : job' = [job EXCEPT ![c].pc = "gating", ![c].sha = v]
      BY <1>0, <3>1 DEF JobOK
    <3>2. CASE job' = [job EXCEPT ![c].pc = "sent"]
      BY <1>0, <3>2 DEF JobOK
    <3>3. QED
      BY <1>7, <3>1, <3>2, GateForm
  <2>5. QED
    BY <2>1, <2>2, <2>3, <2>4 DEF JobInv
<1>8. ASSUME NEW c \in Cases, Retry(c) \/ Edit(c)
      PROVE  JobInv'
  BY <1>8 DEF Retry, Edit, JobInv, gates, process
<1>9. ASSUME NEW c \in Cases, NEW k \in Launches, Trial(c, k)
      PROVE  JobInv'
  BY <1>9, TrialFrame DEF watching, JobInv, gates, process
<1>10. QED
  BY <1>1, <1>2, <1>3, <1>4, <1>5, <1>6, <1>7, <1>8, <1>9 DEF Next, Main

----------------------------------------------------------------------------
(* The trial goroutines.                                                   *)
LEMMA TrialsFinite ==
  ASSUME NEW S \in SUBSET (Cases \X Launches)
  PROVE  IsFiniteSet(S)
<1>1. MaxEdits + 1 \in Int
  BY WatchAssumption
<1>2. IsFiniteSet(Launches)
  BY <1>1, FS_Interval DEF Launches
<1>3. IsFiniteSet(Cases \X Launches)
  BY <1>2, WatchAssumption, FS_Product
<1>4. QED
  BY <1>3, FS_Subset

TrialOK == [pc : Holding \union {"none", "queued", "ended"}, sha : Content]

(* A step of a trial moves it from one running place to another, or ends   *)
(* it with its case in the list.                                           *)
LEMMA TrialForm ==
  ASSUME TypeOK, done \subseteq listed, NEW c \in Cases, NEW k \in Launches, Trial(c, k)
  PROVE  /\ trial[c][k].pc \in Holding \union {"queued"}
         /\ \/ /\ \E p \in Holding : Goto(c, k, p)
               /\ inflight' = inflight
            \/ /\ Goto(c, k, "ended")
               /\ inflight' = inflight - 1
               /\ c \in listed'
         /\ listed \subseteq listed' /\ done' \subseteq listed' /\ listed' \subseteq Cases
         /\ loaded' \in BOOLEAN /\ rows' \in [Cases -> Nat] /\ torn' \in BOOLEAN
<1>0. /\ loaded \in BOOLEAN /\ done \subseteq Cases /\ listed \subseteq Cases
      /\ rows \in [Cases -> Nat] /\ torn \in BOOLEAN
  BY DEF TypeOK, RunnerOK
<1>1. CASE Acquire(c, k) \/ CheckLoaded(c, k) \/ LoadBegins(c, k)
  BY <1>0, <1>1 DEF Acquire, CheckLoaded, LoadBegins, At, Goto, Holding
<1>2. CASE LoadEnds(c, k)
  BY <1>0, <1>2 DEF LoadEnds, Recorded, At, Goto, Holding
<1>3. CASE Lookup(c, k)
  BY <1>0, <1>3 DEF Lookup, At, Goto, Holding
<1>4. CASE TrialEnds(c, k)
  <2>1. rows' \in [Cases -> Nat]
    BY <1>0, <1>4 DEF TrialEnds
  <2>2. QED
    BY <1>0, <1>4, <2>1 DEF TrialEnds, At, Goto, Holding
<1>5. QED
  BY <1>1, <1>2, <1>3, <1>4 DEF Trial

(* What one step does to the trials: nothing, a launch, a step of a trial, *)
(* or the death of the process.                                            *)
LEMMA LaunchForm ==
  ASSUME TypeOK, Next
  PROVE  \/ UNCHANGED runner
         \/ /\ Exit \/ Crash
            /\ Die
         \/ \E c \in Cases, k \in Launches : Trial(c, k)
         \/ /\ Apply /\ ~Head(results).err /\ Head(results).admitted
            /\ Launch(Head(results))
            /\ UNCHANGED <<loaded, done, listed, rows, torn>>
<1>1. CASE Apply
  <2>1. CASE Head(results).err
    BY <1>1, <2>1 DEF Apply, Failed, runner
  <2>2. CASE ~Head(results).err /\ Head(results).admitted
    BY <1>1, <2>2 DEF Apply, Judged, WantsTrial
  <2>3. CASE ~Head(results).err /\ ~Head(results).admitted
    BY <1>1, <2>3 DEF Apply, Judged, WantsTrial, runner
  <2>4. QED
    BY <2>1, <2>2, <2>3
<1>2. CASE Start \/ Scan \/ PollEnds \/ Finish \/ Interrupt
  BY <1>2 DEF Start, Scan, PollEnds, Finish, Interrupt
<1>3. CASE Exit \/ Crash
  BY <1>3 DEF Exit, Crash
<1>4. ASSUME NEW c \in Cases, Gate(c) \/ Retry(c) \/ Edit(c)
      PROVE  UNCHANGED runner
  BY <1>4, GateFrame DEF Retry, Edit
<1>5. QED
  BY <1>1, <1>2, <1>3, <1>4 DEF Next, Main

(* What Goto does to the trials: one place moves, its bytes stay.          *)
LEMMA GotoForm ==
  ASSUME TypeOK, NEW c \in Cases, NEW k \in Launches,
         NEW p \in Holding \union {"ended"}, Goto(c, k, p)
  PROVE  /\ trial' \in [Cases -> [Launches -> TrialOK]]
         /\ trial'[c][k].pc = p /\ trial'[c][k].sha = trial[c][k].sha
         /\ \A d \in Cases, j \in Launches :
              d # c \/ j # k => trial'[d][j] = trial[d][j]
<1>1. trial \in [Cases -> [Launches -> TrialOK]]
  BY DEF TypeOK, RunnerOK, TrialOK
<1>2. DEFINE row == [trial[c] EXCEPT ![k].pc = p]
<1>3. trial' = [trial EXCEPT ![c] = row]
  BY <1>1 DEF Goto
<1>4. trial[c] \in [Launches -> TrialOK]
  BY <1>1
<1>5. /\ row \in [Launches -> TrialOK] /\ row[k].pc = p /\ row[k].sha = trial[c][k].sha
      /\ \A j \in Launches \ {k} : row[j] = trial[c][j]
  BY <1>4 DEF TrialOK
<1>6. trial' \in [Cases -> [Launches -> TrialOK]]
  BY <1>1, <1>3, <1>5
<1>7. trial'[c] = row /\ \A d \in Cases \ {c} : trial'[d] = trial[d]
  BY <1>1, <1>3
<1>8. QED
  BY <1>5, <1>6, <1>7

(* What Launch does to the trials: one empty place is filled.              *)
LEMMA NewTrialForm ==
  ASSUME TypeOK, NEW r \in ResultOK, Launch(r)
  PROVE  /\ trial' \in [Cases -> [Launches -> TrialOK]]
         /\ inflight' = inflight + 1
         /\ \E k \in Launches :
              /\ trial[r.case][k] = NoTrial
              /\ trial'[r.case][k] = [pc |-> "queued", sha |-> r.sha]
              /\ \A d \in Cases, j \in Launches :
                   d # r.case \/ j # k => trial'[d][j] = trial[d][j]
<1>1. trial \in [Cases -> [Launches -> TrialOK]] /\ r.case \in Cases
  BY DEF TypeOK, RunnerOK, TrialOK, ResultOK
<1>2. PICK k \in Launches :
        /\ trial[r.case][k] = NoTrial
        /\ trial' = [trial EXCEPT ![r.case][k] = [pc |-> "queued", sha |-> r.sha]]
        /\ inflight' = inflight + 1
  BY DEF Launch
<1>3. DEFINE row == [trial[r.case] EXCEPT ![k] = [pc |-> "queued", sha |-> r.sha]]
<1>4. trial' = [trial EXCEPT ![r.case] = row]
  BY <1>1, <1>2
<1>5. [pc |-> "queued", sha |-> r.sha] \in TrialOK
  BY DEF TrialOK, ResultOK
<1>6. row \in [Launches -> TrialOK] /\ row[k] = [pc |-> "queued", sha |-> r.sha]
      /\ \A j \in Launches \ {k} : row[j] = trial[r.case][j]
  BY <1>1, <1>5
<1>7. trial'[r.case] = row /\ \A d \in Cases \ {r.case} : trial'[d] = trial[d]
  BY <1>1, <1>4
<1>8. trial' \in [Cases -> [Launches -> TrialOK]]
  BY <1>1, <1>4, <1>6
<1>9. QED
  BY <1>2, <1>6, <1>7, <1>8

(* in-flight counts the trials that are started and have not ended.        *)
LEMMA CountStep ==
  ASSUME TypeOK, CountInv, done \subseteq listed, Next
  PROVE  CountInv'
<1>0. /\ ActiveTrials \subseteq Cases \X Launches
      /\ IsFiniteSet(ActiveTrials) /\ inflight = Cardinality(ActiveTrials)
  BY TrialsFinite DEF ActiveTrials, CountInv
<1>1. CASE UNCHANGED runner
  BY <1>1 DEF runner, CountInv, ActiveTrials
<1>2. CASE Die
  <2>1. ActiveTrials' = {}
    BY <1>2 DEF Die, ActiveTrials, NoTrial
  <2>2. QED
    BY <1>2, <2>1, FS_EmptySet DEF Die, CountInv
<1>3. ASSUME NEW c \in Cases, NEW k \in Launches, Trial(c, k)
      PROVE  CountInv'
  <2>1. trial[c][k].pc \in Holding \union {"queued"}
    BY <1>3, TrialForm
  <2>2. <<c, k>> \in ActiveTrials
    BY <2>1 DEF ActiveTrials, Holding
  <2>3. ASSUME NEW p \in Holding, Goto(c, k, p), inflight' = inflight
        PROVE  CountInv'
    <3>1. ActiveTrials' = ActiveTrials
      BY <2>2, <2>3, GotoForm DEF ActiveTrials, Holding
    <3>2. QED
      BY <2>3, <3>1 DEF CountInv
  <2>4. ASSUME Goto(c, k, "ended"), inflight' = inflight - 1
        PROVE  CountInv'
    <3>1. ActiveTrials' = ActiveTrials \ {<<c, k>>}
      BY <2>2, <2>4, GotoForm DEF ActiveTrials
    <3>2. Cardinality(ActiveTrials \ {<<c, k>>}) = Cardinality(ActiveTrials) - 1
      BY <1>0, <2>2, FS_RemoveElement
    <3>3. QED
      BY <1>0, <2>4, <3>1, <3>2 DEF CountInv
  <2>5. QED
    BY <1>3, <2>3, <2>4, TrialForm
<1>4. ASSUME Apply, Launch(Head(results))
      PROVE  CountInv'
  <2>1. Head(results) \in ResultOK
    BY <1>4, HeadResult DEF Apply, TypeOK
  <2>2. DEFINE c == Head(results).case
  <2>3. c \in Cases
    BY <2>1 DEF ResultOK
  <2>4. PICK k \in Launches :
          /\ trial[c][k] = NoTrial
          /\ trial'[c][k] = [pc |-> "queued", sha |-> Head(results).sha]
          /\ \A d \in Cases, j \in Launches : d # c \/ j # k => trial'[d][j] = trial[d][j]
    BY <1>4, <2>1, NewTrialForm
  <2>5. <<c, k>> \notin ActiveTrials
    BY <2>4 DEF ActiveTrials, NoTrial
  <2>6. ActiveTrials' = ActiveTrials \union {<<c, k>>}
    BY <2>3, <2>4 DEF ActiveTrials
  <2>7. Cardinality(ActiveTrials \union {<<c, k>>}) = Cardinality(ActiveTrials) + 1
    BY <1>0, <2>5, FS_AddElement
  <2>8. inflight' = inflight + 1
    BY <1>4, <2>1, NewTrialForm
  <2>9. QED
    BY <1>0, <2>6, <2>7, <2>8 DEF CountInv
<1>5. QED
  BY <1>1, <1>2, <1>3, <1>4, LaunchForm

(* Every step keeps the Runner's variables typed.                          *)
LEMMA RunnerStep ==
  ASSUME TypeOK, CountInv, done \subseteq listed, Next
  PROVE  RunnerOK'
<1>0. RunnerOK
  BY DEF TypeOK
<1>1. inflight' \in Nat
  <2>1. ActiveTrials' \subseteq Cases \X Launches
    BY DEF ActiveTrials
  <2>2. Cardinality(ActiveTrials') \in Nat
    BY <2>1, TrialsFinite, FS_CardinalityType
  <2>3. QED
    BY <2>2, CountStep DEF CountInv
<1>2. CASE UNCHANGED runner
  BY <1>0, <1>2 DEF runner, RunnerOK
<1>3. CASE (Exit \/ Crash) /\ Die
  <2>1. trial' = [c \in Cases |-> [k \in Launches |-> NoTrial]]
    BY <1>3 DEF Die
  <2>2. NoTrial \in TrialOK
    BY DEF NoTrial, TrialOK
  <2>3. trial' \in [Cases -> [Launches -> TrialOK]]
    BY <2>1, <2>2
  <2>4. loaded' = FALSE /\ done' = {} /\ listed' = {} /\ rows' = rows
    BY <1>3 DEF Die
  <2>5. torn' \in BOOLEAN
    BY <1>0, <1>3 DEF Exit, Crash, TornRow, RunnerOK
  <2>6. QED
    BY <1>0, <1>1, <2>3, <2>4, <2>5 DEF RunnerOK, TrialOK
<1>4. ASSUME NEW c \in Cases, NEW k \in Launches, Trial(c, k)
      PROVE  RunnerOK'
  <2>1. \E p \in Holding \union {"ended"} : Goto(c, k, p)
    BY <1>4, TrialForm
  <2>2. trial' \in [Cases -> [Launches -> TrialOK]]
    BY <2>1, GotoForm
  <2>3. QED
    BY <1>1, <1>4, <2>2, TrialForm DEF RunnerOK, TrialOK
<1>5. ASSUME Apply, Launch(Head(results)), UNCHANGED <<loaded, done, listed, rows, torn>>
      PROVE  RunnerOK'
  <2>1. Head(results) \in ResultOK
    BY <1>5, HeadResult DEF Apply, TypeOK
  <2>2. trial' \in [Cases -> [Launches -> TrialOK]]
    BY <1>5, <2>1, NewTrialForm
  <2>3. QED
    BY <1>0, <1>1, <1>5, <2>2 DEF RunnerOK, TrialOK
<1>6. QED
  BY <1>2, <1>3, <1>4, <1>5, LaunchForm

----------------------------------------------------------------------------
(* A trial that has ended has its case in the list that Finish sees, and a *)
(* place without a trial is empty.                                         *)
ListInv ==
  /\ done \subseteq listed
  /\ \A c \in Cases, k \in Launches : trial[c][k].pc = "ended" => c \in listed
  /\ \A c \in Cases, k \in Launches : trial[c][k].pc = "none" => trial[c][k] = NoTrial

(* Every step keeps ListInv.                                               *)
LEMMA ListStep ==
  ASSUME TypeOK, ListInv, Next
  PROVE  ListInv'
<1>1. CASE UNCHANGED runner
  BY <1>1 DEF runner, ListInv
<1>2. CASE Die
  BY <1>2 DEF Die, ListInv, NoTrial
<1>3. ASSUME NEW c \in Cases, NEW k \in Launches, Trial(c, k)
      PROVE  ListInv'
  <2>1. listed \subseteq listed' /\ done' \subseteq listed'
    BY <1>3, TrialForm DEF ListInv
  <2>2. PICK p \in Holding \union {"ended"} :
          Goto(c, k, p) /\ (p = "ended" => c \in listed')
    BY <1>3, TrialForm DEF ListInv, Holding
  <2>3. /\ trial'[c][k].pc = p
        /\ \A d \in Cases, j \in Launches : d # c \/ j # k => trial'[d][j] = trial[d][j]
    BY <2>2, GotoForm
  <2>4. p # "none"
    BY DEF Holding
  <2>5. QED
    BY <2>1, <2>2, <2>3, <2>4 DEF ListInv
<1>4. ASSUME Apply, Launch(Head(results)), UNCHANGED <<loaded, done, listed, rows>>
      PROVE  ListInv'
  <2>1. Head(results) \in ResultOK
    BY <1>4, HeadResult DEF Apply, TypeOK
  <2>2. PICK k \in Launches :
          /\ trial'[Head(results).case][k] = [pc |-> "queued", sha |-> Head(results).sha]
          /\ \A d \in Cases, j \in Launches :
               d # Head(results).case \/ j # k => trial'[d][j] = trial[d][j]
    BY <1>4, <2>1, NewTrialForm
  <2>3. trial'[Head(results).case][k].pc = "queued"
    BY <2>2
  <2>4. QED
    BY <1>4, <2>2, <2>3 DEF ListInv
<1>5. QED
  BY <1>1, <1>2, <1>3, <1>4, LaunchForm

(* A result is of a job that was sent, no two are of the same case, and    *)
(* one without an error is on the record of verdicts.                      *)
QueueInv ==
  /\ \A i \in 1 .. Len(results) : job[results[i].case].pc = "sent"
  /\ \A i, j \in 1 .. Len(results) : i # j => results[i].case # results[j].case
  /\ \A i \in 1 .. Len(results) :
       ~results[i].err => <<results[i].case, results[i].sha, results[i].admitted>> \in verdicts

(* A result is about a case.                                               *)
LEMMA ResultCases ==
  ASSUME GatesOK
  PROVE  \A i \in 1 .. Len(results) : results[i].case \in Cases
<1>1. \A i \in 1 .. Len(results) : results[i] \in ResultOK
  BY DEF GatesOK
<1>2. QED
  BY <1>1 DEF ResultOK

(* Every step keeps QueueInv.                                              *)
LEMMA QueueStep ==
  ASSUME TypeOK, JobInv, QueueInv, Next
  PROVE  QueueInv'
<1>0. /\ results \in Seq(ResultOK) /\ job \in [Cases -> JobOK] /\ verdicts \subseteq verdicts'
      /\ \A i \in 1 .. Len(results) : results[i].case \in Cases
  BY VerdictsStep, ResultCases DEF TypeOK, GatesOK
<1>1. CASE UNCHANGED gates
  BY <1>0, <1>1 DEF gates, QueueInv
<1>2. CASE Scan
  <2>1. results' = results /\ main # "poll"
    BY <1>2 DEF Scan
  <2>2. \A i \in 1 .. Len(results) : FALSE
    BY <1>0, <2>1 DEF QueueInv, JobInv
  <2>3. QED
    BY <2>1, <2>2 DEF QueueInv
<1>3. CASE Apply
  <2>1. /\ results # <<>> /\ results' = Tail(results)
        /\ job' = [job EXCEPT ![Head(results).case] = NoJob]
    BY <1>3 DEF Apply
  <2>2. /\ 1 \in 1 .. Len(results) /\ Head(results) = results[1]
        /\ \A i \in 1 .. Len(results') : i + 1 \in 1 .. Len(results) /\ results'[i] = results[i + 1]
    BY <1>0, <2>1
  <2>3. \A i \in 1 .. Len(results') : results'[i].case # Head(results).case /\ results'[i].case \in Cases
    BY <1>0, <2>2 DEF QueueInv
  <2>4. \A i \in 1 .. Len(results') : job'[results'[i].case].pc = "sent"
    BY <1>0, <2>1, <2>2, <2>3 DEF QueueInv
  <2>5. \A i, j \in 1 .. Len(results') : i # j => results'[i].case # results'[j].case
    BY <2>2 DEF QueueInv
  <2>6. \A i \in 1 .. Len(results') :
          ~results'[i].err => <<results'[i].case, results'[i].sha, results'[i].admitted>> \in verdicts'
    BY <1>0, <2>2 DEF QueueInv
  <2>7. QED
    BY <2>4, <2>5, <2>6 DEF QueueInv
<1>4. CASE Die
  BY <1>4 DEF Die, QueueInv
<1>5. ASSUME NEW c \in Cases, Gate(c)
      PROVE  QueueInv'
  <2>1. ASSUME NEW v \in Versions, results' = results,
               job[c].pc = "ready", job' = [job EXCEPT ![c].pc = "gating", ![c].sha = v]
        PROVE  QueueInv'
    <3>1. \A i \in 1 .. Len(results) : results[i].case \in Cases \ {c}
      BY <1>0, <2>1 DEF QueueInv
    <3>2. \A d \in Cases \ {c} : job'[d] = job[d]
      BY <1>0, <2>1
    <3>3. QED
      BY <1>0, <2>1, <3>1, <3>2 DEF QueueInv
  <2>2. ASSUME NEW r \in ResultOK, results' = Append(results, r), r.case = c,
               ~r.err => <<c, r.sha, r.admitted>> \in verdicts',
               job[c].pc \in {"ready", "gating"}, job' = [job EXCEPT ![c].pc = "sent"]
        PROVE  QueueInv'
    <3>1. \A i \in 1 .. Len(results) : results[i].case \in Cases \ {c}
      BY <1>0, <2>2 DEF QueueInv
    <3>2. job'[c].pc = "sent" /\ \A d \in Cases \ {c} : job'[d] = job[d]
      BY <1>0, <2>2 DEF JobOK
    <3>3. \A i \in 1 .. Len(results') :
            \/ i \in 1 .. Len(results) /\ results'[i] = results[i]
            \/ i = Len(results) + 1 /\ results'[i] = r
      BY <1>0, <2>2
    <3>4. \A i \in 1 .. Len(results') : job'[results'[i].case].pc = "sent"
      BY <2>2, <3>1, <3>2, <3>3 DEF QueueInv
    <3>5. \A i, j \in 1 .. Len(results') : i # j => results'[i].case # results'[j].case
      BY <2>2, <3>1, <3>3 DEF QueueInv
    <3>6. \A i \in 1 .. Len(results') :
            ~results'[i].err => <<results'[i].case, results'[i].sha, results'[i].admitted>> \in verdicts'
      BY <1>0, <2>2, <3>3 DEF QueueInv
    <3>7. QED
      BY <3>4, <3>5, <3>6 DEF QueueInv
  <2>3. QED
    BY <1>5, <2>1, <2>2, GateForm
<1>6. CASE Start \/ PollEnds \/ Finish \/ Interrupt
  BY <1>1, <1>6 DEF Start, PollEnds, Finish, Interrupt
<1>7. ASSUME NEW c \in Cases, Retry(c) \/ Edit(c)
      PROVE  QueueInv'
  BY <1>1, <1>7 DEF Retry, Edit
<1>8. ASSUME NEW c \in Cases, NEW k \in Launches, Trial(c, k)
      PROVE  QueueInv'
  BY <1>1, <1>8, TrialFrame DEF watching
<1>9. QED
  BY <1>2, <1>3, <1>4, <1>5, <1>6, <1>7, <1>8 DEF Next, Main, Exit, Crash

----------------------------------------------------------------------------
(* What a scan has read: a pending hash is the one read last, and a scan   *)
(* was quiet only if every known case that it could read is as recorded.   *)
ScanInv ==
  /\ \A c \in Cases : pending[c] # Absent => lastSeen[c] = pending[c]
  /\ main = "quiet" => \A c \in Cases \ unread : known[c] # Absent => known[c] = lastSeen[c]

(* Every step keeps ScanInv.                                               *)
LEMMA ScanInvStep ==
  ASSUME TypeOK, JobInv, QueueInv, ScanInv, Next
  PROVE  ScanInv'
<1>0. /\ known \in [Cases -> Content] /\ pending \in [Cases -> Content]
      /\ lastSeen \in [Cases -> Content] /\ dir \in [Cases -> Content]
  BY DEF TypeOK, StateOK, ScanOK, WorldOK
<1>1. CASE Start
  BY <1>1 DEF Start, ScanInv, seen
<1>2. CASE Scan
  <2>1. PICK U \in SUBSET Cases :
          LET R == {c \in Cases : Present(c)} \ U IN
            /\ ScanReads(R, U)
            /\ main' = "quiet" => Jobs(R) = {} /\ Quiet(pending')
    BY <1>2 DEF Scan
  <2>2. DEFINE R == {c \in Cases : Present(c)} \ U
  <2>3. \A c \in Cases : pending'[c] =
          CASE c \in U -> pending[c]
            [] Changed(c, R) /\ c \notin Jobs(R) -> dir[c]
            [] OTHER -> Absent
    BY <2>1 DEF ScanReads
  <2>4. /\ \A c \in Cases : lastSeen'[c] = IF c \in U THEN lastSeen[c] ELSE dir[c]
        /\ \A c \in Cases : known'[c] = IF c \in Removed THEN Absent ELSE known[c]
        /\ unread' = U
    BY <2>1 DEF ScanReads
  <2>5. \A c \in Cases : pending'[c] # Absent => lastSeen'[c] = pending'[c]
    <3> TAKE c \in Cases
    <3>1. CASE c \in U
      <4>1. pending'[c] = pending[c]
        BY <2>3, <3>1 DEF Changed
      <4>2. QED
        BY <2>4, <3>1, <4>1 DEF ScanInv
    <3>2. CASE c \notin U
      BY <2>3, <2>4, <3>2
    <3>3. QED
      BY <3>1, <3>2
  <2>6. ASSUME main' = "quiet", NEW c \in Cases \ U, known'[c] # Absent
        PROVE  known'[c] = lastSeen'[c]
    <3>1. known'[c] = known[c] /\ c \notin Removed /\ lastSeen'[c] = dir[c]
      BY <2>4, <2>6
    <3>2. Present(c)
      BY <2>6, <3>1 DEF Removed
    <3>3. Jobs(R) = {} /\ pending'[c] = Absent
      BY <2>1, <2>6 DEF Quiet, Blank
    <3>4. ~Changed(c, R)
      BY <2>3, <3>2, <3>3 DEF Present
    <3>5. QED
      BY <2>6, <3>1, <3>2, <3>4 DEF Changed
  <2>7. QED
    BY <2>4, <2>5, <2>6 DEF ScanInv
<1>3. CASE Apply
  <2>1. /\ main = "poll" /\ main' = main /\ pending' = pending /\ results # <<>>
        /\ lastSeen' = [lastSeen EXCEPT ![Head(results).case] =
                          IF Head(results).err THEN @ ELSE Head(results).sha]
    BY <1>3 DEF Apply
  <2>2. Head(results) = results[1] /\ 1 \in 1 .. Len(results)
    BY <2>1 DEF TypeOK, GatesOK
  <2>3. job[Head(results).case].pc = "sent" /\ Head(results).case \in Cases
    BY <2>2, ResultCases DEF QueueInv, TypeOK
  <2>4. pending[Head(results).case] = Absent
    BY <2>3 DEF JobInv
  <2>5. QED
    BY <1>0, <2>1, <2>3, <2>4 DEF ScanInv
<1>4. CASE PollEnds \/ Finish
  BY <1>4 DEF PollEnds, Finish, ScanInv, seen
<1>5. CASE Interrupt
  BY <1>5 DEF Interrupt, ScanInv, seen, state
<1>6. CASE Exit \/ Crash
  BY <1>6 DEF Exit, Crash, Die, ScanInv, Blank
<1>7. ASSUME NEW c \in Cases, Gate(c) \/ Retry(c) \/ Edit(c)
      PROVE  ScanInv'
  BY <1>7, GateFrame DEF Retry, Edit, ScanInv, seen, state
<1>8. ASSUME NEW c \in Cases, NEW k \in Launches, Trial(c, k)
      PROVE  ScanInv'
  BY <1>8, TrialFrame DEF watching, ScanInv, seen, state
<1>9. QED
  BY <1>1, <1>2, <1>3, <1>4, <1>5, <1>6, <1>7, <1>8 DEF Next, Main

----------------------------------------------------------------------------
(* The inductive invariant of the loop.                                    *)
WatchInv == TypeOK /\ JobInv /\ CountInv /\ ListInv /\ QueueInv /\ ScanInv

(* The invariant holds before the first start.                             *)
LEMMA InitInv == Init => WatchInv
<1> SUFFICES ASSUME Init PROVE WatchInv
  OBVIOUS
<1>1. ProcessOK /\ WorldOK
  <2>1. 0 \in 0 .. MaxFails /\ 0 \in 0 .. MaxStarts /\ 0 \in 0 .. MaxEdits
    BY WatchAssumption
  <2>2. QED
    BY <2>1 DEF Init, ProcessOK, WorldOK
<1>2. Blank \in [Cases -> Content] /\ Nobody \in [Cases -> BOOLEAN]
  BY DEF Blank, Nobody
<1>3. StateOK /\ ScanOK
  BY <1>2 DEF Init, StateOK, ScanOK, NoState
<1>4. GatesOK
  <2>1. NoJob \in JobOK /\ <<>> \in Seq(ResultOK)
    BY DEF NoJob, JobOK
  <2>2. QED
    BY <2>1 DEF Init, GatesOK
<1>5. RunnerOK
  <2>1. NoTrial \in TrialOK
    BY DEF NoTrial, TrialOK
  <2>2. trial \in [Cases -> [Launches -> TrialOK]]
    BY <2>1 DEF Init
  <2>3. QED
    BY <2>2 DEF Init, RunnerOK, TrialOK
<1>6. TypeOK
  BY <1>1, <1>3, <1>4, <1>5 DEF TypeOK, Init
<1>7. CountInv
  <2>1. ActiveTrials = {}
    BY DEF Init, ActiveTrials, NoTrial
  <2>2. QED
    BY <2>1, FS_EmptySet DEF Init, CountInv
<1>8. JobInv /\ ListInv /\ QueueInv /\ ScanInv
  BY DEF Init, JobInv, ListInv, QueueInv, ScanInv, NoJob, NoTrial, Blank
<1>9. QED
  BY <1>6, <1>7, <1>8 DEF WatchInv

(* Every step keeps the invariant.                                         *)
LEMMA StepInv == WatchInv /\ [Next]_vars => WatchInv'
<1> SUFFICES ASSUME WatchInv, [Next]_vars PROVE WatchInv'
  OBVIOUS
<1>1. CASE Next
  <2>1. TypeOK /\ JobInv /\ CountInv /\ ListInv /\ QueueInv /\ ScanInv /\ done \subseteq listed
    BY DEF WatchInv, ListInv
  <2>2. TypeOK'
    BY <1>1, <2>1, ProcessStep, WorldStep, StateStep, ScanStep, GatesStep, RunnerStep, VerdictsStep
       DEF TypeOK
  <2>3. JobInv' /\ CountInv' /\ ListInv' /\ QueueInv' /\ ScanInv'
    BY <1>1, <2>1, JobStep, CountStep, ListStep, QueueStep, ScanInvStep
  <2>4. QED
    BY <2>2, <2>3 DEF WatchInv
<1>2. CASE UNCHANGED vars
  BY <1>2 DEF vars, process, world, state, backoff, gates, runner, seen, WatchInv, TypeOK, ProcessOK,
     WorldOK, StateOK, ScanOK, GatesOK, RunnerOK, JobInv, CountInv, ActiveTrials, ListInv, QueueInv, ScanInv
<1>3. QED
  BY <1>1, <1>2

(* The invariant that the theorems rest on.                                *)
THEOREM LoopCorrect == Spec => []WatchInv
BY InitInv, StepInv, PTL DEF Spec

(* Every variable keeps its type, for every directory, width and number of *)
(* edits, failures and restarts; the in-flight count never goes below 0.   *)
THEOREM TypeCorrect == Spec => []TypeOK
BY LoopCorrect, PTL DEF WatchInv

----------------------------------------------------------------------------
(* What the results phase applies is on the record of verdicts.            *)
LEMMA AppliedIsVerdict ==
  ASSUME WatchInv, Apply
  PROVE  /\ Head(results) \in ResultOK
         /\ ~Head(results).err =>
              <<Head(results).case, Head(results).sha, Head(results).admitted>> \in verdicts
<1>1. Head(results) = results[1] /\ 1 \in 1 .. Len(results)
  BY DEF Apply, WatchInv, TypeOK, GatesOK
<1>2. Head(results) \in ResultOK
  BY HeadResult DEF Apply, WatchInv, TypeOK
<1>3. QED
  BY <1>1, <1>2 DEF WatchInv, QueueInv

(* Every step keeps what watch remembers a verdict.                        *)
LEMMA StateIsVerdictStep ==
  ASSUME WatchInv, StateIsVerdict, Next
  PROVE  StateIsVerdict'
<1>0. /\ verdicts \subseteq verdicts'
      /\ known \in [Cases -> Content] /\ admitted \in [Cases -> BOOLEAN]
  BY VerdictsStep DEF WatchInv, TypeOK, StateOK
<1>1. CASE UNCHANGED state
  BY <1>0, <1>1 DEF state, StateIsVerdict, Vouched
<1>2. CASE Start
  BY <1>0, <1>2 DEF Start, StateIsVerdict, Vouched
<1>3. CASE Scan
  <2>1. /\ \A c \in Cases : known'[c] \in {known[c], Absent}
        /\ admitted' = admitted
    BY <1>3 DEF Scan, ScanReads
  <2>2. saved' = saved \/ saved' = [known |-> known', admitted |-> admitted']
    BY <1>3 DEF Scan
  <2>3. \A c \in Cases : known'[c] # Absent => <<c, known'[c], admitted'[c]>> \in verdicts'
    BY <1>0, <2>1 DEF StateIsVerdict, Vouched
  <2>4. QED
    BY <1>0, <2>2, <2>3 DEF StateIsVerdict, Vouched
<1>4. CASE Apply
  <2>1. CASE Head(results).err
    BY <1>1, <1>4, <2>1 DEF Apply, Failed
  <2>2. CASE ~Head(results).err
    <3>1. /\ Head(results).case \in Cases
          /\ <<Head(results).case, Head(results).sha, Head(results).admitted>> \in verdicts'
      BY <1>0, <1>4, <2>2, AppliedIsVerdict DEF ResultOK
    <3>2. /\ known' = [known EXCEPT ![Head(results).case] = Head(results).sha]
          /\ admitted' = [admitted EXCEPT ![Head(results).case] = Head(results).admitted]
          /\ saved' = [known |-> known', admitted |-> admitted']
      BY <1>4, <2>2 DEF Apply, Judged, RecordedHash
    <3>3. \A c \in Cases : known'[c] # Absent => <<c, known'[c], admitted'[c]>> \in verdicts'
      BY <1>0, <3>1, <3>2 DEF StateIsVerdict, Vouched
    <3>4. QED
      BY <3>2, <3>3 DEF StateIsVerdict, Vouched
  <2>3. QED
    BY <2>1, <2>2
<1>5. CASE Exit \/ Crash
  <2>1. known' = Blank /\ saved' \in {saved, NoState}
    BY <1>5 DEF Exit, Crash, Die
  <2>2. QED
    BY <1>0, <2>1 DEF StateIsVerdict, Vouched, Blank, NoState
<1>6. CASE PollEnds \/ Finish \/ Interrupt
  BY <1>1, <1>6 DEF PollEnds, Finish, Interrupt
<1>7. ASSUME NEW c \in Cases, Gate(c) \/ Retry(c) \/ Edit(c)
      PROVE  StateIsVerdict'
  BY <1>1, <1>7, GateFrame DEF Retry, Edit
<1>8. ASSUME NEW c \in Cases, NEW k \in Launches, Trial(c, k)
      PROVE  StateIsVerdict'
  BY <1>1, <1>8, TrialFrame DEF watching
<1>9. QED
  BY <1>2, <1>3, <1>4, <1>5, <1>6, <1>7, <1>8 DEF Next, Main

(* What watch remembers, in memory and in watch-state.json, is always a    *)
(* verdict that a gate reached on exactly those bytes.                     *)
THEOREM StateIsAVerdict == Spec => []StateIsVerdict
<1>1. Init => StateIsVerdict
  BY DEF Init, StateIsVerdict, Vouched, Blank, NoState
<1>2. WatchInv /\ StateIsVerdict /\ [Next]_vars => StateIsVerdict'
  <2> SUFFICES ASSUME WatchInv, StateIsVerdict, [Next]_vars PROVE StateIsVerdict'
    OBVIOUS
  <2>1. CASE UNCHANGED vars
    BY <2>1 DEF vars, state, StateIsVerdict, Vouched
  <2>2. QED
    BY <2>1, StateIsVerdictStep
<1>3. QED
  BY <1>1, <1>2, LoopCorrect, PTL DEF Spec

(* Every step keeps trials on admitted bytes.                              *)
LEMMA TrialsStep ==
  ASSUME WatchInv, TrialsAreOfAdmitted, Next
  PROVE  TrialsAreOfAdmitted'
<1>0. verdicts \subseteq verdicts' /\ TypeOK /\ done \subseteq listed
  BY VerdictsStep DEF WatchInv, ListInv
<1>1. CASE UNCHANGED runner
  BY <1>0, <1>1 DEF runner, TrialsAreOfAdmitted
<1>2. CASE Die
  BY <1>2 DEF Die, TrialsAreOfAdmitted
<1>3. ASSUME NEW c \in Cases, NEW k \in Launches, Trial(c, k)
      PROVE  TrialsAreOfAdmitted'
  <2>1. PICK p \in Holding \union {"ended"} : Goto(c, k, p)
    BY <1>0, <1>3, TrialForm
  <2>2. trial[c][k] # NoTrial
    BY <1>0, <1>3, TrialForm DEF Holding, NoTrial
  <2>3. /\ trial'[c][k].sha = trial[c][k].sha
        /\ \A d \in Cases, j \in Launches : d # c \/ j # k => trial'[d][j] = trial[d][j]
    BY <1>0, <2>1, GotoForm
  <2>4. QED
    BY <1>0, <2>2, <2>3 DEF TrialsAreOfAdmitted
<1>4. ASSUME Apply, ~Head(results).err, Head(results).admitted, Launch(Head(results))
      PROVE  TrialsAreOfAdmitted'
  <2>1. /\ Head(results) \in ResultOK
        /\ <<Head(results).case, Head(results).sha, TRUE>> \in verdicts'
    <3>1. Head(results) \in ResultOK
      BY <1>4, AppliedIsVerdict
    <3>2. Head(results).admitted = TRUE
      BY <1>4, <3>1 DEF ResultOK
    <3>3. QED
      BY <1>0, <1>4, <3>1, <3>2, AppliedIsVerdict
  <2>2. PICK k \in Launches :
          /\ trial'[Head(results).case][k] = [pc |-> "queued", sha |-> Head(results).sha]
          /\ \A d \in Cases, j \in Launches :
               d # Head(results).case \/ j # k => trial'[d][j] = trial[d][j]
    BY <1>0, <1>4, <2>1, NewTrialForm
  <2>3. trial'[Head(results).case][k].sha = Head(results).sha
    BY <2>2
  <2>4. QED
    BY <1>0, <2>1, <2>2, <2>3 DEF TrialsAreOfAdmitted
<1>5. QED
  BY <1>0, <1>1, <1>2, <1>3, <1>4, LaunchForm

(* No trial is started for bytes that no gate has admitted.                *)
THEOREM TrialsAdmitted == Spec => []TrialsAreOfAdmitted
<1>1. Init => TrialsAreOfAdmitted
  BY DEF Init, TrialsAreOfAdmitted
<1>2. WatchInv /\ TrialsAreOfAdmitted /\ [Next]_vars => TrialsAreOfAdmitted'
  BY TrialsStep DEF vars, runner, TrialsAreOfAdmitted
<1>3. QED
  BY <1>1, <1>2, LoopCorrect, PTL DEF Spec

----------------------------------------------------------------------------
(* The per_experiment steps start only when every trial that this process  *)
(* started has ended, with its row in the list, and every known case the   *)
(* last scan could read is as its verdict has it.                          *)
THEOREM FinishComplete == Spec => FinishIsComplete
<1>1. ASSUME WatchInv, [Next]_vars, ~finished, finished'
      PROVE  /\ Started \subseteq listed
             /\ \A c \in Cases, k \in Launches : trial[c][k].pc \in {"none", "ended"}
             /\ \A c \in Cases \ unread : known[c] # Absent => known[c] = lastSeen[c]
  <2>1. main = "quiet" /\ inflight = 0
    <3>1. Finish
      <4>1. ~(UNCHANGED finished \/ Die)
        BY <1>1 DEF Die
      <4>2. ~(Start \/ Scan \/ Apply \/ PollEnds \/ Interrupt \/ Exit \/ Crash)
        BY <4>1 DEF Start, Scan, Apply, PollEnds, Interrupt, Exit, Crash
      <4>3. ~\E c \in Cases : Gate(c) \/ Retry(c) \/ Edit(c)
        BY <4>1, GateFrame DEF Retry, Edit
      <4>4. ~\E c \in Cases, k \in Launches : Trial(c, k)
        BY <4>1, TrialFrame DEF watching
      <4>5. ~UNCHANGED vars
        BY <4>1 DEF vars
      <4>6. QED
        BY <1>1, <4>2, <4>3, <4>4, <4>5 DEF Next, Main
    <3>2. QED
      BY <1>1, <3>1 DEF Finish, NothingInFlight
  <2>2. ActiveTrials = {}
    <3>1. IsFiniteSet(ActiveTrials) /\ Cardinality(ActiveTrials) = 0
      BY <1>1, <2>1, TrialsFinite DEF WatchInv, CountInv, ActiveTrials
    <3>2. QED
      BY <3>1, FS_EmptySet
  <2>3. \A c \in Cases, k \in Launches : trial[c][k].pc \in {"none", "ended"}
    <3>1. ASSUME NEW c \in Cases, NEW k \in Launches, trial[c][k].pc \notin {"none", "ended"}
          PROVE  <<c, k>> \in ActiveTrials
      BY <3>1 DEF ActiveTrials
    <3>2. QED
      BY <2>2, <3>1
  <2>4. Started \subseteq listed
    <3>1. 1 \in Launches
      BY WatchAssumption DEF Launches
    <3>2. QED
      BY <1>1, <2>3, <3>1 DEF Started, WatchInv, ListInv
  <2>5. QED
    BY <1>1, <2>1, <2>3, <2>4 DEF WatchInv, ScanInv
<1>2. QED
  BY <1>1, LoopCorrect, PTL DEF Spec, FinishIsComplete

(* A case that has a verdict is queued for another gate only on bytes that *)
(* this process has read twice in a row; GateOne reads them again.         *)
THEOREM SettledFirst == Spec => SettledBeforeRegate
<1>1. ASSUME WatchInv, [Next]_vars, NEW c \in Cases,
             job[c].pc = "none", job'[c].pc = "ready", known[c] # Absent
      PROVE  lastSeen[c] = job'[c].hash
  <2>0. job \in [Cases -> JobOK]
    BY <1>1 DEF WatchInv, TypeOK, GatesOK
  <2>1. Scan
    <3>1. job' # job
      BY <1>1
    <3>2. ~(Start \/ PollEnds \/ Finish \/ Interrupt)
      BY <3>1 DEF Start, PollEnds, Finish, Interrupt, gates
    <3>3. ~(Exit \/ Crash)
      BY <1>1 DEF Exit, Crash, Die, NoJob
    <3>4. ~Apply
      <4>1. SUFFICES ASSUME Apply PROVE FALSE
        OBVIOUS
      <4>2. job'[c] = job[c] \/ job'[c] = NoJob
        BY <2>0, <4>1 DEF Apply
      <4>3. QED
        BY <1>1, <4>2 DEF NoJob
    <3>5. ~\E d \in Cases : Gate(d)
      <4>1. SUFFICES ASSUME NEW d \in Cases, Gate(d) PROVE FALSE
        OBVIOUS
      <4>2. job[d].pc \in {"ready", "gating"}
        BY <1>1, <4>1, GateForm DEF WatchInv
      <4>3. job'[c] = job[c]
        <5>1. \/ \E v \in Versions : job' = [job EXCEPT ![d].pc = "gating", ![d].sha = v]
              \/ job' = [job EXCEPT ![d].pc = "sent"]
          BY <1>1, <4>1, GateForm DEF WatchInv
        <5>2. QED
          BY <1>1, <2>0, <4>2, <5>1
      <4>4. QED
        BY <1>1, <4>3
    <3>6. ~\E d \in Cases : Retry(d) \/ Edit(d)
      BY <3>1 DEF Retry, Edit, gates
    <3>7. ~\E d \in Cases, k \in Launches : Trial(d, k)
      BY <3>1, TrialFrame DEF watching, gates
    <3>8. ~UNCHANGED vars
      BY <3>1 DEF vars, gates
    <3>9. QED
      BY <1>1, <3>2, <3>3, <3>4, <3>5, <3>6, <3>7, <3>8 DEF Next, Main
  <2>2. PICK U \in SUBSET Cases :
          ScanReads({d \in Cases : Present(d)} \ U, U)
    BY <2>1 DEF Scan
  <2>3. DEFINE R == {d \in Cases : Present(d)} \ U
  <2>4. job'[c] = IF c \in Jobs(R) THEN [NoJob EXCEPT !.pc = "ready", !.hash = dir[c]] ELSE NoJob
    BY <2>2 DEF ScanReads
  <2>5. c \in Jobs(R) /\ job'[c].hash = dir[c]
    BY <1>1, <2>4 DEF NoJob
  <2>6. pending[c] = dir[c] /\ dir[c] # Absent
    BY <1>1, <2>5 DEF Jobs, Due, New, Changed, Settled, Present
  <2>7. QED
    BY <1>1, <2>5, <2>6 DEF WatchInv, ScanInv
<1>2. WatchInv /\ [Next]_vars =>
        [\A c \in Cases : job[c].pc = "none" /\ job'[c].pc = "ready" /\ known[c] # Absent
                           => lastSeen[c] = job'[c].hash]_vars
  BY <1>1
<1>3. QED
  BY <1>2, LoopCorrect, PTL DEF Spec, SettledBeforeRegate
=============================================================================
