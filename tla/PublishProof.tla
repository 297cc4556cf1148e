----------------------------- MODULE PublishProof -----------------------------
(***************************************************************************)
(* Theorems about Publish, for every set of trials, every list of steps    *)
(* and every number of lives, crashes and lost rows.                       *)
(***************************************************************************)
EXTENDS Publish, FiniteSetTheorems, TLAPS

----------------------------------------------------------------------------
(* Typing, in parts.                                                       *)
PhaseOK ==
  /\ phase \in {"down", "gate", "seeded", "running", "steps"} /\ command \in {"run", "ship"}
  /\ cancelled \in BOOLEAN /\ interrupted \in BOOLEAN /\ stranded \in BOOLEAN
  /\ git \in {"no", "added", "committed"} /\ claims \subseteq {"hub", "git"}
  /\ whole \subseteq {"hub", "git"}
  /\ pc \in [Trials -> {"none", "spawned", "working", "counting", "ended"}]

RecordOK ==
  /\ memory \in [Trials -> MaybeRow] /\ rows \in [Trials -> MaybeRow]
  /\ matrix \subseteq Trials /\ lost \subseteq Trials /\ outputs \subseteq Trials

BoundOK ==
  /\ step \in 1 .. Len(Steps) + 1
  /\ faults \in 0 .. MaxFaults /\ crashes \in 0 .. MaxCrashes /\ starts \in 0 .. MaxStarts

SnapOK == snap \in Snapshots(Trials) \union {NoSnapshot}

FilesOK == {dataset, hub, checkout, head, origin} \subseteq Files

LEMMA TypeParts == TypeOK <=> PhaseOK /\ RecordOK /\ BoundOK /\ SnapOK /\ FilesOK
BY DEF TypeOK, PhaseOK, RecordOK, BoundOK, SnapOK, FilesOK

LEMMA InitTyped == Init => TypeOK
<1>1. SUFFICES ASSUME Init PROVE TypeOK
  OBVIOUS
<1>2. PhaseOK
  BY <1>1 DEF Init, PhaseOK
<1>3. RecordOK
  BY <1>1 DEF Init, RecordOK, MaybeRow
<1>4. BoundOK
  BY <1>1, PublishAssumption DEF Init, BoundOK
<1>5. SnapOK /\ FilesOK
  BY <1>1 DEF Init, SnapOK, FilesOK, Files
<1>6. QED
  BY <1>2, <1>3, <1>4, <1>5, TypeParts

(* What a step does, with the groups of unchanged variables spread out.    *)
LEMMA WholeStays == [Next]_vars => whole' = whole
BY DEF vars, Next, StartRun, StartShip, GateFails, GateAdmits, Resume, Close, Trial,
       Begin, AppendRow, Count, PerExperiment, Guard, Dataset, Upload, UploadNothing, GitAdd,
       GitNothingNew, GitCommit, GitPush, GitNothing, EndList, Interrupt, Crash, process

LEMMA PhaseStep == ASSUME TypeOK, Next PROVE PhaseOK'
<1>1. /\ phase' \in {"down", "gate", "seeded", "running", "steps"} /\ command' \in {"run", "ship"}
      /\ git' \in {"no", "added", "committed"}
  BY DEF TypeOK, Next, StartRun, StartShip, GateFails, GateAdmits, Resume, Close, Trial,
         Begin, AppendRow, Count, PerExperiment, Guard, Dataset, Upload, UploadNothing, GitAdd,
         GitNothingNew, GitCommit, GitPush, GitNothing, EndList, Interrupt, Crash, StepPasses,
         StepFails, process, record, live, repository, publication
<1>2. cancelled' \in BOOLEAN /\ interrupted' \in BOOLEAN /\ stranded' \in BOOLEAN
  BY DEF TypeOK, Next, StartRun, StartShip, GateFails, GateAdmits, Resume, Close, Trial,
         Begin, AppendRow, Count, PerExperiment, Guard, Dataset, Upload, UploadNothing, GitAdd,
         GitNothingNew, GitCommit, GitPush, GitNothing, EndList, Interrupt, Crash, StepPasses,
         StepFails, process, record, live, repository, publication
<1>3. claims' \subseteq {"hub", "git"}
  BY DEF TypeOK, Next, StartRun, StartShip, GateFails, GateAdmits, Resume, Close, Trial,
         Begin, AppendRow, Count, PerExperiment, Guard, Dataset, Upload, UploadNothing, GitAdd,
         GitNothingNew, GitCommit, GitPush, GitNothing, EndList, Interrupt, Crash, StepPasses,
         StepFails, process, record, live, repository, publication
<1>4. pc' \in [Trials -> {"none", "spawned", "working", "counting", "ended"}]
  BY DEF TypeOK, Next, StartRun, StartShip, GateFails, GateAdmits, Resume, Close, Trial,
         Begin, AppendRow, Count, PerExperiment, Guard, Dataset, Upload, UploadNothing, GitAdd,
         GitNothingNew, GitCommit, GitPush, GitNothing, EndList, Interrupt, Crash, StepPasses,
         StepFails, process, record, live, repository, publication
<1>5. whole' = whole
  BY WholeStays
<1>6. QED
  BY <1>1, <1>2, <1>3, <1>4, <1>5 DEF PhaseOK, TypeOK

LEMMA BoundStep == ASSUME TypeOK, Next PROVE BoundOK'
BY PublishAssumption
DEF TypeOK, BoundOK, Next, StartRun, StartShip, GateFails, GateAdmits, Resume, Close, Trial,
    Begin, AppendRow, Count, PerExperiment, Guard, Dataset, Upload, UploadNothing, GitAdd,
    GitNothingNew, GitCommit, GitPush, GitNothing, EndList, Interrupt, Crash, StepPasses,
    StepFails, Running, process, record, live, repository, publication
LEMMA RecordStep == ASSUME TypeOK, Next PROVE RecordOK'
<1>1. rows' \in [Trials -> MaybeRow] /\ memory' \in [Trials -> MaybeRow]
  BY DEF TypeOK, MaybeRow, Loaded, Next, StartRun, StartShip, GateFails, GateAdmits, Resume,
         Close,
         Trial, Begin, AppendRow, Count, PerExperiment, Guard, Dataset, Upload, UploadNothing,
         GitAdd, GitNothingNew, GitCommit, GitPush, GitNothing, EndList, Interrupt, Crash,
         record
<1>2. lost' \subseteq Trials
  BY DEF TypeOK, Next, StartRun, StartShip, GateFails, GateAdmits, Resume, Close,
         Trial, Begin, AppendRow, Count, PerExperiment, Guard, Dataset, Upload, UploadNothing,
         GitAdd, GitNothingNew, GitCommit, GitPush, GitNothing, EndList, Interrupt, Crash,
         record
<1>3. matrix' \subseteq Trials
  BY DEF TypeOK, Next, StartRun, StartShip, GateFails, GateAdmits, Resume, Close,
         Trial, Begin, AppendRow, Count, PerExperiment, Guard, Dataset, Upload, UploadNothing,
         GitAdd, GitNothingNew, GitCommit, GitPush, GitNothing, EndList, Interrupt, Crash,
         live
<1>4. outputs' \subseteq Trials
  BY DEF TypeOK, Next, StartRun, StartShip, GateFails, GateAdmits, Resume, Close,
         Trial, Begin, AppendRow, Count, PerExperiment, Guard, Dataset, Upload, UploadNothing,
         GitAdd, GitNothingNew, GitCommit, GitPush, GitNothing, EndList, Interrupt, Crash,
         record
<1>5. QED
  BY <1>1, <1>2, <1>3, <1>4 DEF RecordOK

LEMMA FilesStep == ASSUME TypeOK, Next PROVE FilesOK'
<1>1. ASSUME NEW T \in SUBSET Publishable PROVE File(T) \in Files
  BY DEF Files, Publishable
<1>2. File(Publishable) \in Files
  BY <1>1
<1>3. dataset' \in Files
  BY <1>1, <1>2
  DEF TypeOK, Next, StartRun, StartShip, GateFails, GateAdmits, Resume, Close, Trial,
      Begin, AppendRow, Count, PerExperiment, Guard, Dataset, Upload, UploadNothing, GitAdd,
      GitNothingNew, GitCommit, GitPush, GitNothing, EndList, Interrupt, Crash, repository,
      publication
<1>4. /\ hub' \in {hub, Source("hub")} /\ checkout' \in {checkout, Source("git")}
      /\ head' \in {head, checkout} /\ origin' \in {origin, head}
  BY DEF Next, StartRun, StartShip, GateFails, GateAdmits, Resume, Close, Trial,
      Begin, AppendRow, Count, PerExperiment, Guard, Dataset, Upload, UploadNothing, GitAdd,
      GitNothingNew, GitCommit, GitPush, GitNothing, EndList, Interrupt, Crash, repository,
      publication
<1>5. Source("hub") \in Files /\ Source("git") \in Files
  BY DEF TypeOK, Source, Files
<1>6. QED
  BY <1>3, <1>4, <1>5 DEF TypeOK, FilesOK

(* From the gate to the end of the trials there is a snapshot of this life. *)
SnapGoes == phase \in {"seeded", "running"} => snap \in Snapshots(Trials)

LEMMA Counts == \A S \in SUBSET Trials :
  /\ IsFiniteSet(S) /\ Cardinality(S) \in Nat /\ Cardinality(S) <= Cardinality(Trials)
BY PublishAssumption, FS_Subset, FS_CardinalityType

LEMMA SnapStep == ASSUME TypeOK, SnapGoes, Next PROVE SnapOK' /\ SnapGoes'
<1>1. CASE GateAdmits
  <2>1. PICK M \in SUBSET Trials : snap' = Seeded(Cardinality(M))
    BY <1>1 DEF GateAdmits
  <2>2. Cardinality(M) \in 0 .. Cardinality(Trials)
    BY Counts, PublishAssumption, FS_CardinalityType
  <2>3. snap' \in Snapshots(Trials)
    BY <2>1, <2>2 DEF Seeded, Snapshots
  <2>4. QED
    BY <2>3 DEF SnapOK, SnapGoes
<1>2. CASE Resume
  <2>1. snap \in Snapshots(Trials)
    BY <1>2 DEF Resume, SnapGoes
  <2>2. Cardinality({t \in matrix : Done(t)}) \in Nat
    BY Counts DEF TypeOK
  <2>3. snap' \in Snapshots(Trials)
    BY <1>2, <2>1, <2>2 DEF Resume, WithResumed, Snapshots
  <2>4. QED
    BY <2>3 DEF SnapOK, SnapGoes
<1>3. ASSUME NEW t \in Trials, Begin(t) \/ Count(t) PROVE SnapOK' /\ SnapGoes'
  <2>1. snap \in Snapshots(Trials)
    BY <1>3 DEF Begin, Count, SnapGoes
  <2>2. snap' \in {snap, WithStep(snap, t),
                   WithFinish(snap, t, memory[t] # "infra", memory[t] = "dropped")}
    BY <1>3 DEF Begin, Count
  <2>3. WithStep(snap, t) \in Snapshots(Trials)
    BY <2>1 DEF WithStep, Snapshots
  <2>4. ASSUME NEW m \in BOOLEAN, NEW d \in BOOLEAN
        PROVE  WithFinish(snap, t, m, d) \in Snapshots(Trials)
    <3>1. snap.done + 1 \in Nat /\ snap.dropped + 1 \in Nat /\ snap.failed + 1 \in Nat
      BY <2>1 DEF Snapshots
    <3>2. snap.running \ {t} \in SUBSET Trials
      BY <2>1 DEF Snapshots
    <3>3. QED
      BY <2>1, <3>1, <3>2 DEF WithFinish, Snapshots
  <2>5. snap' \in Snapshots(Trials)
    BY <2>1, <2>2, <2>3, <2>4
  <2>6. QED
    BY <2>5 DEF SnapOK, SnapGoes
<1>4. CASE Close
  <2>1. snap \in Snapshots(Trials)
    BY <1>4 DEF Close, SnapGoes
  <2>2. snap' \in Snapshots(Trials)
    BY <1>4, <2>1 DEF Close, WithClose, Snapshots
  <2>3. QED
    BY <2>2 DEF SnapOK, SnapGoes
<1>5. CASE UNCHANGED snap /\ (phase' = phase \/ phase' \notin {"seeded", "running"})
  BY <1>5 DEF TypeOK, SnapOK, SnapGoes
<1>6. \/ GateAdmits \/ Resume \/ Close \/ \E t \in Trials : Begin(t) \/ Count(t)
      \/ UNCHANGED snap /\ (phase' = phase \/ phase' \notin {"seeded", "running"})
  BY DEF Next, StartRun, StartShip, GateFails, Trial, AppendRow, PerExperiment, Guard, Dataset,
         Upload, UploadNothing, GitAdd, GitNothingNew, GitCommit, GitPush, GitNothing, EndList,
         Interrupt, Crash, StepPasses, StepFails, live
<1>7. QED
  BY <1>1, <1>2, <1>3, <1>4, <1>5, <1>6

Typed == TypeOK /\ SnapGoes

LEMMA StepTyped == ASSUME Typed, [Next]_vars PROVE Typed'
<1>1. CASE UNCHANGED vars
  BY <1>1 DEF vars, repository, Typed, TypeOK, SnapGoes
<1>2. CASE Next
  BY <1>2, PhaseStep, BoundStep, RecordStep, FilesStep, SnapStep
  DEF Typed, TypeOK, PhaseOK, RecordOK, BoundOK, SnapOK, FilesOK
<1>3. QED
  BY <1>1, <1>2

(* TypeOK: every variable has the values the code can give it.             *)
THEOREM Typing == Spec => []TypeOK
<1>1. Init => Typed
  BY InitTyped DEF Typed, SnapGoes, Init
<1>2. Typed => TypeOK
  BY DEF Typed
<1>3. QED
  BY <1>1, <1>2, StepTyped, PTL DEF Spec

----------------------------------------------------------------------------
(* The record.  A life's memory is the file, but for what append lost, and *)
(* only a trial without a row is run.                                      *)
Remembered == phase # "down" => \A t \in Trials : memory[t] = rows[t] \/ t \in lost
Idle == phase # "running" => \A t \in Trials : pc[t] = "none"
Fresh == \A t \in Trials : pc[t] \in {"spawned", "working"} => memory[t] = NoRow

RecordInv == Typed /\ Remembered /\ Idle /\ Fresh

LEMMA RecordInit == Init => RecordInv
BY InitTyped DEF Init, RecordInv, Typed, SnapGoes, Remembered, Idle, Fresh

(* All that a step can do to the record.                                   *)
LEMMA RecordSteps ==
  ASSUME Next
  PROVE  \/ \E t \in Trials : AppendRow(t)
         \/ UNCHANGED <<rows, lost>> /\ (memory' = memory \/ (phase = "down" /\ memory' = rows))
<1>1. CASE StartRun \/ StartShip
  BY <1>1 DEF StartRun, StartShip, Loaded
<1>2. CASE GateFails \/ GateAdmits \/ Resume \/ Close \/ Interrupt \/ Crash
  BY <1>2 DEF GateFails, GateAdmits, Resume, Close, Interrupt, Crash, record
<1>3. ASSUME NEW t \in Trials, Begin(t) \/ Count(t) PROVE UNCHANGED <<memory, rows, lost>>
  BY <1>3 DEF Begin, Count, record
<1>4. CASE PerExperiment
  BY <1>4 DEF PerExperiment, Guard, Dataset, Upload, UploadNothing, GitAdd, GitNothingNew,
              GitCommit, GitPush, GitNothing, EndList, record
<1>5. QED
  BY <1>1, <1>2, <1>3, <1>4 DEF Next, Trial, record

(* All that a step can do to the goroutines.                               *)
LEMMA GoSteps ==
  ASSUME TypeOK, Next
  PROVE  \/ UNCHANGED pc /\ (phase = "running" <=> phase' = "running")
         \/ Resume
         \/ \E t \in Trials : Begin(t) \/ AppendRow(t) \/ Count(t)
         \/ pc' = [t \in Trials |-> "none"] /\ phase' # "running"
<1>1. CASE PerExperiment
  BY <1>1 DEF PerExperiment, Guard, Dataset, Upload, UploadNothing, GitAdd, Running,
       GitNothingNew, GitCommit, GitPush, GitNothing, EndList, StepPasses, StepFails
<1>2. CASE StartRun \/ StartShip \/ GateFails \/ GateAdmits \/ Close \/ Interrupt \/ Crash
  BY <1>2 DEF StartRun, StartShip, GateFails, GateAdmits, Close, Interrupt, Crash
<1>3. QED
  BY <1>1, <1>2 DEF Next, Trial

LEMMA RecordStepInv == ASSUME RecordInv, [Next]_vars PROVE RecordInv'
<1>1. Typed'
  BY StepTyped DEF RecordInv
<1>2. CASE UNCHANGED vars
  BY <1>1, <1>2 DEF vars, RecordInv, Remembered, Idle, Fresh
<1>3. CASE Next
  <2>1. Remembered'
    <3>1. ASSUME NEW s \in Trials, AppendRow(s) PROVE Remembered'
      BY <3>1 DEF AppendRow, RecordInv, Remembered, Typed, TypeOK
    <3>2. ASSUME UNCHANGED <<rows, lost>>, phase = "down" /\ memory' = rows PROVE Remembered'
      BY <3>2 DEF Remembered
    <3>3. phase = "down" /\ memory' # rows => phase' = "down"
      BY <1>3 DEF Next, StartRun, StartShip, Loaded, GateFails, GateAdmits, Resume, Close, Trial,
         Begin, AppendRow, Count, PerExperiment, Guard, Dataset, Upload, UploadNothing, GitAdd,
         GitNothingNew, GitCommit, GitPush, GitNothing, EndList, Interrupt, Crash, Running
    <3>4. QED
      BY <1>3, <3>1, <3>2, <3>3, RecordSteps DEF RecordInv, Remembered
  <2>2. Idle'
    BY <1>3, GoSteps
    DEF RecordInv, Typed, Idle, Resume, Begin, AppendRow, Count
  <2>3. Fresh'
    <3>1. ASSUME NEW s \in Trials, Begin(s) \/ Count(s) PROVE Fresh'
      BY <3>1 DEF Begin, Count, record, RecordInv, Fresh, Typed, TypeOK
    <3>2. ASSUME NEW s \in Trials, AppendRow(s) PROVE Fresh'
      BY <3>2 DEF AppendRow, RecordInv, Fresh, Typed, TypeOK
    <3>3. CASE Resume
      BY <3>3 DEF Resume, Done, record, Fresh, RecordInv, Typed, TypeOK
    <3>4. ASSUME pc' = [t \in Trials |-> "none"] PROVE Fresh'
      BY <3>4 DEF Fresh
    <3>5. ASSUME UNCHANGED pc, \A s \in Trials : ~AppendRow(s) PROVE Fresh'
      BY <1>3, <3>5, RecordSteps DEF RecordInv, Idle, Fresh
    <3>6. QED
      BY <1>3, <3>1, <3>2, <3>3, <3>4, <3>5, GoSteps DEF RecordInv, Typed
  <2>4. QED
    BY <1>1, <2>1, <2>2, <2>3 DEF RecordInv
<1>4. QED
  BY <1>2, <1>3

----------------------------------------------------------------------------
(* A row stays, and so does the mark of one that was lost.                 *)
LEMMA RowStays ==
  ASSUME RecordInv, [Next]_vars, NEW t \in Trials
  PROVE  (rows'[t] = rows[t] \/ rows[t] = NoRow \/ t \in lost) /\ (t \in lost => t \in lost')
<1>1. CASE UNCHANGED <<rows, lost>>
  BY <1>1
<1>2. ASSUME NEW s \in Trials, AppendRow(s) 
      PROVE  (rows'[t] = rows[t] \/ rows[t] = NoRow \/ t \in lost) /\ (t \in lost => t \in lost')
  <2>1. memory[s] = NoRow /\ (rows[s] = NoRow \/ s \in lost)
    BY <1>2 DEF AppendRow, RecordInv, Fresh, Remembered
  <2>2. lost \subseteq lost' /\ (rows' = rows \/ rows' = [rows EXCEPT ![s] = rows'[s]])
    BY <1>2 DEF AppendRow, RecordInv, Typed, TypeOK
  <2>3. QED
    BY <2>1, <2>2 DEF RecordInv, Typed, TypeOK
<1>3. QED
  BY <1>1, <1>2, RecordSteps DEF vars

LEMMA DataStays ==
  ASSUME RecordInv, [Next]_vars, NEW t \in Trials, rows[t] = "data" \/ t \in lost
  PROVE  rows'[t] = "data" \/ t \in lost'
BY RowStays DEF NoRow

(* Nothing but data reaches a destination of the dataset.                  *)
DataOnly(f) == f # NoFile => \A t \in f.trials : t \in Trials /\ (rows[t] = "data" \/ t \in lost)

Shipping ==
  /\ DataOnly(dataset)
  /\ "hub" \notin whole => DataOnly(hub)
  /\ "git" \notin whole => DataOnly(checkout) /\ DataOnly(head) /\ DataOnly(origin)

(* All that a step can do to the destinations.                             *)
LEMMA FileSteps ==
  ASSUME [Next]_vars
  PROVE  /\ hub' \in {hub, Source("hub")} /\ checkout' \in {checkout, Source("git")}
         /\ head' \in {head, checkout} /\ origin' \in {origin, head}
         /\ \/ dataset' = dataset
            \/ phase = "steps" /\ \E T \in SUBSET Publishable : dataset' = File(T)
<1>1. CASE Next
  BY <1>1 DEF Next, StartRun, StartShip, GateFails, GateAdmits, Resume, Close, Trial,
      Begin, AppendRow, Count, PerExperiment, Guard, Dataset, Upload, UploadNothing, GitAdd,
      GitNothingNew, GitCommit, GitPush, GitNothing, EndList, Interrupt, Crash, Running,
      repository, publication
<1>2. CASE UNCHANGED vars
  BY <1>2 DEF vars, repository
<1>3. QED
  BY <1>1, <1>2

LEMMA ShippingStep == ASSUME RecordInv, Shipping, [Next]_vars PROVE Shipping'
<1>1. ASSUME NEW f, NEW g, DataOnly(f), g = f
      PROVE  g # NoFile => \A t \in g.trials : t \in Trials /\ (rows'[t] = "data" \/ t \in lost')
  BY <1>1, DataStays DEF DataOnly
<1>2. ASSUME phase = "steps", NEW T \in SUBSET Publishable, dataset' = File(T)
      PROVE  \A t \in dataset'.trials : t \in Trials /\ (rows'[t] = "data" \/ t \in lost')
  <2>1. \A t \in T : t \in Trials /\ (rows[t] = "data" \/ t \in lost)
    BY <1>2 DEF Publishable, RecordInv, Remembered
  <2>2. QED
    BY <1>2, <2>1, DataStays DEF File
<1>3. DataOnly(dataset)'
  BY <1>1, <1>2, FileSteps DEF Shipping, DataOnly
<1>4. ASSUME "hub" \notin whole PROVE DataOnly(hub)'
  BY <1>1, <1>4, FileSteps DEF Shipping, DataOnly, Source
<1>5. ASSUME "git" \notin whole PROVE DataOnly(checkout)' /\ DataOnly(head)' /\ DataOnly(origin)'
  BY <1>1, <1>5, FileSteps DEF Shipping, DataOnly, Source
<1>6. QED
  BY <1>3, <1>4, <1>5, WholeStays DEF Shipping

(* PublishedIsRecorded: what the dataset and the destinations of steps     *)
(* that name it hold, over every resume, re-ship and crash, is data of the *)
(* record, except rows that append lost.                                   *)
THEOREM Published == Spec => []PublishedIsRecorded
<1>1. Init => RecordInv /\ Shipping
  BY RecordInit DEF Init, Shipping, DataOnly
<1>2. RecordInv /\ Shipping /\ [Next]_vars => RecordInv' /\ Shipping'
  BY RecordStepInv, ShippingStep
<1>3. RecordInv /\ Shipping => PublishedIsRecorded
  BY DEF Shipping, DataOnly, PublishedIsRecorded, DatasetHolders
<1>4. QED
  BY <1>1, <1>2, <1>3, PTL DEF Spec

----------------------------------------------------------------------------
(* A guard that comes first, and holds, has passed before any later step.  *)
Passing == {t \in Trials : rows[t] \in {"data", "infra"} \/ t \in lost}
Passed == Cardinality(Passing) >= MinShipped

GuardInv ==
  GuardFirst => /\ phase = "steps" /\ step > 1 => Passed
                /\ hub # NoFile \/ origin # NoFile \/ head # NoFile \/ checkout # NoFile => Passed

LEMMA PassedStays == ASSUME RecordInv, [Next]_vars, Passed PROVE Passed'
<1>1. Passing \subseteq Passing'
  BY RowStays DEF Passing, NoRow
<1>2. IsFiniteSet(Passing')
  BY PublishAssumption, FS_Subset DEF Passing
<1>3. /\ Cardinality(Passing) <= Cardinality(Passing')
      /\ Cardinality(Passing) \in Nat /\ Cardinality(Passing') \in Nat
  BY <1>1, <1>2, FS_Subset, FS_CardinalityType
<1>4. QED
  BY <1>3, PublishAssumption DEF Passed

(* The guard looks at the memory, which is the file but for what was lost. *)
LEMMA GuardPasses ==
  ASSUME RecordInv, phase = "steps", Cardinality(Shipped) >= MinShipped PROVE Passed
<1>1. Shipped \subseteq Passing
  BY DEF Shipped, Passing, RecordInv, Remembered
<1>2. IsFiniteSet(Passing)
  BY PublishAssumption, FS_Subset DEF Passing
<1>3. /\ Cardinality(Shipped) <= Cardinality(Passing)
      /\ Cardinality(Shipped) \in Nat /\ Cardinality(Passing) \in Nat
  BY <1>1, <1>2, FS_Subset, FS_CardinalityType
<1>4. QED
  BY <1>3, PublishAssumption DEF Passed

LEMMA GuardStep == ASSUME RecordInv, GuardInv, [Next]_vars PROVE GuardInv'
<1>1. SUFFICES ASSUME GuardFirst PROVE GuardInv'
  BY DEF GuardInv, GuardFirst
<1>2. step \in Nat /\ (phase = "steps" /\ step # 1 => step > 1)
  BY DEF RecordInv, Typed, TypeOK
<1>3. CASE Passed
  BY <1>3, PassedStays DEF GuardInv
<1>4. CASE ~Passed
  <2>1. /\ hub = NoFile /\ origin = NoFile /\ head = NoFile /\ checkout = NoFile
        /\ phase = "steps" => step = 1
    BY <1>1, <1>2, <1>4 DEF GuardInv
  <2>2. ~Running("dataset") /\ ~Running("upload") /\ ~Running("ship_github")
    BY <1>1, <2>1 DEF Running, GuardFirst
  <2>3. Guard => phase' = "down"
    BY <1>1, <1>4, <2>1, GuardPasses DEF Guard, Running, StepFails, GuardFirst
  <2>4. UNCHANGED <<hub, origin, head, checkout>> /\ (phase' = "steps" => step' = 1)
    BY <2>1, <2>2, <2>3
    DEF Next, vars, StartRun, StartShip, GateFails, GateAdmits, Resume, Close, Trial, Begin,
        AppendRow, Count, PerExperiment, Guard, Dataset, Upload, UploadNothing, GitAdd,
        GitNothingNew, GitCommit, GitPush, GitNothing, EndList, Interrupt, Crash, repository,
        publication
  <2>5. QED
    BY <2>1, <2>4 DEF GuardInv
<1>5. QED
  BY <1>3, <1>4

(* PublishedPassedGuard: with a guard as the first step that fails the     *)
(* list, nothing is at a destination unless enough trials were kept.       *)
THEOREM Guarded == Spec => []PublishedPassedGuard
<1>1. Init => RecordInv /\ GuardInv
  BY RecordInit DEF Init, GuardInv
<1>2. RecordInv /\ GuardInv /\ [Next]_vars => RecordInv' /\ GuardInv'
  BY RecordStepInv, GuardStep
<1>3. RecordInv /\ GuardInv => PublishedPassedGuard
  BY DEF GuardInv, PublishedPassedGuard, Passed, Passing
<1>4. QED
  BY <1>1, <1>2, <1>3, PTL DEF Spec

----------------------------------------------------------------------------
(* While ship_github is at it, its work tree and then HEAD have what it    *)
(* sends; a commit that has not reached origin is marked.                  *)
Delivery ==
  /\ git # "no" => Running("ship_github") /\ checkout = Source("git")
  /\ git = "committed" => head = Source("git") /\ stranded
  /\ stranded \/ origin = head
  /\ "hub" \in claims => hub = Source("hub")
  /\ "git" \in claims => origin = Source("git") \/ stranded

(* What a step would send changes only when a trial begins and when the    *)
(* dataset is written.                                                     *)
LEMMA SourceStays ==
  ASSUME UNCHANGED <<whole, dataset, outputs>>
  PROVE  \A d \in {"hub", "git"} : Source(d)' = Source(d)
BY DEF Source

LEMMA DeliveryStep == ASSUME TypeOK, Delivery, [Next]_vars PROVE Delivery'
<1>0. whole' = whole
  BY WholeStays
<1>1. CASE UNCHANGED <<phase, step, outputs, publication>>
  BY <1>0, <1>1, SourceStays DEF Delivery, Running, publication, repository
<1>2. CASE UNCHANGED <<git, dataset, outputs, hub, claims, repository>> /\ git = "no"
  BY <1>0, <1>2, SourceStays DEF Delivery, repository
<1>3. CASE Crash
  BY <1>0, <1>3, SourceStays DEF Crash, Delivery, repository, record
<1>4. CASE Guard \/ UploadNothing
  BY <1>0, <1>4, SourceStays
  DEF Guard, UploadNothing, Delivery, Running, StepPasses, StepFails, repository, record
<1>5. CASE Dataset
  BY <1>0, <1>5, SourceStays
  DEF Dataset, Delivery, Running, StepPasses, StepFails, repository, record
<1>6. CASE Upload
  BY <1>0, <1>6, SourceStays
  DEF Upload, Delivery, Running, StepPasses, StepFails, repository, record
<1>7. CASE GitAdd
  BY <1>0, <1>7, SourceStays DEF GitAdd, Delivery, Running, StepPasses, StepFails, record
<1>8. CASE GitNothingNew \/ GitNothing
  <2>1. UNCHANGED <<dataset, outputs, hub, checkout, head, origin, stranded>>
    BY <1>8 DEF GitNothingNew, GitNothing, repository, record
  <2>2. git' = "no"
    BY <1>8 DEF GitNothingNew, GitNothing, StepPasses, StepFails
  <2>3. claims' = claims \/ (claims' = claims \union {"git"} /\ head = Source("git"))
    BY <1>8 DEF GitNothingNew, GitNothing, Delivery
  <2>4. QED
    BY <1>0, <2>1, <2>2, <2>3, SourceStays DEF Delivery
<1>9. CASE GitCommit
  <2>1. UNCHANGED <<dataset, outputs, hub, checkout, origin, claims>> /\ checkout = Source("git")
    BY <1>9 DEF GitCommit, Delivery, record
  <2>2. \/ head' = checkout /\ stranded' = TRUE
        \/ UNCHANGED <<head, stranded>> /\ git' = "no"
    BY <1>9 DEF GitCommit, StepFails, StepPasses
  <2>3. git' = "no" \/ (git' = "committed" /\ Running("ship_github")')
    BY <1>9 DEF GitCommit, StepFails, StepPasses, Running
  <2>4. Source("git")' = Source("git") /\ Source("hub")' = Source("hub")
    BY <1>0, <2>1, SourceStays
  <2>5. stranded' \/ origin' = head'
    BY <2>1, <2>2 DEF Delivery
  <2>6. "git" \in claims' => origin' = Source("git")' \/ stranded'
    BY <2>1, <2>2, <2>4 DEF Delivery
  <2>7. git' = "committed" => head' = Source("git")' /\ stranded'
    BY <2>1, <2>2, <2>4
  <2>8. QED
    BY <2>1, <2>3, <2>4, <2>5, <2>6, <2>7 DEF Delivery
<1>10. CASE GitPush
  <2>1. /\ UNCHANGED <<dataset, outputs, hub, checkout, head>>
        /\ head = Source("git") /\ stranded
    BY <1>10 DEF GitPush, Delivery, record
  <2>2. git' = "no"
    BY <1>10 DEF GitPush, StepPasses, StepFails
  <2>3. (origin' = head /\ claims' = claims \union {"git"}) \/ UNCHANGED <<claims, stranded>>
    BY <1>10 DEF GitPush
  <2>4. Source("git")' = Source("git") /\ Source("hub")' = Source("hub")
    BY <1>0, <2>1, SourceStays
  <2>5. stranded' \/ origin' = head'
    BY <2>1, <2>3
  <2>6. "git" \in claims' => origin' = Source("git")' \/ stranded'
    BY <2>1, <2>3, <2>4
  <2>7. "hub" \in claims' => hub' = Source("hub")'
    <3>1. "hub" \in claims' => "hub" \in claims
      BY <2>3
    <3>2. QED
      BY <2>1, <2>4, <3>1 DEF Delivery
  <2>8. QED
    BY <2>2, <2>5, <2>6, <2>7 DEF Delivery
<1>11. CASE StartRun \/ StartShip \/ GateFails \/ GateAdmits \/ Resume \/ Close \/ EndList
            \/ \E t \in Trials : Trial(t)
  <2>1. git = "no"
    <3>1. ~(phase = "steps" /\ step <= Len(Steps))
      <4>1. step \in Nat /\ Len(Steps) \in Nat
        BY PublishAssumption DEF TypeOK
      <4>2. phase # "steps" \/ step > Len(Steps)
        BY <1>11 DEF StartRun, StartShip, GateFails, GateAdmits, Resume, Close, EndList, Trial,
                     Begin, AppendRow, Count
      <4>3. QED
        BY <4>1, <4>2
    <3>2. QED
      BY <3>1 DEF Delivery, Running
  <2>2. UNCHANGED <<git, dataset, hub, repository>>
    BY <1>11 DEF StartRun, StartShip, GateFails, GateAdmits, Resume, Close, EndList, Trial, Begin,
                 AppendRow, Count, publication
  <2>3. CASE UNCHANGED <<outputs, claims>>
    BY <1>2, <2>1, <2>2, <2>3
  <2>4. CASE claims' = claims \ whole
    <3>1. \A d \in {"hub", "git"} \ whole : Source(d)' = Source(d)
      BY <1>0, <2>2 DEF Source
    <3>2. "git" \in claims' => "git" \in claims /\ Source("git")' = Source("git")
      BY <2>4, <3>1
    <3>3. "hub" \in claims' => "hub" \in claims /\ Source("hub")' = Source("hub")
      BY <2>4, <3>1
    <3>4. QED
      BY <2>1, <2>2, <3>2, <3>3 DEF Delivery, repository
  <2>5. QED
    BY <1>11, <2>3, <2>4 DEF StartRun, StartShip, GateFails, GateAdmits, Resume, Close, EndList,
       Trial, Begin, AppendRow, Count, publication, record
<1>12. CASE Interrupt
  BY <1>1, <1>12 DEF Interrupt, publication, record
<1>13. CASE UNCHANGED vars
  BY <1>1, <1>13 DEF vars, publication, repository
<1>14. QED
  BY <1>3, <1>4, <1>5, <1>6, <1>7, <1>8, <1>9, <1>10, <1>11, <1>12, <1>13
  DEF Next, PerExperiment

(* ShippedMeansThere: a shipping step that returned nil has put what it    *)
(* sends at its destination, ship_github unless a commit is stranded.      *)
THEOREM Delivered == Spec => []ShippedMeansThere
<1>1. Init => Typed /\ Delivery
  BY InitTyped DEF Init, Delivery, Typed, SnapGoes
<1>2. Typed /\ Delivery /\ [Next]_vars => Typed' /\ Delivery'
  BY StepTyped, DeliveryStep DEF Typed
<1>3. Delivery => ShippedMeansThere
  BY DEF Delivery, ShippedMeansThere
<1>4. QED
  BY <1>1, <1>2, <1>3, PTL DEF Spec

----------------------------------------------------------------------------
(* The progress file: what is done in it, what it leaves out, its end.     *)
Counted == {t \in matrix : memory[t] # NoRow /\ pc[t] # "counting"}
Recorded == {t \in matrix : rows[t] # NoRow \/ t \in lost}

Seeding == phase = "seeded" => snap = Seeded(Cardinality(matrix))

Going ==
  phase = "running" =>
    /\ snap.total = Cardinality(matrix) /\ snap.done = Cardinality(Counted)
    /\ snap.running = {t \in Trials : pc[t] \in {"working", "counting"}} /\ ~snap.finished
    /\ \A t \in Trials : pc[t] # "none" => t \in matrix
    /\ \A t \in matrix : pc[t] \in {"none", "counting"} => memory[t] # NoRow
    /\ \A t \in matrix : pc[t] = "ended" => memory[t] # NoRow \/ cancelled

Tally ==
  snap # NoSnapshot =>
    snap.done <= Cardinality(Recorded) /\ snap.dropped + snap.failed <= snap.done

Ended ==
  snap # NoSnapshot /\ snap.finished =>
    /\ phase \notin {"seeded", "running"} /\ snap.running = {}
    /\ snap.done = snap.total \/ interrupted

ProgressInv == Seeding /\ Going /\ Tally /\ Ended

LEMMA SnapFields ==
  ASSUME TypeOK, snap # NoSnapshot
  PROVE  /\ snap.total \in Nat /\ snap.done \in Nat /\ snap.dropped \in Nat /\ snap.failed \in Nat
         /\ snap.running \subseteq Trials /\ snap.finished \in BOOLEAN
         /\ snap = [total |-> snap.total, done |-> snap.done, dropped |-> snap.dropped,
                    failed |-> snap.failed, running |-> snap.running, finished |-> snap.finished]
BY DEF TypeOK, Snapshots

LEMMA HasSnap == ASSUME Typed, phase \in {"seeded", "running"} PROVE snap # NoSnapshot
<1>1. snap \in Snapshots(Trials)
  BY DEF Typed, SnapGoes
<1>2. snap.total >= 0 /\ NoSnapshot.total = -1
  BY <1>1, FS_CardinalityType, PublishAssumption DEF Snapshots, NoSnapshot
<1>3. QED
  BY <1>1, <1>2 DEF Snapshots

(* Subsets of the matrix are counted by numbers that grow with them.       *)
LEMMA MatrixCounts ==
  ASSUME matrix \subseteq Trials, NEW S \in SUBSET matrix
  PROVE  /\ IsFiniteSet(S) /\ Cardinality(S) \in Nat
         /\ \A T \in SUBSET S : Cardinality(T) \in Nat /\ Cardinality(T) <= Cardinality(S)
BY PublishAssumption, FS_Subset, FS_CardinalityType

LEMMA AdmitsProgress == ASSUME RecordInv, ProgressInv, GateAdmits PROVE ProgressInv'
<1>1. PICK M \in SUBSET Trials : matrix' = M /\ snap' = Seeded(Cardinality(M))
  BY DEF GateAdmits
<1>2. phase' = "seeded"
  BY DEF GateAdmits
<1>3. snap'.done = 0 /\ snap'.dropped = 0 /\ snap'.failed = 0 /\ ~snap'.finished
  BY <1>1 DEF Seeded
<1>4. Cardinality(Recorded') >= 0
  <2>1. Recorded' \in SUBSET Trials
    BY <1>1 DEF Recorded
  <2>2. QED
    BY <2>1, Counts
<1>5. QED
  BY <1>1, <1>2, <1>3, <1>4 DEF ProgressInv, Seeding, Going, Tally, Ended

LEMMA ResumeProgress == ASSUME RecordInv, ProgressInv, Resume PROVE ProgressInv'
<1>1. snap = Seeded(Cardinality(matrix)) /\ phase' = "running" /\ UNCHANGED <<matrix, record>>
  BY DEF Resume, ProgressInv, Seeding
<1>2. /\ snap' = WithResumed(snap, Cardinality({t \in matrix : Done(t)}))
      /\ pc' = [t \in Trials |-> IF t \in matrix /\ ~Done(t) THEN "spawned" ELSE "none"]
  BY DEF Resume
<1>3. matrix \subseteq Trials
  BY DEF RecordInv, Typed, TypeOK
<1>4. {t \in matrix : Done(t)} = Counted'
  BY <1>1, <1>2, <1>3 DEF Counted, Done, record
<1>5. Cardinality(Counted') \in Nat
  BY <1>3, <1>4, MatrixCounts
<1>6. /\ snap'.total = Cardinality(matrix) /\ snap'.done = Cardinality(Counted')
      /\ snap'.dropped = 0 /\ snap'.failed = 0 /\ snap'.running = {} /\ ~snap'.finished
  <2>1. snap' = [snap EXCEPT !.done = @ + Cardinality(Counted')]
    BY <1>2, <1>4 DEF WithResumed
  <2>2. snap.done = 0 /\ 0 + Cardinality(Counted') = Cardinality(Counted')
    BY <1>1, <1>5 DEF Seeded
  <2>3. QED
    BY <1>1, <2>1, <2>2 DEF Seeded
<1>7. Going'
  <2>1. {t \in Trials : pc'[t] \in {"working", "counting"}} = {}
    BY <1>2
  <2>2. \A t \in Trials : pc'[t] # "none" => t \in matrix /\ pc'[t] = "spawned"
    BY <1>2
  <2>3. \A t \in matrix : pc'[t] = "none" => memory[t] # NoRow
    BY <1>2, <1>3 DEF Done
  <2>4. UNCHANGED memory
    BY <1>1 DEF record
  <2>5. QED
    BY <1>1, <1>3, <1>6, <2>1, <2>2, <2>3, <2>4 DEF Going
<1>8. Tally'
  <2>1. Counted' \subseteq Recorded' /\ Recorded' \subseteq matrix
    BY <1>1, <1>4 DEF Counted, Recorded, record, RecordInv, Remembered, Done, Typed, TypeOK,
                      Resume
  <2>2. Cardinality(Counted') <= Cardinality(Recorded')
    BY <1>3, <2>1, MatrixCounts
  <2>3. QED
    BY <1>5, <1>6, <2>2 DEF Tally
<1>9. QED
  BY <1>1, <1>6, <1>7, <1>8 DEF ProgressInv, Seeding, Ended

LEMMA BeginProgress ==
  ASSUME RecordInv, ProgressInv, NEW t \in Trials, Begin(t) PROVE ProgressInv'
<1>1. /\ phase = "running" /\ pc[t] = "spawned" /\ UNCHANGED <<phase, matrix, interrupted, cancelled>>
      /\ UNCHANGED <<memory, rows, lost>> /\ DOMAIN pc = Trials /\ matrix \subseteq Trials
  BY DEF Begin, record, process, RecordInv, Typed, TypeOK
<1>2. snap # NoSnapshot
  BY <1>1, HasSnap DEF RecordInv
<1>3. \/ cancelled /\ pc' = [pc EXCEPT ![t] = "ended"] /\ UNCHANGED snap
      \/ pc' = [pc EXCEPT ![t] = "working"] /\ snap' = WithStep(snap, t)
  BY DEF Begin
<1>4. /\ UNCHANGED <<snap.total, snap.done, snap.dropped, snap.failed, snap.finished>>
      /\ snap'.running = {s \in Trials : pc'[s] \in {"working", "counting"}}
  <2>1. snap.running = {s \in Trials : pc[s] \in {"working", "counting"}}
    BY <1>1 DEF ProgressInv, Going
  <2>2. CASE pc' = [pc EXCEPT ![t] = "ended"] /\ UNCHANGED snap
    BY <1>1, <2>1, <2>2
  <2>3. CASE pc' = [pc EXCEPT ![t] = "working"] /\ snap' = WithStep(snap, t)
    <3>1. snap'.running = snap.running \union {t}
      BY <1>1, <1>2, <2>3, SnapFields DEF WithStep, RecordInv, Typed
    <3>2. QED
      BY <1>1, <1>2, <2>1, <2>3, <3>1, SnapFields DEF WithStep, RecordInv, Typed
  <2>4. QED
    BY <1>3, <2>2, <2>3
<1>5. Counted' = Counted /\ Recorded' = Recorded
  BY <1>1, <1>3 DEF Counted, Recorded
<1>6. Going'
  BY <1>1, <1>3, <1>4, <1>5 DEF ProgressInv, Going
<1>7. Tally'
  BY <1>1, <1>2, <1>4, <1>5 DEF ProgressInv, Tally
<1>8. QED
  BY <1>1, <1>4, <1>6, <1>7 DEF ProgressInv, Seeding, Going, Ended

LEMMA AppendProgress ==
  ASSUME RecordInv, ProgressInv, NEW t \in Trials, AppendRow(t) PROVE ProgressInv'
<1>1. /\ phase = "running" /\ pc[t] = "working" /\ UNCHANGED <<phase, snap, matrix, interrupted, cancelled>>
      /\ pc' = [pc EXCEPT ![t] = "counting"] /\ memory'[t] # NoRow
      /\ \A s \in Trials : s # t => memory'[s] = memory[s]
      /\ matrix \subseteq Trials /\ DOMAIN pc = Trials
  BY DEF AppendRow, process, live, Row, NoRow, RecordInv, Typed, TypeOK
<1>2. snap # NoSnapshot
  BY <1>1, HasSnap DEF RecordInv
<1>3. memory[t] = NoRow
  BY <1>1 DEF RecordInv, Fresh
<1>4. Counted' = Counted
  BY <1>1, <1>3 DEF Counted
<1>5. Recorded \subseteq Recorded'
  BY <1>1 DEF AppendRow, Recorded, Row, NoRow, RecordInv, Typed, TypeOK
<1>6. Going'
  <2>1. {s \in Trials : pc'[s] \in {"working", "counting"}} = {s \in Trials : pc[s] \in {"working", "counting"}}
    BY <1>1
  <2>2. QED
    BY <1>1, <1>4, <2>1 DEF ProgressInv, Going
<1>7. Tally'
  <2>1. /\ Cardinality(Recorded) <= Cardinality(Recorded')
        /\ Cardinality(Recorded) \in Nat /\ Cardinality(Recorded') \in Nat
    <3>1. Recorded' \in SUBSET matrix
      BY <1>1 DEF Recorded
    <3>2. QED
      BY <1>1, <1>5, <3>1, MatrixCounts
  <2>2. snap.done \in Nat
    BY <1>1, <1>2, SnapFields DEF RecordInv, Typed
  <2>3. QED
    BY <1>1, <1>2, <2>1, <2>2 DEF ProgressInv, Tally
<1>8. QED
  BY <1>1, <1>6, <1>7 DEF ProgressInv, Seeding, Ended

LEMMA CountProgress ==
  ASSUME RecordInv, ProgressInv, NEW t \in Trials, Count(t) PROVE ProgressInv'
<1>1. /\ phase = "running" /\ pc[t] = "counting" /\ UNCHANGED <<phase, matrix, interrupted, cancelled>>
      /\ UNCHANGED <<memory, rows, lost>> /\ pc' = [pc EXCEPT ![t] = "ended"]
      /\ DOMAIN pc = Trials /\ matrix \subseteq Trials
  BY DEF Count, record, process, RecordInv, Typed, TypeOK
<1>2. snap # NoSnapshot
  BY <1>1, HasSnap DEF RecordInv
<1>3. /\ t \in matrix /\ memory[t] # NoRow /\ snap.done = Cardinality(Counted)
      /\ snap.running = {s \in Trials : pc[s] \in {"working", "counting"}}
  BY <1>1 DEF ProgressInv, Going
<1>4. /\ snap.done \in Nat /\ snap.dropped \in Nat /\ snap.failed \in Nat
      /\ snap.dropped + snap.failed <= snap.done
  BY <1>2, SnapFields DEF RecordInv, Typed, ProgressInv, Tally
<1>5. /\ UNCHANGED <<snap.total, snap.finished>> /\ snap'.done = snap.done + 1
      /\ snap'.running = snap.running \ {t}
      /\ \/ snap'.dropped = snap.dropped + 1 /\ snap'.failed = snap.failed
         \/ snap'.dropped = snap.dropped /\ snap'.failed \in {snap.failed, snap.failed + 1}
  <2>1. PICK m \in BOOLEAN, d \in BOOLEAN : snap' = WithFinish(snap, t, m, d)
    BY DEF Count
  <2>2. QED
    BY <1>2, <2>1, SnapFields DEF WithFinish, RecordInv, Typed
<1>6. Counted' = Counted \union {t} /\ t \notin Counted /\ Recorded' = Recorded
  BY <1>1, <1>3 DEF Counted, Recorded
<1>7. /\ Cardinality(Counted') = Cardinality(Counted) + 1
      /\ Cardinality(Counted') \in Nat /\ Cardinality(Recorded) \in Nat
      /\ Cardinality(Counted') <= Cardinality(Recorded)
  <2>1. IsFiniteSet(Counted) /\ Recorded \in SUBSET matrix
    BY <1>1, PublishAssumption, FS_Subset DEF Counted, Recorded
  <2>2. Cardinality(Counted') = Cardinality(Counted) + 1
    BY <1>6, <2>1, FS_AddElement
  <2>3. Counted' \in SUBSET Recorded
    BY <1>1, <1>3, <1>6 DEF Counted, Recorded, RecordInv, Remembered
  <2>4. QED
    BY <1>1, <2>1, <2>2, <2>3, MatrixCounts
<1>8. Going'
  <2>1. snap'.running = {s \in Trials : pc'[s] \in {"working", "counting"}}
    BY <1>1, <1>3, <1>5
  <2>2. QED
    BY <1>1, <1>3, <1>5, <1>7, <2>1 DEF ProgressInv, Going
<1>9. Tally'
  BY <1>3, <1>4, <1>5, <1>6, <1>7 DEF Tally
<1>10. QED
  BY <1>1, <1>8, <1>9 DEF ProgressInv, Seeding, Going, Ended

LEMMA CloseProgress == ASSUME RecordInv, ProgressInv, Close PROVE ProgressInv'
<1>1. /\ phase = "running" /\ \A t \in Trials : pc[t] \in {"none", "ended"}
      /\ phase' = "steps" /\ interrupted' = cancelled /\ snap' = WithClose(snap)
      /\ UNCHANGED <<matrix, memory, rows, lost>> /\ matrix \subseteq Trials
  BY DEF Close, record, RecordInv, Typed, TypeOK
<1>2. snap # NoSnapshot
  BY <1>1, HasSnap DEF RecordInv
<1>3. UNCHANGED <<snap.total, snap.done, snap.dropped, snap.failed, snap.running>>
  BY <1>1, <1>2, SnapFields DEF WithClose, RecordInv, Typed
<1>4. /\ snap.running = {} /\ snap.total = Cardinality(matrix)
      /\ snap.done = Cardinality(Counted)
  BY <1>1 DEF ProgressInv, Going
<1>5. cancelled \/ Counted = matrix
  BY <1>1 DEF ProgressInv, Going, Counted
<1>6. Ended'
  BY <1>1, <1>3, <1>4, <1>5 DEF Ended
<1>7. Tally'
  <2>1. Recorded' = Recorded
    BY <1>1 DEF Recorded
  <2>2. QED
    BY <1>2, <1>3, <2>1 DEF ProgressInv, Tally
<1>8. QED
  BY <1>1, <1>6, <1>7 DEF ProgressInv, Seeding, Going

(* Every other step leaves the snapshot, the goroutines and the matrix.    *)
LEMMA OtherProgress ==
  ASSUME RecordInv, ProgressInv, UNCHANGED <<snap, matrix, interrupted, rows, lost>>,
         \/ phase' \notin {"seeded", "running"}
         \/ UNCHANGED <<phase, pc, memory>> /\ (cancelled' = cancelled \/ cancelled' = TRUE)
  PROVE  ProgressInv'
<1>1. Recorded' = Recorded
  BY DEF Recorded
<1>2. Tally' /\ Ended' /\ Seeding'
  <2>1. phase' = phase \/ phase' \notin {"seeded", "running"}
    OBVIOUS
  <2>2. QED
    BY <1>1, <2>1 DEF ProgressInv, Tally, Ended, Seeding
<1>3. CASE phase' \notin {"seeded", "running"}
  BY <1>2, <1>3 DEF ProgressInv, Going
<1>4. CASE UNCHANGED <<phase, pc, memory>> /\ (cancelled' = cancelled \/ cancelled' = TRUE)
  <2>1. Counted' = Counted
    BY <1>4 DEF Counted
  <2>2. Going'
    BY <1>4, <2>1 DEF ProgressInv, Going
  <2>3. QED
    BY <1>2, <2>2 DEF ProgressInv
<1>5. QED
  BY <1>3, <1>4

LEMMA ProgressStep == ASSUME RecordInv, ProgressInv, [Next]_vars PROVE ProgressInv'
<1>1. CASE UNCHANGED vars
  BY <1>1, OtherProgress DEF vars
<1>2. CASE StartRun \/ StartShip \/ GateFails \/ Interrupt \/ Crash
  <2>1. UNCHANGED <<snap, matrix, interrupted, rows, lost>>
    BY <1>2 DEF StartRun, StartShip, GateFails, Interrupt, Crash, live, record
  <2>2. \/ phase' \notin {"seeded", "running"}
        \/ UNCHANGED <<phase, pc, memory>> /\ (cancelled' = cancelled \/ cancelled' = TRUE)
    BY <1>2 DEF StartRun, StartShip, GateFails, Interrupt, Crash, record
  <2>3. QED
    BY <2>1, <2>2, OtherProgress
<1>3. CASE PerExperiment
  <2>1. UNCHANGED <<snap, matrix, interrupted, rows, lost>>
    BY <1>3 DEF PerExperiment, Guard, Dataset, Upload, UploadNothing, GitAdd, GitNothingNew,
                GitCommit, GitPush, GitNothing, EndList, live, record
  <2>2. phase' \notin {"seeded", "running"}
    BY <1>3 DEF PerExperiment, Guard, Dataset, Upload, UploadNothing, GitAdd, GitNothingNew,
                GitCommit, GitPush, GitNothing, EndList, Running, StepPasses, StepFails
  <2>3. QED
    BY <2>1, <2>2, OtherProgress
<1>4. QED
  BY <1>1, <1>2, <1>3, AdmitsProgress, ResumeProgress, BeginProgress, AppendProgress,
     CountProgress, CloseProgress DEF Next, Trial

(* ProgressCountsRecords: progress.json counts nothing that has no row but *)
(* for lost ones, and says finished only when nothing is under way and     *)
(* everything is counted, unless that life was interrupted.                *)
THEOREM Progressing == Spec => []ProgressCountsRecords
<1>1. Init => RecordInv /\ ProgressInv
  <2>1. Init => ProgressInv
    BY DEF Init, ProgressInv, Seeding, Going, Tally, Ended
  <2>2. QED
    BY <2>1, RecordInit
<1>2. RecordInv /\ ProgressInv /\ [Next]_vars => RecordInv' /\ ProgressInv'
  BY RecordStepInv, ProgressStep
<1>3. RecordInv /\ ProgressInv => ProgressCountsRecords
  <2>1. SUFFICES ASSUME RecordInv, ProgressInv, snap # NoSnapshot PROVE ProgressCountsRecords
    BY DEF ProgressCountsRecords
  <2>2. snap.done <= Cardinality(Recorded) /\ snap.dropped + snap.failed <= snap.done
    BY <2>1 DEF ProgressInv, Tally
  <2>3. ASSUME ~StillGoing(snap)
        PROVE  /\ snap.running = {} /\ \A t \in Trials : pc[t] = "none"
               /\ snap.done = snap.total \/ interrupted
    BY <2>1, <2>3 DEF StillGoing, ProgressInv, Ended, RecordInv, Idle
  <2>4. QED
    BY <2>2, <2>3 DEF ProgressCountsRecords, Recorded
<1>4. QED
  BY <1>1, <1>2, <1>3, PTL DEF Spec

===============================================================================
