--------------------------- MODULE TrialRunProof ----------------------------
(***************************************************************************)
(* Theorems about the worker pool of TrialRun, for every matrix, width,    *)
(* number of attempts, per_trial list, crash and restart.  Each invariant  *)
(* is proved from the ones before it; a lemma ...Step has one step per     *)
(* action, or one for all the steps of a goroutine that Effect sums up.    *)
(***************************************************************************)
EXTENDS TrialRun, FiniteSetTheorems, TLAPS

(* Score always answers with one of the outcomes.                          *)
LEMMA OutcomeOfScore ==
  ASSUME NEW e \in Evidence, NEW clean \in BOOLEAN
  PROVE  Score(e, clean) \in Outcome
BY DEF Score, Evidence, Outcome

(* What the end of an attempt does to the typed state.                     *)
LEMMA EndAttemptType ==
  ASSUME TypeOK, NEW t \in Trials, NEW o \in Outcome, EndAttempt(t, o),
         pc[t] \in {"attempt", "command"}
  PROVE  /\ pc' \in [Trials -> PC]
         /\ attempt' \in [Trials -> 0 .. MaxAttempts]
         /\ outcome' \in [Trials -> Outcome]
         /\ execSem' \subseteq Trials
<1>1. /\ pc \in [Trials -> PC] /\ outcome \in [Trials -> Outcome] /\ execSem \subseteq Trials
      /\ attempt \in [Trials -> 0 .. MaxAttempts]
  BY DEF TypeOK
<1>2. MaxAttempts \in Nat
  BY RunAssumption
<1>3. attempt[t] < MaxAttempts => attempt[t] + 1 \in 0 .. MaxAttempts
  BY <1>1, <1>2
<1>4. "attempt" \in PC /\ "packing" \in PC
  BY DEF PC
<1>5. CASE Again(t, o)
  BY <1>1, <1>3, <1>4, <1>5 DEF EndAttempt, Again
<1>6. CASE ~Again(t, o)
  BY <1>1, <1>4, <1>6 DEF EndAttempt
<1>7. QED
  BY <1>5, <1>6

(* What the end of the post steps does to the typed state.                 *)
LEMMA EndPostType ==
  ASSUME TypeOK, NEW t \in Trials, NEW o \in Outcome, NEW d \in BOOLEAN, EndPost(t, o, d)
  PROVE  /\ pc' \in [Trials -> PC]
         /\ outcome' \in [Trials -> Outcome]
         /\ drop' \in [Trials -> BOOLEAN]
         /\ dropped' \subseteq Trials
         /\ postSem' \subseteq Trials
BY DEF TypeOK, EndPost, PC

(* Forgetting goroutines keeps their variables typed.                      *)
LEMMA ForgetType ==
  ASSUME TypeOK, NEW S \in SUBSET Trials, Forget(S)
  PROVE  /\ attempt' \in [Trials -> 0 .. MaxAttempts]
         /\ outcome' \in [Trials -> Outcome]
         /\ ran' \in [Trials -> Ran]
         /\ step' \in [Trials -> 1 .. Len(Steps) + 1]
         /\ drop' \in [Trials -> BOOLEAN]
<1>1. 0 \in 0 .. MaxAttempts /\ 1 \in 1 .. Len(Steps) + 1 /\ "host" \in Outcome /\ "no" \in Ran
  BY RunAssumption DEF Outcome, Ran
<1>2. QED
  BY <1>1 DEF TypeOK, Forget

(* The step counter stays within the list.                                 *)
LEMMA NextStepType ==
  ASSUME TypeOK, NEW t \in Trials, NEW s, InStep(t, s), NextStep(t)
  PROVE  step' \in [Trials -> 1 .. Len(Steps) + 1]
BY RunAssumption DEF TypeOK, InStep, NextStep

(* The upload count stays typed.                                           *)
LEMMA ShippedType ==
  ASSUME TypeOK, NEW t \in Trials, NEW s, MayHaveShipped(t, s)
  PROVE  shipped' \in [Trials -> Nat]
<1>1. shipped \in [Trials -> Nat]
  BY DEF TypeOK
<1>2. QED
  BY <1>1 DEF MayHaveShipped

(* The types hold before the first life.                                   *)
LEMMA TypeInit == Init => TypeOK
<1> SUFFICES ASSUME Init PROVE TypeOK
  OBVIOUS
<1>1. /\ MaxAttempts \in Nat /\ MaxCrashes \in Nat /\ MaxStarts \in Nat /\ Len(Steps) \in Nat
  BY RunAssumption
<1>2. rows \in [Trials -> Seq(Row)]
  BY DEF Init
<1>3. attempt \in [Trials -> 0 .. MaxAttempts] /\ step \in [Trials -> 1 .. Len(Steps) + 1]
  BY <1>1 DEF Init
<1>4. pc \in [Trials -> PC] /\ outcome \in [Trials -> Outcome] /\ evidence \in [Trials -> Evidence]
  BY DEF Init, PC, Outcome, Evidence
<1>5. cancelled \in BOOLEAN /\ torn \in Torn
  BY DEF Init, Torn
<1>6. ran \in [Trials -> Ran] /\ drop \in [Trials -> BOOLEAN]
  BY DEF Init, Ran
<1>7. shipped \in [Trials -> Nat] /\ settled \in [Trials -> Nat] /\ lost \in [Trials -> Nat]
  BY DEF Init
<1>8. /\ phase \in {"down", "running", "finishing"}
      /\ report \in {"none", "draft", "complete", "stopped"}
      /\ execSem \subseteq Trials /\ postSem \subseteq Trials
      /\ done \subseteq Trials /\ dropped \subseteq Trials
  BY DEF Init
<1>9. crashes \in 0 .. MaxCrashes /\ starts \in 0 .. MaxStarts
  BY <1>1 DEF Init
<1>10. QED
  BY <1>2, <1>3, <1>4, <1>5, <1>6, <1>7, <1>8, <1>9 DEF TypeOK

(* Every step keeps the types.                                             *)
LEMMA TypeStep == TypeOK /\ [Next]_vars => TypeOK'
<1> SUFFICES ASSUME TypeOK, [Next]_vars PROVE TypeOK'
  OBVIOUS
<1> USE DEF life, disk, memory, work, post
<1>1. CASE Start
  <2>1. pc' \in [Trials -> PC] /\ done' \subseteq Trials /\ dropped' \subseteq Trials
    BY <1>1 DEF Start, PC, LoadedDone, LoadedDropped
  <2>2. MaxStarts \in Nat /\ starts \in 0 .. MaxStarts
    BY RunAssumption DEF TypeOK
  <2>3. starts' \in 0 .. MaxStarts
    BY <1>1, <2>2 DEF Start
  <2>4. QED
    BY <1>1, <2>1, <2>3 DEF Start, TypeOK
<1>2. ASSUME NEW t \in Trials, CheckContext(t) PROVE TypeOK'
  BY <1>2 DEF CheckContext, TypeOK, PC
<1>3. ASSUME NEW t \in Trials, AcquireExec(t) PROVE TypeOK'
  BY <1>3, RunAssumption DEF AcquireExec, TypeOK, PC
<1>4. ASSUME NEW t \in Trials, ResolveFails(t) PROVE TypeOK'
  BY <1>4, EndAttemptType DEF ResolveFails, TypeOK, Outcome
<1>5. ASSUME NEW t \in Trials, CommandRefused(t) PROVE TypeOK'
  <2>1. Score(evidence[t], FALSE) \in Outcome
    BY OutcomeOfScore DEF TypeOK
  <2>2. ran' \in [Trials -> Ran]
    BY <1>5 DEF CommandRefused, TypeOK, Ran
  <2>3. QED
    BY <1>5, <2>1, <2>2, EndAttemptType DEF CommandRefused, TypeOK
<1>6. ASSUME NEW t \in Trials, CommandStarts(t) PROVE TypeOK'
  BY <1>6 DEF CommandStarts, TypeOK, PC, Evidence, Ran
<1>7. ASSUME NEW t \in Trials, CommandEnds(t) PROVE TypeOK'
  <2>1. PICK e \in Evidence, clean \in BOOLEAN :
          /\ evidence' = [evidence EXCEPT ![t] = e]
          /\ settled' = [settled EXCEPT ![t] = IF Retryable(Score(e, clean)) THEN @ ELSE @ + 1]
          /\ EndAttempt(t, Score(e, clean))
    BY <1>7 DEF CommandEnds
  <2>2. evidence' \in [Trials -> Evidence] /\ settled' \in [Trials -> Nat]
    BY <2>1 DEF TypeOK
  <2>3. Score(e, clean) \in Outcome
    BY OutcomeOfScore
  <2>4. QED
    BY <1>7, <2>1, <2>2, <2>3, EndAttemptType DEF CommandEnds, TypeOK
<1>8. ASSUME NEW t \in Trials, AcquirePost(t) PROVE TypeOK'
  BY <1>8 DEF AcquirePost, TypeOK, PC
<1>9. ASSUME NEW t \in Trials, SkipStep(t) PROVE TypeOK'
  BY <1>9, NextStepType DEF SkipStep, TypeOK
<1>10. ASSUME NEW t \in Trials, StepPasses(t) PROVE TypeOK'
  <2>1. shipped' \in [Trials -> Nat]
    BY <1>10 DEF StepPasses, TypeOK
  <2>2. QED
    BY <1>10, <2>1, NextStepType DEF StepPasses, Due, TypeOK
<1>11. ASSUME NEW t \in Trials, GuardDrops(t) PROVE TypeOK'
  BY <1>11, NextStepType DEF GuardDrops, Due, TypeOK
<1>12. ASSUME NEW t \in Trials, StepWarns(t) PROVE TypeOK'
  BY <1>12, NextStepType, ShippedType DEF StepWarns, Due, TypeOK
<1>13. ASSUME NEW t \in Trials, StepVetoes(t) PROVE TypeOK'
  <2>1. outcome[t] \in Outcome /\ (outcome[t] = "reward") \in BOOLEAN
    BY DEF TypeOK
  <2>2. QED
    BY <1>13, <2>1, EndPostType, ShippedType DEF StepVetoes, TypeOK
<1>14. ASSUME NEW t \in Trials, StepStops(t) PROVE TypeOK'
  <2>1. (IF outcome[t] = "reward" THEN "host" ELSE outcome[t]) \in Outcome
    BY DEF TypeOK, Outcome
  <2>2. QED
    BY <1>14, <2>1, EndPostType, ShippedType DEF StepStops, TypeOK
<1>15. ASSUME NEW t \in Trials, PostDone(t) PROVE TypeOK'
  <2>1. outcome[t] \in Outcome /\ drop[t] \in BOOLEAN
    BY DEF TypeOK
  <2>2. /\ pc' \in [Trials -> PC] /\ outcome' \in [Trials -> Outcome]
        /\ drop' \in [Trials -> BOOLEAN]
        /\ dropped' \subseteq Trials /\ postSem' \subseteq Trials
    BY <1>15, <2>1, EndPostType DEF PostDone
  <2>3. QED
    BY <1>15, <2>2 DEF PostDone, TypeOK
<1>16. ASSUME NEW t \in Trials, AppendRow(t) PROVE TypeOK'
  <2>1. RowOf(t) \in Row
    BY DEF RowOf, Row, TypeOK
  <2>2. done' \subseteq Trials /\ pc' \in [Trials -> PC]
    BY <1>16 DEF AppendRow, TypeOK, PC
  <2>3. /\ rows' \in [Trials -> Seq(Row)] /\ lost' \in [Trials -> Nat]
        /\ torn' \in Torn
    <3>1. CASE RowLands(t)
      BY <2>1, <3>1 DEF RowLands, TypeOK
    <3>2. CASE RowIsLost(t)
      BY <3>2 DEF RowIsLost, TypeOK, Torn
    <3>3. QED
      BY <1>16, <3>1, <3>2 DEF AppendRow
  <2>4. QED
    BY <1>16, <2>2, <2>3, ForgetType DEF AppendRow, TypeOK
<1>17. CASE AllDone
  BY <1>17 DEF AllDone, TypeOK
<1>18. CASE DeclaredReport
  BY <1>18 DEF DeclaredReport, TypeOK
<1>19. CASE CloseOut
  BY <1>19 DEF CloseOut, RunStatus, TypeOK
<1>20. CASE Interrupt
  BY <1>20 DEF Interrupt, TypeOK
<1>21. CASE Crash
  <2>1. PICK left \in [InCommand -> Evidence] :
          evidence' = [t \in Trials |-> IF t \in InCommand THEN left[t] ELSE evidence[t]]
    BY <1>21 DEF Crash
  <2>2. evidence' \in [Trials -> Evidence]
    BY <2>1 DEF TypeOK
  <2>3. torn' \in Torn /\ crashes' \in 0 .. MaxCrashes /\ pc' \in [Trials -> PC]
    <3>1. MaxCrashes \in Nat /\ crashes \in 0 .. MaxCrashes /\ torn \in Torn
      BY RunAssumption DEF TypeOK
    <3>2. torn' \in Torn
      BY <1>21, <3>1, Zenon DEF Crash, Torn
    <3>3. crashes' \in 0 .. MaxCrashes
      BY <1>21, <3>1 DEF Crash
    <3>4. pc' \in [Trials -> PC]
      BY <1>21 DEF Crash, PC
    <3>5. QED
      BY <3>2, <3>3, <3>4
  <2>4. QED
    BY <1>21, <2>2, <2>3, ForgetType DEF Crash, TypeOK
<1>22. CASE UNCHANGED vars
  BY <1>22 DEF vars, TypeOK
<1>23. QED
  BY <1>1, <1>2, <1>3, <1>4, <1>5, <1>6, <1>7, <1>8, <1>9, <1>10, <1>11, <1>12, <1>13,
     <1>14, <1>15, <1>16, <1>17, <1>18, <1>19, <1>20, <1>21, <1>22
     DEF Next, Goroutine, Attempting, PostStep

(* Every reachable state is one the code's variables can be in, for every  *)
(* matrix and every bound: the typing the other invariants rest on.        *)
THEOREM TypeCorrect == Spec => []TypeOK
BY TypeInit, TypeStep, PTL DEF Spec

----------------------------------------------------------------------------
(* What one step of a goroutine, up to the row it appends, can do to the   *)
(* record, to the published artifacts and to the memory of drops.          *)
Busy == {"spawned", "quit", "queued", "attempt", "command", "packing", "post", "report"}

Moves(t) ==
  /\ phase = "running" /\ pc[t] \in Busy
  /\ \E x \in Busy : pc' = [pc EXCEPT ![t] = x] /\ (x = "quit" => cancelled)

Ships(t) ==
  \/ shipped' = shipped
  \/ pc[t] = "post" /\ ~drop[t] /\ shipped' = [shipped EXCEPT ![t] = @ + 1]

Drops(t) ==
  \/ dropped' = dropped /\ pc[t] # "report" /\ pc'[t] # "report"
  \/ /\ pc[t] = "post" /\ pc'[t] = "report"
     /\ dropped' = IF drop'[t] THEN dropped \union {t} ELSE dropped

Before == {"none", "spawned", "quit", "queued", "attempt", "command"}

Settles(t) ==
  \/ settled' = settled /\ (pc'[t] \in Before => pc[t] \in Before)
  \/ /\ pc[t] = "command" /\ pc'[t] = "packing"
     /\ settled' = [settled EXCEPT ![t] = @ + 1]

Effect(t) ==
  /\ Moves(t) /\ Ships(t) /\ Drops(t) /\ Settles(t)
  /\ \A u \in Trials \ {t} : drop'[u] = drop[u]
  /\ UNCHANGED <<life, done, disk>>

(* The end of an attempt moves one goroutine.                              *)
LEMMA AttemptEffect ==
  ASSUME TypeOK, NEW t \in Trials, NEW o, EndAttempt(t, o), phase = "running",
         pc[t] \in {"attempt", "command"}
  PROVE  /\ Moves(t)
         /\ pc'[t] = IF Again(t, o) THEN "attempt" ELSE "packing"
<1>1. pc \in [Trials -> PC]
  BY DEF TypeOK
<1>2. QED
  BY <1>1 DEF EndAttempt, Moves, Busy

(* The end of the steps moves one goroutine and sets its drop.             *)
LEMMA PostEffect ==
  ASSUME TypeOK, NEW t \in Trials, NEW o, NEW d \in BOOLEAN, EndPost(t, o, d),
         phase = "running", pc[t] = "post"
  PROVE  /\ Moves(t) /\ Drops(t)
         /\ pc'[t] = "report"
         /\ \A u \in Trials \ {t} : drop'[u] = drop[u]
<1>1. pc \in [Trials -> PC] /\ drop \in [Trials -> BOOLEAN]
  BY DEF TypeOK
<1>2. drop'[t] = d /\ pc'[t] = "report"
  BY <1>1 DEF EndPost
<1>3. QED
  BY <1>1, <1>2 DEF EndPost, Moves, Drops, Busy

(* A step of the list that stays in the list moves nobody.                 *)
LEMMA InPlaceEffect ==
  ASSUME TypeOK, NEW t \in Trials, phase = "running", pc[t] = "post",
         UNCHANGED <<pc, settled, dropped>>
  PROVE  Moves(t) /\ Drops(t) /\ Settles(t)
<1>1. pc \in [Trials -> PC]
  BY DEF TypeOK
<1>2. pc' = [pc EXCEPT ![t] = "post"]
  BY <1>1
<1>3. QED
  BY <1>2 DEF Moves, Drops, Settles, Busy, Before

(* Only a goroutine in its steps ships.                                    *)
LEMMA MayHaveShippedEffect ==
  ASSUME NEW t \in Trials, NEW s, Due(t, s), MayHaveShipped(t, s)
  PROVE  Ships(t)
BY DEF Due, InStep, MayHaveShipped, Ships

(* Every step of a goroutine but append has the common effect.             *)
LEMMA GoroutineEffect ==
  ASSUME TypeOK, NEW t \in Trials, Goroutine(t), ~AppendRow(t)
  PROVE  Effect(t)
<1> USE DEF life, disk, memory, work, post
<1>0. pc \in [Trials -> PC] /\ drop \in [Trials -> BOOLEAN]
  BY DEF TypeOK
<1>1. CASE CheckContext(t)
  BY <1>0, <1>1 DEF CheckContext, Effect, Moves, Ships, Drops, Settles, Busy, Before
<1>2. CASE AcquireExec(t)
  BY <1>0, <1>2 DEF AcquireExec, Effect, Moves, Ships, Drops, Settles, Busy, Before
<1>3. CASE ResolveFails(t)
  BY <1>0, <1>3, AttemptEffect DEF ResolveFails, Effect, Ships, Drops, Settles, Before
<1>4. CASE CommandRefused(t)
  BY <1>0, <1>4, AttemptEffect DEF CommandRefused, Effect, Ships, Drops, Settles, Before
<1>5. CASE CommandStarts(t)
  BY <1>0, <1>5 DEF CommandStarts, Effect, Moves, Ships, Drops, Settles, Busy, Before
<1>6. CASE CommandEnds(t)
  <2>1. PICK e \in Evidence, clean \in BOOLEAN :
          /\ settled' = [settled EXCEPT ![t] = IF Retryable(Score(e, clean)) THEN @ ELSE @ + 1]
          /\ EndAttempt(t, Score(e, clean))
    BY <1>6 DEF CommandEnds
  <2>2. Moves(t) /\ pc'[t] = IF Again(t, Score(e, clean)) THEN "attempt" ELSE "packing"
    BY <1>6, <2>1, AttemptEffect DEF CommandEnds
  <2>3. settled \in [Trials -> Nat]
    BY DEF TypeOK
  <2>4. Settles(t)
    <3>1. CASE Retryable(Score(e, clean))
      BY <1>6, <2>1, <2>2, <2>3, <3>1 DEF CommandEnds, Settles, Before
    <3>2. CASE ~Retryable(Score(e, clean))
      BY <1>6, <2>1, <2>2, <2>3, <3>2 DEF CommandEnds, Settles, Again, Before
    <3>3. QED
      BY <3>1, <3>2
  <2>5. QED
    BY <1>6, <2>2, <2>4 DEF CommandEnds, Effect, Ships, Drops
<1>7. CASE AcquirePost(t)
  BY <1>0, <1>7 DEF AcquirePost, Effect, Moves, Ships, Drops, Settles, Busy, Before
<1>8. CASE SkipStep(t)
  BY <1>8, InPlaceEffect DEF SkipStep, InStep, Effect, Ships
<1>9. CASE StepPasses(t)
  <2>1. PICK s \in Step : Due(t, s) /\ shipped' = [shipped EXCEPT ![t] = IF s.ships THEN @ + 1 ELSE @]
    BY <1>9 DEF StepPasses
  <2>2. shipped \in [Trials -> Nat]
    BY DEF TypeOK
  <2>3. Ships(t)
    BY <2>1, <2>2 DEF Due, InStep, Ships
  <2>4. phase = "running" /\ pc[t] = "post"
    BY <2>1 DEF Due, InStep
  <2>5. QED
    BY <1>9, <2>3, <2>4, InPlaceEffect DEF StepPasses, Effect
<1>10. CASE GuardDrops(t)
  BY <1>0, <1>10, InPlaceEffect DEF GuardDrops, Due, InStep, Effect, Ships
<1>11. CASE StepWarns(t)
  <2>1. Ships(t) /\ phase = "running" /\ pc[t] = "post"
    BY <1>11, MayHaveShippedEffect DEF StepWarns, Due, InStep
  <2>2. QED
    BY <1>11, <2>1, InPlaceEffect DEF StepWarns, Effect
<1>12. CASE StepVetoes(t)
  <2>1. Ships(t) /\ phase = "running" /\ pc[t] = "post"
    BY <1>12, MayHaveShippedEffect DEF StepVetoes, Due, InStep
  <2>2. QED
    BY <1>12, <2>1, PostEffect DEF StepVetoes, Effect, Settles, Before
<1>13. CASE StepStops(t)
  <2>1. Ships(t) /\ phase = "running" /\ pc[t] = "post"
    BY <1>13, MayHaveShippedEffect DEF StepStops, Due, InStep
  <2>2. QED
    BY <1>13, <2>1, PostEffect DEF StepStops, Effect, Settles, Before
<1>14. CASE PostDone(t)
  BY <1>0, <1>14, PostEffect DEF PostDone, Effect, Ships, Settles, Before
<1>15. QED
  BY <1>1, <1>2, <1>3, <1>4, <1>5, <1>6, <1>7, <1>8, <1>9, <1>10, <1>11, <1>12, <1>13, <1>14
     DEF Goroutine, Attempting, PostStep

----------------------------------------------------------------------------
(* The record and what the process remembers of it.  A goroutine that has  *)
(* not appended works on a trial without a row, and one that has, works on *)
(* a trial whose row is there or was lost by append; between the lives,    *)
(* and while the run is closed out, no goroutine is at work; a life's done *)
(* set is the set of recorded trials and of those whose row it lost.       *)
Lost(t) == lost[t] > 0 /\ pc[t] = "recorded"

RecordInv ==
  /\ \A t \in Trials : pc[t] \in Busy => rows[t] = <<>>
  /\ \A t \in Trials : pc[t] = "recorded" => Recorded(t) \/ lost[t] > 0
  /\ RecordedOnce
  /\ phase # "running" => Finished
  /\ phase # "down" =>
       /\ \A t \in Trials : pc[t] = "none" => Recorded(t)
       /\ \A t \in Trials : Recorded(t) => t \in done
       /\ \A t \in Trials : t \in done => Recorded(t) \/ Lost(t)
       /\ ~cancelled => \A t \in Trials : pc[t] # "quit"

(* A step of a goroutine short of AppendRow preserves RecordInv.           *)
LEMMA RecordMove ==
  ASSUME TypeOK, RecordInv, NEW t \in Trials, Moves(t),
         UNCHANGED <<phase, cancelled, rows, lost, done>>
  PROVE  RecordInv'
<1>1. pc \in [Trials -> PC]
  BY DEF TypeOK
<1>2. PICK x \in Busy : pc' = [pc EXCEPT ![t] = x] /\ (x = "quit" => cancelled)
  BY DEF Moves
<1>3. x \notin {"none", "recorded"} /\ pc[t] # "recorded"
  BY DEF Busy, Moves
<1>4. \A u \in Trials : (Recorded(u)' <=> Recorded(u)) /\ (Lost(u)' <=> Lost(u))
  BY <1>1, <1>2, <1>3 DEF Recorded, Lost
<1>5. QED
  BY <1>1, <1>2, <1>3, <1>4 DEF Moves, RecordInv, RecordedOnce

(* The record is consistent before the first life.                         *)
LEMMA RecordInit == Init => RecordInv
BY DEF Init, RecordInv, RecordedOnce, Finished, Busy, Recorded

(* append touches the row of its own trial.                                *)
LEMMA AppendOthers ==
  ASSUME NEW t \in Trials, AppendRow(t), NEW u \in Trials \ {t}, TypeOK
  PROVE  rows'[u] = rows[u] /\ lost'[u] = lost[u]
<1>1. CASE RowLands(t)
  BY <1>1 DEF RowLands, TypeOK
<1>2. CASE RowIsLost(t)
  BY <1>2 DEF RowIsLost, TypeOK
<1>3. QED
  BY <1>1, <1>2 DEF AppendRow

(* The row that append leaves of its own trial is RowOf, or there is none. *)
LEMMA AppendOwn ==
  ASSUME NEW t \in Trials, AppendRow(t), TypeOK, RecordInv
  PROVE  \/ rows'[t] = << RowOf(t) >> /\ lost' = lost /\ rows' = [rows EXCEPT ![t] = << RowOf(t) >>]
         \/ rows'[t] = <<>> /\ lost' = [lost EXCEPT ![t] = @ + 1] /\ rows' = rows
<1>1. rows[t] = <<>> /\ rows \in [Trials -> Seq(Row)]
  BY DEF AppendRow, RecordInv, Busy, TypeOK
<1>2. CASE RowLands(t)
  BY <1>1, <1>2 DEF RowLands
<1>3. CASE RowIsLost(t)
  BY <1>1, <1>3 DEF RowIsLost
<1>4. QED
  BY <1>2, <1>3 DEF AppendRow

(* Every step keeps the record consistent.                                 *)
LEMMA RecordStep == TypeOK /\ RecordInv /\ [Next]_vars => RecordInv'
<1> SUFFICES ASSUME TypeOK, RecordInv, [Next]_vars PROVE RecordInv'
  OBVIOUS
<1> USE DEF life, disk, memory, work, post
<1>0. pc \in [Trials -> PC] /\ rows \in [Trials -> Seq(Row)] /\ done \subseteq Trials
  BY DEF TypeOK
<1>1. CASE Start
  <2>1. phase' = "running" /\ cancelled' = FALSE /\ rows' = rows /\ done' = LoadedDone
    BY <1>1 DEF Start
  <2>2. pc' = [t \in Trials |-> IF t \in LoadedDone THEN "none" ELSE "spawned"]
    BY <1>1 DEF Start
  <2>3. \A t \in Trials : t \in LoadedDone <=> Recorded(t)
    BY DEF LoadedDone
  <2>4. \A t \in Trials : Recorded(t)' <=> Recorded(t)
    BY <2>1 DEF Recorded
  <2>5. \A t \in Trials : pc'[t] # "quit"
    BY <2>2
  <2>6. \A t \in Trials : pc'[t] \in {"none", "recorded"} => Recorded(t)'
    BY <2>2, <2>3, <2>4
  <2>7. \A t \in Trials : pc'[t] \in Busy => rows'[t] = <<>>
    BY <2>1, <2>2, <2>3 DEF Recorded, Busy
  <2>8. QED
    BY <2>1, <2>3, <2>4, <2>5, <2>6, <2>7 DEF RecordInv, RecordedOnce
<1>2. ASSUME NEW t \in Trials, Goroutine(t), ~AppendRow(t) PROVE RecordInv'
  BY <1>2, GoroutineEffect, RecordMove DEF Effect
<1>3. ASSUME NEW t \in Trials, AppendRow(t) PROVE RecordInv'
  <2>1. /\ phase' = "running" /\ phase = "running" /\ cancelled' = cancelled
        /\ done' = done \union {t} /\ pc' = [pc EXCEPT ![t] = "recorded"]
        /\ pc[t] = "report"
    BY <1>3 DEF AppendRow
  <2>2. rows[t] = <<>>
    BY <2>1 DEF RecordInv, Busy
  <2>3. pc'[t] = "recorded" /\ \A u \in Trials \ {t} : pc'[u] = pc[u]
    BY <1>0, <2>1
  <2>4. \A u \in Trials \ {t} : rows'[u] = rows[u] /\ lost'[u] = lost[u]
    BY <1>3, AppendOthers
  <2>5. Len(rows'[t]) <= 1 /\ (Recorded(t)' \/ lost'[t] > 0)
    <3>1. CASE RowLands(t)
      <4>1. rows'[t] = << RowOf(t) >>
        BY <1>0, <2>2, <3>1 DEF RowLands
      <4>2. QED
        BY <4>1 DEF Recorded
    <3>2. CASE RowIsLost(t)
      <4>1. rows' = rows /\ lost[t] \in Nat /\ lost'[t] = lost[t] + 1
        BY <3>2 DEF RowIsLost, TypeOK
      <4>2. QED
        BY <2>2, <4>1
    <3>3. QED
      BY <1>3, <3>1, <3>2 DEF AppendRow
  <2>6. RecordedOnce'
    BY <2>4, <2>5 DEF RecordedOnce, RecordInv
  <2>7. \A u \in Trials \ {t} : (Recorded(u)' <=> Recorded(u)) /\ (Lost(u)' <=> Lost(u))
    BY <2>3, <2>4 DEF Recorded, Lost
  <2>8. \A u \in Trials : pc'[u] \in Busy => rows'[u] = <<>>
    BY <2>3, <2>4 DEF RecordInv, Busy
  <2>9. \A u \in Trials : pc'[u] = "recorded" => Recorded(u)' \/ lost'[u] > 0
    BY <2>3, <2>4, <2>5, <2>7 DEF RecordInv
  <2>10. \A u \in Trials : pc'[u] = "none" => Recorded(u)'
    BY <2>1, <2>3, <2>7 DEF RecordInv
  <2>11. \A u \in Trials : Recorded(u)' => u \in done'
    BY <2>1, <2>7 DEF RecordInv
  <2>12. \A u \in Trials : u \in done' => Recorded(u)' \/ Lost(u)'
    BY <2>1, <2>3, <2>5, <2>7 DEF RecordInv, Lost
  <2>13. ~cancelled' => \A u \in Trials : pc'[u] # "quit"
    BY <2>1, <2>3 DEF RecordInv
  <2>14. QED
    BY <2>1, <2>6, <2>8, <2>9, <2>10, <2>11, <2>12, <2>13 DEF RecordInv
<1>4. CASE AllDone
  BY <1>4 DEF AllDone, RecordInv, RecordedOnce, Finished, Recorded, Lost
<1>5. CASE DeclaredReport
  BY <1>5 DEF DeclaredReport, RecordInv, RecordedOnce, Finished, Recorded, Lost
<1>6. CASE CloseOut
  BY <1>6 DEF CloseOut, RecordInv, RecordedOnce, Finished, Recorded, Lost
<1>7. CASE Interrupt
  BY <1>7 DEF Interrupt, RecordInv, RecordedOnce, Finished, Recorded, Lost
<1>8. CASE Crash
  <2>1. phase' = "down" /\ rows' = rows /\ pc' = [t \in Trials |-> "none"]
    BY <1>8 DEF Crash
  <2>2. QED
    BY <2>1 DEF RecordInv, RecordedOnce, Finished, Busy
<1>9. CASE UNCHANGED vars
  BY <1>9 DEF vars, RecordInv, RecordedOnce, Finished, Recorded, Lost
<1>10. QED
  BY <1>1, <1>2, <1>3, <1>4, <1>5, <1>6, <1>7, <1>8, <1>9 DEF Next

(* The invariant of the record, which the theorems below rest on.          *)
THEOREM RecordCorrect == Spec => []RecordInv
<1>1. Spec => []TypeOK
  BY TypeCorrect
<1>2. QED
  BY <1>1, RecordInit, RecordStep, PTL DEF Spec

(* Over every interrupt, crash and resume, results.jsonl never holds two   *)
(* rows of one trial (runAll skips what loadDone found), whatever the      *)
(* matrix and the widths.                                                  *)
THEOREM OneRowPerTrial == Spec => []RecordedOnce
<1>1. RecordInv => RecordedOnce
  BY DEF RecordInv
<1>2. QED
  BY <1>1, RecordCorrect, PTL

(* A trial that has its row is never published again, by any life.         *)
THEOREM NoShipAfterRowCorrect == Spec => NoShipAfterRow
<1>1. TypeOK /\ RecordInv /\ [Next]_vars
        => [\A t \in Trials : Recorded(t) => shipped'[t] = shipped[t]]_vars
  <2> SUFFICES ASSUME TypeOK, RecordInv, [Next]_vars, NEW u \in Trials, Recorded(u)
               PROVE  shipped'[u] = shipped[u]
    OBVIOUS
  <2> USE DEF life, disk, memory, work, post
  <2>1. ASSUME NEW t \in Trials, Goroutine(t), ~AppendRow(t) PROVE shipped'[u] = shipped[u]
    <3>1. Ships(t)
      BY <2>1, GoroutineEffect DEF Effect
    <3>2. pc[u] # "post"
      BY DEF RecordInv, Busy, Recorded
    <3>3. shipped \in [Trials -> Nat]
      BY DEF TypeOK
    <3>4. QED
      BY <3>1, <3>2, <3>3 DEF Ships
  <2>2. ASSUME NEW t \in Trials, AppendRow(t) PROVE shipped'[u] = shipped[u]
    BY <2>2 DEF AppendRow
  <2>3. CASE Start \/ AllDone \/ DeclaredReport \/ CloseOut \/ Interrupt \/ Crash
    BY <2>3 DEF Start, AllDone, DeclaredReport, CloseOut, Interrupt, Crash
  <2>4. CASE UNCHANGED vars
    BY <2>4 DEF vars
  <2>5. QED
    BY <2>1, <2>2, <2>3, <2>4 DEF Next
<1>2. QED
  BY <1>1, TypeCorrect, RecordCorrect, PTL DEF Spec, NoShipAfterRow

----------------------------------------------------------------------------
(* What the process remembers of drops is what the file says of them.      *)
DropInv ==
  \A t \in Trials :
    /\ pc[t] \in Busy \ {"report"} => t \notin dropped
    /\ pc[t] = "report" => (t \in dropped <=> drop[t])
    /\ phase # "down" /\ Recorded(t) => (t \in dropped <=> rows[t][Len(rows[t])].dropped)

(* No trial is dropped before the first life.                              *)
LEMMA DropInit == Init => DropInv
BY DEF Init, DropInv, Busy

(* A goroutine that has not appended keeps DropInv.                        *)
LEMMA DropMove ==
  ASSUME TypeOK, RecordInv, DropInv, NEW t \in Trials, Effect(t)
  PROVE  DropInv'
<1>1. pc \in [Trials -> PC] /\ drop \in [Trials -> BOOLEAN]
  BY DEF TypeOK
<1>2. PICK x \in Busy : pc' = [pc EXCEPT ![t] = x]
  BY DEF Effect, Moves
<1>3. pc'[t] = x /\ pc[t] \in Busy /\ \A u \in Trials \ {t} : pc'[u] = pc[u]
  BY <1>1, <1>2 DEF Effect, Moves
<1>4. rows' = rows /\ phase' = phase
  BY DEF Effect, life, disk
<1>5. rows[t] = <<>>
  BY <1>3 DEF RecordInv
<1>6. \A u \in Trials \ {t} : (u \in dropped' <=> u \in dropped) /\ drop'[u] = drop[u]
  BY DEF Effect, Drops
<1>7. \A u \in Trials \ {t} :
        /\ pc'[u] \in Busy \ {"report"} => u \notin dropped'
        /\ pc'[u] = "report" => (u \in dropped' <=> drop'[u])
        /\ phase' # "down" /\ Recorded(u)' => (u \in dropped' <=> rows'[u][Len(rows'[u])].dropped)
  BY <1>3, <1>4, <1>6 DEF DropInv, Recorded
<1>8. /\ pc'[t] \in Busy \ {"report"} => t \notin dropped'
      /\ pc'[t] = "report" => (t \in dropped' <=> drop'[t])
  <2>1. CASE dropped' = dropped /\ pc[t] # "report" /\ pc'[t] # "report"
    BY <1>3, <2>1 DEF DropInv
  <2>2. CASE /\ pc[t] = "post" /\ pc'[t] = "report"
             /\ dropped' = IF drop'[t] THEN dropped \union {t} ELSE dropped
    <3>1. t \notin dropped
      BY <2>2 DEF DropInv, Busy
    <3>2. CASE drop'[t]
      BY <2>2, <3>2
    <3>3. CASE ~drop'[t]
      BY <2>2, <3>1, <3>3
    <3>4. QED
      BY <3>2, <3>3
  <2>3. QED
    BY <2>1, <2>2 DEF Effect, Drops
<1>9. ~Recorded(t)'
  BY <1>4, <1>5 DEF Recorded
<1>10. QED
  BY <1>7, <1>8, <1>9 DEF DropInv

(* Every step keeps DropInv.                                               *)
LEMMA DropStep == TypeOK /\ RecordInv /\ DropInv /\ [Next]_vars => DropInv'
<1> SUFFICES ASSUME TypeOK, RecordInv, DropInv, [Next]_vars PROVE DropInv'
  OBVIOUS
<1> USE DEF life, disk, memory, work, post
<1>0. pc \in [Trials -> PC] /\ rows \in [Trials -> Seq(Row)]
  BY DEF TypeOK
<1>1. CASE Start
  <2>1. /\ rows' = rows /\ dropped' = LoadedDropped
        /\ pc' = [t \in Trials |-> IF t \in LoadedDone THEN "none" ELSE "spawned"]
    BY <1>1 DEF Start
  <2>2. \A t \in Trials : Recorded(t)' <=> Recorded(t)
    BY <2>1 DEF Recorded
  <2>3. \A t \in Trials : pc'[t] \in Busy => ~Recorded(t)
    BY <2>1 DEF LoadedDone, Busy
  <2>4. \A t \in Trials : pc'[t] # "report"
    BY <2>1
  <2>5. \A t \in Trials : t \in dropped' <=> Recorded(t) /\ rows[t][Len(rows[t])].dropped
    BY <2>1 DEF LoadedDropped
  <2>6. QED
    BY <2>1, <2>2, <2>3, <2>4, <2>5 DEF DropInv
<1>2. ASSUME NEW t \in Trials, Goroutine(t), ~AppendRow(t) PROVE DropInv'
  BY <1>2, GoroutineEffect, DropMove
<1>3. ASSUME NEW t \in Trials, AppendRow(t) PROVE DropInv'
  <2>1. /\ phase' = phase /\ phase = "running" /\ dropped' = dropped
        /\ pc' = [pc EXCEPT ![t] = "recorded"] /\ pc[t] = "report"
    BY <1>3 DEF AppendRow
  <2>2. \A u \in Trials \ {t} : drop'[u] = drop[u]
    BY <1>3 DEF AppendRow, Forget
  <2>3. \A u \in Trials \ {t} : rows'[u] = rows[u] /\ pc'[u] = pc[u]
    BY <1>0, <1>3, <2>1, AppendOthers
  <2>4. pc'[t] = "recorded"
    BY <1>0, <2>1
  <2>5. Recorded(t)' => (t \in dropped' <=> rows'[t][Len(rows'[t])].dropped)
    <3>1. CASE rows'[t] = << RowOf(t) >>
      <4>1. rows'[t][Len(rows'[t])].dropped = drop[t]
        BY <3>1 DEF RowOf
      <4>2. QED
        BY <2>1, <4>1 DEF DropInv
    <3>2. CASE rows'[t] = <<>>
      BY <3>2 DEF Recorded
    <3>3. QED
      BY <1>3, <3>1, <3>2, AppendOwn
  <2>6. QED
    BY <2>1, <2>2, <2>3, <2>4, <2>5 DEF DropInv, Recorded, Busy
<1>4. CASE AllDone \/ DeclaredReport \/ CloseOut \/ Interrupt
  BY <1>4 DEF AllDone, DeclaredReport, CloseOut, Interrupt, DropInv, Recorded
<1>5. CASE Crash
  <2>1. phase' = "down" /\ pc' = [t \in Trials |-> "none"]
    BY <1>5 DEF Crash
  <2>2. QED
    BY <2>1 DEF DropInv, Busy
<1>6. CASE UNCHANGED vars
  BY <1>6 DEF vars, DropInv, Recorded
<1>7. QED
  BY <1>1, <1>2, <1>3, <1>4, <1>5, <1>6 DEF Next

(* The set of done trials and the set of dropped trials that a life works  *)
(* with hold every row of results.jsonl at every moment, and of the rows   *)
(* that are not there only those that append has lost in this life: what   *)
(* the per_experiment steps publish is what the record says (snapshot),    *)
(* however many errors of the file append passes over.                     *)
THEOREM MemoryIsDisk == Spec => []MemoryMatchesDisk
<1>1. TypeOK /\ RecordInv /\ DropInv => MemoryMatchesDisk
  <2> SUFFICES ASSUME TypeOK, RecordInv, DropInv, phase # "down", NEW t \in Trials
               PROVE  /\ Recorded(t) => t \in done /\ (t \in dropped <=> rows[t][Len(rows[t])].dropped)
                      /\ t \in done => Recorded(t) \/ (lost[t] > 0 /\ pc[t] = "recorded")
    BY DEF MemoryMatchesDisk, TypeOK
  <2>1. Recorded(t) => t \in done /\ (t \in dropped <=> rows[t][Len(rows[t])].dropped)
    BY DEF RecordInv, DropInv
  <2>2. t \in done => Recorded(t) \/ Lost(t)
    BY DEF RecordInv
  <2>3. QED
    BY <2>1, <2>2 DEF Lost
<1>2. QED
  BY <1>1, TypeCorrect, RecordCorrect, DropInit, DropStep, PTL DEF Spec

----------------------------------------------------------------------------
(* A trial that has not been given its result in this life owes nothing to *)
(* it, nor does one whose row append has lost: its settled commands were   *)
(* lost to crashes and to append.                                          *)
Owing(t) == IF pc[t] \in Before \union {"recorded"} /\ ~Recorded(t) THEN 0 ELSE 1

SettledInv ==
  \A t \in Trials :
    settled[t] <= crashes + lost[t] + Owing(t)

(* No trial is settled before the first life.                              *)
LEMMA SettledInit == Init => SettledInv
BY DEF Init, SettledInv, Owing, Before, Recorded

(* Every step keeps SettledInv.                                            *)
LEMMA SettledStep == TypeOK /\ RecordInv /\ SettledInv /\ [Next]_vars => SettledInv'
<1> SUFFICES ASSUME TypeOK, RecordInv, SettledInv, [Next]_vars, NEW u \in Trials
             PROVE  (settled[u] <= crashes + lost[u] + Owing(u))'
  BY DEF SettledInv
<1> USE DEF life, disk, memory, work, post
<1>0. /\ pc \in [Trials -> PC] /\ settled \in [Trials -> Nat] /\ crashes \in Nat
      /\ lost \in [Trials -> Nat]
  BY DEF TypeOK
<1>1. settled[u] <= crashes + lost[u] + Owing(u)
  BY DEF SettledInv
<1>2. CASE Start
  <2>1. /\ settled' = settled /\ crashes' = crashes /\ lost' = lost /\ (Recorded(u)' <=> Recorded(u))
        /\ pc'[u] = IF Recorded(u) THEN "none" ELSE "spawned"
    <3>1. /\ settled' = settled /\ crashes' = crashes /\ lost' = lost /\ rows' = rows
          /\ pc' = [t \in Trials |-> IF t \in LoadedDone THEN "none" ELSE "spawned"]
      BY <1>2 DEF Start
    <3>2. QED
      BY <3>1 DEF LoadedDone, Recorded
  <2>2. pc[u] \in Before \union {"recorded"}
    <3>1. phase = "down"
      BY <1>2 DEF Start
    <3>2. Finished
      BY <3>1 DEF RecordInv
    <3>3. QED
      BY <3>2 DEF Finished, Before
  <2>3. QED
    BY <1>0, <1>1, <2>1, <2>2 DEF Before, Owing
<1>3. ASSUME NEW t \in Trials, Goroutine(t), ~AppendRow(t)
      PROVE  (settled[u] <= crashes + lost[u] + Owing(u))'
  <2>1. Effect(t)
    BY <1>3, GoroutineEffect
  <2>2. crashes' = crashes /\ lost' = lost /\ (Recorded(u)' <=> Recorded(u))
    BY <2>1 DEF Effect, Recorded
  <2>3. PICK x \in Busy : pc' = [pc EXCEPT ![t] = x]
    BY <2>1 DEF Effect, Moves
  <2>4. CASE u # t
    BY <1>0, <1>1, <2>1, <2>2, <2>3, <2>4 DEF Effect, Settles, Owing
  <2>5. CASE u = t
    <3>1. ~Recorded(u) /\ pc[u] # "recorded" /\ pc'[u] # "recorded"
      BY <1>0, <2>1, <2>3, <2>5 DEF Effect, Moves, RecordInv, Recorded, Busy
    <3>2. CASE settled' = settled /\ (pc'[t] \in Before => pc[t] \in Before)
      BY <1>0, <1>1, <2>2, <2>5, <3>1, <3>2 DEF Owing
    <3>3. CASE /\ pc[t] = "command" /\ pc'[t] = "packing"
               /\ settled' = [settled EXCEPT ![t] = @ + 1]
      BY <1>0, <1>1, <2>2, <2>5, <3>1, <3>3 DEF Owing, Before
    <3>4. QED
      BY <2>1, <3>2, <3>3 DEF Effect, Settles
  <2>6. QED
    BY <2>4, <2>5
<1>4. ASSUME NEW t \in Trials, AppendRow(t)
      PROVE  (settled[u] <= crashes + lost[u] + Owing(u))'
  <2>1. settled' = settled /\ crashes' = crashes /\ pc' = [pc EXCEPT ![t] = "recorded"] /\ pc[t] = "report"
    BY <1>4 DEF AppendRow
  <2>2. CASE u # t
    <3>1. rows'[u] = rows[u] /\ lost'[u] = lost[u] /\ pc'[u] = pc[u]
      BY <1>0, <1>4, <2>1, <2>2, AppendOthers
    <3>2. QED
      BY <1>1, <2>1, <3>1 DEF Owing, Recorded
  <2>3. CASE u = t
    <3>1. settled[u] <= crashes + lost[u] + 1
      BY <1>0, <1>1 DEF Owing
    <3>2. CASE rows'[t] = << RowOf(t) >> /\ lost' = lost
      <4>1. Owing(u)' = 1
        BY <2>3, <3>2 DEF Owing, Recorded
      <4>2. QED
        BY <2>1, <3>1, <3>2, <4>1
    <3>3. CASE lost' = [lost EXCEPT ![t] = @ + 1]
      <4>1. lost'[u] = lost[u] + 1 /\ Owing(u)' \in {0, 1}
        BY <1>0, <2>3, <3>3 DEF Owing
      <4>2. QED
        BY <1>0, <2>1, <3>1, <4>1
    <3>4. QED
      BY <1>4, <3>2, <3>3, AppendOwn
  <2>4. QED
    BY <2>2, <2>3
<1>5. CASE AllDone \/ DeclaredReport \/ CloseOut \/ Interrupt
  BY <1>1, <1>5 DEF AllDone, DeclaredReport, CloseOut, Interrupt, Recorded, Owing
<1>6. CASE Crash
  <2>1. crashes' = crashes + 1 /\ settled' = settled /\ lost' = lost
    BY <1>6 DEF Crash
  <2>2. Owing(u) \in {0, 1} /\ Owing(u)' \in {0, 1}
    BY DEF Owing
  <2>3. QED
    BY <1>0, <1>1, <2>1, <2>2
<1>7. CASE UNCHANGED vars
  BY <1>1, <1>7 DEF vars, Recorded, Owing
<1>8. QED
  BY <1>2, <1>3, <1>4, <1>5, <1>6, <1>7 DEF Next

(* A result is never re-rolled, however many attempts are allowed and      *)
(* however often the run is interrupted and resumed: a trial's command     *)
(* ends in a result once, and once more for each crash and for each row of *)
(* this trial that append lost (attempts, loadDone).                       *)
THEOREM ResultsAreFinal == Spec => []SettledOncePerLoss
<1>1. TypeOK /\ SettledInv => SettledOncePerLoss
  <2> SUFFICES ASSUME TypeOK, SettledInv, NEW t \in Trials PROVE settled[t] <= 1 + crashes + lost[t]
    BY DEF SettledOncePerLoss
  <2>1. settled[t] \in Nat /\ crashes \in Nat /\ lost[t] \in Nat
    BY DEF TypeOK
  <2>2. settled[t] <= crashes + lost[t] + Owing(t) /\ Owing(t) \in {0, 1}
    BY DEF SettledInv, Owing
  <2>3. QED
    BY <2>1, <2>2
<1>2. QED
  BY <1>1, TypeCorrect, RecordCorrect, SettledInit, SettledStep, PTL DEF Spec

----------------------------------------------------------------------------
(* A closing report that reads "complete" is the report of a run directory *)
(* in which every trial of the matrix is recorded, but for rows that       *)
(* append lost (closeOut): nobody quits a run that is not interrupted, and *)
(* no later life takes a row away.                                         *)
THEOREM CompleteIsComplete == Spec => []CompleteReportIsTrue
<1> USE DEF life, disk, memory, work, post
<1>1. Init => CompleteReportIsTrue
  BY DEF Init, CompleteReportIsTrue
<1>2. TypeOK /\ RecordInv /\ CompleteReportIsTrue /\ [Next]_vars => CompleteReportIsTrue'
  <2> SUFFICES ASSUME TypeOK, RecordInv, CompleteReportIsTrue, [Next]_vars, report' = "complete",
                      NEW u \in Trials
               PROVE  Recorded(u)' \/ lost'[u] > 0
    BY DEF CompleteReportIsTrue
  <2>1. CASE CloseOut
    <3>1. ~cancelled /\ phase = "finishing" /\ rows' = rows /\ lost' = lost
      BY <2>1 DEF CloseOut, RunStatus
    <3>2. pc[u] \in {"none", "recorded"} => Recorded(u) \/ lost[u] > 0
      BY <3>1 DEF RecordInv
    <3>3. pc[u] \in {"none", "recorded"}
      BY <3>1 DEF RecordInv, Finished
    <3>4. QED
      BY <3>1, <3>2, <3>3 DEF Recorded
  <2>2. ASSUME NEW t \in Trials, Goroutine(t), ~AppendRow(t) PROVE Recorded(u)' \/ lost'[u] > 0
    <3>1. rows' = rows /\ lost' = lost /\ report' = report
      BY <2>2, GoroutineEffect DEF Effect
    <3>2. QED
      BY <3>1 DEF CompleteReportIsTrue, Recorded
  <2>3. ASSUME NEW t \in Trials, AppendRow(t) PROVE Recorded(u)' \/ lost'[u] > 0
    <3>1. report' = report
      BY <2>3 DEF AppendRow
    <3>2. (Recorded(u) \/ lost[u] > 0) /\ lost \in [Trials -> Nat]
      BY <3>1 DEF TypeOK, CompleteReportIsTrue
    <3>3. CASE u # t
      BY <2>3, <3>2, <3>3, AppendOthers DEF Recorded
    <3>4. CASE u = t
      <4>1. CASE rows'[t] = << RowOf(t) >>
        BY <3>4, <4>1 DEF Recorded
      <4>2. CASE rows' = rows /\ lost' = [lost EXCEPT ![t] = @ + 1]
        <5>1. lost[t] \in Nat /\ lost'[t] = lost[t] + 1
          BY <3>2, <4>2
        <5>2. QED
          BY <3>4, <5>1
      <4>3. QED
        BY <2>3, <4>1, <4>2, AppendOwn
    <3>5. QED
      BY <3>3, <3>4
  <2>4. CASE Start \/ AllDone \/ Interrupt \/ Crash
    BY <2>4 DEF Start, AllDone, Interrupt, Crash, CompleteReportIsTrue, Recorded
  <2>5. CASE DeclaredReport
    BY <2>5 DEF DeclaredReport
  <2>6. CASE UNCHANGED vars
    BY <2>6 DEF vars, CompleteReportIsTrue, Recorded
  <2>7. QED
    BY <2>1, <2>2, <2>3, <2>4, <2>5, <2>6 DEF Next
<1>3. QED
  BY <1>1, <1>2, TypeCorrect, RecordCorrect, PTL DEF Spec

----------------------------------------------------------------------------
(* Once a guard or a veto has dropped a trial, nothing of it is published  *)
(* in that life, and the row that is written for it says so (RunList,      *)
(* execTrial).                                                             *)
THEOREM DropIsFinalCorrect == Spec => DropIsFinal
<1>1. TypeOK /\ RecordInv /\ [Next]_vars
        => [\A t \in Trials : drop[t] /\ phase = "running" =>
              /\ shipped'[t] = shipped[t]
              /\ rows'[t] # rows[t] => rows'[t][Len(rows'[t])].dropped]_vars
  <2> SUFFICES ASSUME TypeOK, RecordInv, [Next]_vars, NEW u \in Trials, drop[u], phase = "running"
               PROVE  /\ shipped'[u] = shipped[u]
                      /\ rows'[u] # rows[u] => rows'[u][Len(rows'[u])].dropped
    OBVIOUS
  <2> USE DEF life, disk, memory, work, post
  <2>1. ASSUME NEW t \in Trials, Goroutine(t), ~AppendRow(t)
        PROVE  shipped'[u] = shipped[u] /\ rows' = rows
    <3>1. Ships(t) /\ rows' = rows
      BY <2>1, GoroutineEffect DEF Effect
    <3>2. shipped \in [Trials -> Nat]
      BY DEF TypeOK
    <3>3. QED
      BY <3>1, <3>2 DEF Ships
  <2>2. ASSUME NEW t \in Trials, AppendRow(t)
        PROVE  /\ shipped' = shipped
               /\ rows'[u] # rows[u] => rows'[u][Len(rows'[u])].dropped
    <3>1. pc[t] = "report" /\ shipped' = shipped
      BY <2>2 DEF AppendRow
    <3>2. CASE u # t
      BY <2>2, <3>1, <3>2, AppendOthers
    <3>3. CASE u = t
      <4>1. rows[t] = <<>>
        BY <3>1 DEF RecordInv, Busy
      <4>2. CASE rows'[t] = << RowOf(t) >>
        BY <3>1, <3>3, <4>2 DEF RowOf
      <4>3. CASE rows'[t] = <<>>
        BY <3>1, <3>3, <4>1, <4>3
      <4>4. QED
        BY <2>2, <4>2, <4>3, AppendOwn
    <3>4. QED
      BY <3>2, <3>3
  <2>3. CASE Start \/ AllDone \/ DeclaredReport \/ CloseOut \/ Interrupt \/ Crash
    BY <2>3 DEF Start, AllDone, DeclaredReport, CloseOut, Interrupt, Crash
  <2>4. CASE UNCHANGED vars
    BY <2>4 DEF vars
  <2>5. QED
    BY <2>1, <2>2, <2>3, <2>4 DEF Next
<1>2. QED
  BY <1>1, TypeCorrect, RecordCorrect, PTL DEF Spec, DropIsFinal

----------------------------------------------------------------------------
(* The worker pool, over all its lives, implements the ledger: a step that *)
(* ships is Publish, an AppendRow whose row lands is Enter, and every      *)
(* other step, a lost row, crashes and restarts included, leaves the       *)
(* ledger alone.                                                           *)
THEOREM LedgerImplemented == Spec => ImplementsLedger
<1>1. Init => Ledger!LedgerInit
  <2> SUFFICES ASSUME Init PROVE Ledger!LedgerInit
    OBVIOUS
  <2>1. \A t \in Trials : ~Recorded(t)
    BY DEF Init, Recorded
  <2>2. shipped = [t \in Trials |-> 0]
    BY DEF Init
  <2>3. QED
    BY <2>1, <2>2 DEF Ledger!LedgerInit
<1>2. TypeOK /\ RecordInv /\ [Next]_vars => [Ledger!LedgerNext]_(Ledger!ledgerVars)
  <2> SUFFICES ASSUME TypeOK, RecordInv, [Next]_vars
               PROVE  [Ledger!LedgerNext]_(Ledger!ledgerVars)
    OBVIOUS
  <2> USE DEF life, disk, memory, work, post
  <2>0. rows \in [Trials -> Seq(Row)] /\ shipped \in [Trials -> Nat]
    BY DEF TypeOK
  <2> DEFINE L == [t \in Trials |-> IF Recorded(t) THEN rows[t][Len(rows[t])] ELSE NoRow]
  <2>1. ASSUME rows' = rows PROVE L' = L
    BY <2>1 DEF Recorded
  <2>2. ASSUME rows' = rows, shipped' = shipped PROVE [Ledger!LedgerNext]_(Ledger!ledgerVars)
    BY <2>1, <2>2 DEF Ledger!ledgerVars
  <2>3. ASSUME NEW t \in Trials, Goroutine(t), ~AppendRow(t)
        PROVE  [Ledger!LedgerNext]_(Ledger!ledgerVars)
    <3>1. Ships(t) /\ rows' = rows
      BY <2>3, GoroutineEffect DEF Effect
    <3>2. CASE shipped' = shipped
      BY <2>2, <3>1, <3>2
    <3>3. CASE pc[t] = "post" /\ shipped' = [shipped EXCEPT ![t] = @ + 1]
      <4>1. L[t] = NoRow
        BY <3>3 DEF RecordInv, Busy, Recorded
      <4>2. L' = L
        BY <2>1, <3>1
      <4>3. Ledger!Publish(t)
        BY <3>3, <4>1, <4>2 DEF Ledger!Publish
      <4>4. QED
        BY <4>3 DEF Ledger!LedgerNext
    <3>4. QED
      BY <3>1, <3>2, <3>3 DEF Ships
  <2>4. ASSUME NEW t \in Trials, AppendRow(t) PROVE [Ledger!LedgerNext]_(Ledger!ledgerVars)
    <3>1. pc[t] = "report" /\ shipped' = shipped
      BY <2>4 DEF AppendRow
    <3>2. rows[t] = <<>>
      BY <3>1 DEF RecordInv, Busy
    <3>3. RowOf(t) \in Row
      BY DEF RowOf, Row, TypeOK
    <3>4. CASE rows' = rows
      BY <2>2, <3>1, <3>4
    <3>5. CASE rows' = [rows EXCEPT ![t] = << RowOf(t) >>]
      <4>1. rows'[t] = << RowOf(t) >> /\ \A u \in Trials \ {t} : rows'[u] = rows[u]
        BY <2>0, <3>5
      <4>2. L' = [L EXCEPT ![t] = RowOf(t)]
        <5>1. L'[t] = RowOf(t)
          BY <4>1 DEF Recorded
        <5>2. ASSUME NEW u \in Trials, u # t PROVE L'[u] = L[u]
          BY <4>1, <5>2 DEF Recorded
        <5>3. QED
          BY <5>1, <5>2
      <4>3. L[t] = NoRow
        BY <3>2 DEF Recorded
      <4>4. Ledger!Enter(t)
        BY <3>1, <3>3, <4>2, <4>3 DEF Ledger!Enter
      <4>5. QED
        BY <4>4 DEF Ledger!LedgerNext
    <3>6. QED
      BY <2>4, <3>4, <3>5, AppendOwn
  <2>5. CASE Start \/ AllDone \/ DeclaredReport \/ CloseOut \/ Interrupt \/ Crash
    BY <2>2, <2>5 DEF Start, AllDone, DeclaredReport, CloseOut, Interrupt, Crash
  <2>6. CASE UNCHANGED vars
    BY <2>2, <2>6 DEF vars
  <2>7. QED
    BY <2>3, <2>4, <2>5, <2>6 DEF Next
<1>3. QED
  BY <1>1, <1>2, TypeCorrect, RecordCorrect, PTL DEF Spec, ImplementsLedger, Ledger!LedgerSpec

----------------------------------------------------------------------------
(* The semaphores: what taking and giving back a slot does to their width. *)
LEMMA SlotsGrow ==
  ASSUME NEW S \in SUBSET Trials, NEW t \in Trials, NEW n \in Nat, Cardinality(S) < n
  PROVE  Cardinality(S \union {t}) <= n
<1>1. IsFiniteSet(S)
  BY RunAssumption, FS_Subset
<1>2. Cardinality(S) \in Nat
  BY <1>1, FS_CardinalityType
<1>3. QED
  BY <1>1, <1>2, FS_AddElement

(* A semaphore that is released is not over its width.                     *)
LEMMA SlotsShrink ==
  ASSUME NEW S \in SUBSET Trials, NEW t, NEW n \in Nat, Cardinality(S) <= n
  PROVE  Cardinality(S \ {t}) <= n
<1>1. IsFiniteSet(S)
  BY RunAssumption, FS_Subset
<1>2. Cardinality(S) \in Nat
  BY <1>1, FS_CardinalityType
<1>3. QED
  BY <1>1, <1>2, FS_RemoveElement

ExecHolders == {t \in Trials : pc[t] \in {"attempt", "command"}}
PostHolders == {t \in Trials : pc[t] = "post"}

(* The end of an attempt releases the execution slot with it.              *)
LEMMA SlotAttempt ==
  ASSUME TypeOK, SlotDiscipline, NEW t \in Trials, NEW o, EndAttempt(t, o),
         pc[t] \in {"attempt", "command"}, postSem' = postSem
  PROVE  SlotDiscipline'
<1>1. pc \in [Trials -> PC] /\ execSem \in SUBSET Trials /\ ExecSlots \in Nat
  BY RunAssumption DEF TypeOK
<1>2. CASE Again(t, o)
  BY <1>1, <1>2 DEF EndAttempt, SlotDiscipline
<1>3. CASE ~Again(t, o)
  <2>1. execSem' = execSem \ {t} /\ pc' = [pc EXCEPT ![t] = "packing"]
    BY <1>3 DEF EndAttempt
  <2>2. Cardinality(execSem') <= ExecSlots
    BY <1>1, <2>1, SlotsShrink DEF SlotDiscipline
  <2>3. execSem' = ExecHolders' /\ PostHolders' = PostHolders
    BY <1>1, <2>1 DEF SlotDiscipline, ExecHolders, PostHolders
  <2>4. QED
    BY <2>2, <2>3 DEF SlotDiscipline, ExecHolders, PostHolders
<1>4. QED
  BY <1>2, <1>3

(* The end of the steps releases the post slot with it.                    *)
LEMMA SlotPost ==
  ASSUME TypeOK, SlotDiscipline, NEW t \in Trials, NEW o, NEW d, EndPost(t, o, d),
         pc[t] = "post", execSem' = execSem
  PROVE  SlotDiscipline'
<1>1. pc \in [Trials -> PC] /\ postSem \in SUBSET Trials /\ PostSlots \in Nat
  BY RunAssumption DEF TypeOK
<1>2. postSem' = postSem \ {t} /\ pc' = [pc EXCEPT ![t] = "report"]
  BY DEF EndPost
<1>3. Cardinality(postSem') <= PostSlots
  BY <1>1, <1>2, SlotsShrink DEF SlotDiscipline
<1>4. postSem' = PostHolders' /\ ExecHolders' = ExecHolders
  BY <1>1, <1>2 DEF SlotDiscipline, ExecHolders, PostHolders
<1>5. QED
  BY <1>3, <1>4 DEF SlotDiscipline, ExecHolders, PostHolders

(* A step that touches no semaphore and no holder.                         *)
LEMMA SlotSame ==
  ASSUME SlotDiscipline, UNCHANGED <<execSem, postSem>>,
         ExecHolders' = ExecHolders, PostHolders' = PostHolders
  PROVE  SlotDiscipline'
BY DEF SlotDiscipline, ExecHolders, PostHolders

(* No slot is held before the first life.                                  *)
LEMMA SlotInit == Init => SlotDiscipline
<1> SUFFICES ASSUME Init PROVE SlotDiscipline
  OBVIOUS
<1>1. ExecSlots \in Nat /\ PostSlots \in Nat /\ Cardinality({}) = 0
  BY RunAssumption, FS_EmptySet
<1>2. execSem = {} /\ postSem = {} /\ pc = [t \in Trials |-> "none"]
  BY DEF Init
<1>3. QED
  BY <1>1, <1>2 DEF SlotDiscipline

(* Every step keeps slots and holders together.                            *)
LEMMA SlotStep == TypeOK /\ RecordInv /\ SlotDiscipline /\ [Next]_vars => SlotDiscipline'
<1> SUFFICES ASSUME TypeOK, RecordInv, SlotDiscipline, [Next]_vars PROVE SlotDiscipline'
  OBVIOUS
<1> USE DEF life, disk, memory, work, post
<1>0. /\ pc \in [Trials -> PC] /\ execSem \in SUBSET Trials /\ postSem \in SUBSET Trials
      /\ ExecSlots \in Nat /\ PostSlots \in Nat
  BY RunAssumption DEF TypeOK
<1>1. CASE Start
  <2>1. Finished
    BY <1>1 DEF Start, RecordInv
  <2>2. pc' = [t \in Trials |-> IF t \in LoadedDone THEN "none" ELSE "spawned"]
    BY <1>1 DEF Start
  <2>3. ExecHolders' = ExecHolders /\ PostHolders' = PostHolders
    BY <2>1, <2>2 DEF Finished, ExecHolders, PostHolders
  <2>4. QED
    BY <1>1, <2>3, SlotSame DEF Start
<1>2. ASSUME NEW t \in Trials, CheckContext(t) PROVE SlotDiscipline'
  <2>1. ExecHolders' = ExecHolders /\ PostHolders' = PostHolders
    BY <1>0, <1>2 DEF CheckContext, ExecHolders, PostHolders
  <2>2. QED
    BY <1>2, <2>1, SlotSame DEF CheckContext
<1>3. ASSUME NEW t \in Trials, AcquireExec(t) PROVE SlotDiscipline'
  <2>1. execSem' = execSem \union {t} /\ pc' = [pc EXCEPT ![t] = "attempt"] /\ postSem' = postSem
        /\ Cardinality(execSem) < ExecSlots /\ pc[t] = "queued"
    BY <1>3 DEF AcquireExec
  <2>2. Cardinality(execSem') <= ExecSlots
    BY <1>0, <2>1, SlotsGrow
  <2>3. execSem' = ExecHolders' /\ PostHolders' = PostHolders
    BY <1>0, <2>1 DEF SlotDiscipline, ExecHolders, PostHolders
  <2>4. QED
    BY <2>1, <2>2, <2>3 DEF SlotDiscipline, ExecHolders, PostHolders
<1>4. ASSUME NEW t \in Trials, Attempting(t) PROVE SlotDiscipline'
  <2>1. CASE ResolveFails(t)
    BY <2>1, SlotAttempt DEF ResolveFails
  <2>2. CASE CommandRefused(t)
    BY <2>2, SlotAttempt DEF CommandRefused
  <2>3. CASE CommandStarts(t)
    <3>1. ExecHolders' = ExecHolders /\ PostHolders' = PostHolders
      BY <1>0, <2>3 DEF CommandStarts, ExecHolders, PostHolders
    <3>2. QED
      BY <2>3, <3>1, SlotSame DEF CommandStarts
  <2>4. CASE CommandEnds(t)
    BY <2>4, SlotAttempt DEF CommandEnds
  <2>5. QED
    BY <1>4, <2>1, <2>2, <2>3, <2>4 DEF Attempting
<1>5. ASSUME NEW t \in Trials, AcquirePost(t) PROVE SlotDiscipline'
  <2>1. postSem' = postSem \union {t} /\ pc' = [pc EXCEPT ![t] = "post"] /\ execSem' = execSem
        /\ Cardinality(postSem) < PostSlots /\ pc[t] = "packing"
    BY <1>5 DEF AcquirePost, PostSlotFree
  <2>2. Cardinality(postSem') <= PostSlots
    BY <1>0, <2>1, SlotsGrow
  <2>3. postSem' = PostHolders' /\ ExecHolders' = ExecHolders
    BY <1>0, <2>1 DEF SlotDiscipline, ExecHolders, PostHolders
  <2>4. QED
    BY <2>1, <2>2, <2>3 DEF SlotDiscipline, ExecHolders, PostHolders
<1>6. ASSUME NEW t \in Trials, PostStep(t) PROVE SlotDiscipline'
  <2>1. CASE SkipStep(t) \/ StepPasses(t) \/ GuardDrops(t) \/ StepWarns(t)
    <3>1. UNCHANGED <<pc, execSem, postSem>>
      BY <2>1 DEF SkipStep, StepPasses, GuardDrops, StepWarns
    <3>2. QED
      BY <3>1 DEF SlotDiscipline
  <2>2. CASE StepVetoes(t)
    BY <2>2, SlotPost DEF StepVetoes, Due, InStep
  <2>3. CASE StepStops(t)
    BY <2>3, SlotPost DEF StepStops, Due, InStep
  <2>4. CASE PostDone(t)
    BY <2>4, SlotPost DEF PostDone
  <2>5. QED
    BY <1>6, <2>1, <2>2, <2>3, <2>4 DEF PostStep
<1>7. ASSUME NEW t \in Trials, AppendRow(t) PROVE SlotDiscipline'
  <2>1. ExecHolders' = ExecHolders /\ PostHolders' = PostHolders
    BY <1>0, <1>7 DEF AppendRow, ExecHolders, PostHolders
  <2>2. QED
    BY <1>7, <2>1, SlotSame DEF AppendRow
<1>8. CASE AllDone \/ DeclaredReport \/ CloseOut \/ Interrupt
  BY <1>8 DEF AllDone, DeclaredReport, CloseOut, Interrupt, SlotDiscipline
<1>9. CASE Crash
  <2>1. execSem' = {} /\ postSem' = {} /\ pc' = [t \in Trials |-> "none"]
    BY <1>9 DEF Crash
  <2>2. Cardinality({}) = 0
    BY FS_EmptySet
  <2>3. QED
    BY <1>0, <2>1, <2>2 DEF SlotDiscipline
<1>10. CASE UNCHANGED vars
  BY <1>10 DEF vars, SlotDiscipline
<1>11. QED
  BY <1>1, <1>2, <1>3, <1>4, <1>5, <1>6, <1>7, <1>8, <1>9, <1>10 DEF Next, Goroutine

(* Neither semaphore is ever exceeded, a container slot is held by exactly *)
(* the trials that run their command and a post slot by those that post-   *)
(* process, for every width and matrix, over crashes and resumes (runAll). *)
THEOREM SlotsCorrect == Spec => []SlotDiscipline
BY TypeCorrect, RecordCorrect, SlotInit, SlotStep, PTL DEF Spec

----------------------------------------------------------------------------
(* A measurement that is recorded and not dropped has been published by    *)
(* every ship step that must not fail: the per_trial list is walked in     *)
(* order, and a step that fails it takes the reward away.                  *)
Owed(k) == {i \in MustShip : i < k}

ShipInv ==
  \A t \in Trials :
    /\ pc[t] \notin {"post", "report"} => step[t] = 1 /\ ~drop[t]
    /\ pc[t] = "post" /\ ~drop[t] => shipped[t] >= Cardinality(Owed(step[t]))
    /\ pc[t] = "report" /\ ~drop[t] /\ outcome[t] = "reward"
         => shipped[t] >= Cardinality(MustShip)

(* One step further, at most one more upload is owed.                      *)
LEMMA OwedGrows ==
  ASSUME NEW k \in 1 .. Len(Steps)
  PROVE  /\ Cardinality(Owed(k)) \in Nat
         /\ Cardinality(Owed(k + 1)) <= Cardinality(Owed(k)) + 1
         /\ k \notin MustShip => Owed(k + 1) = Owed(k)
<1>1. Len(Steps) \in Nat /\ IsFiniteSet(1 .. Len(Steps))
  BY RunAssumption, FS_Interval
<1>2. MustShip \subseteq 1 .. Len(Steps)
  BY DEF MustShip
<1>3. Owed(k) \subseteq 1 .. Len(Steps)
  BY <1>2 DEF Owed
<1>4. IsFiniteSet(Owed(k))
  BY <1>1, <1>3, FS_Subset
<1>5. \A i \in MustShip : i \in Int /\ (i < k + 1 <=> i < k \/ i = k)
  BY <1>1, <1>2
<1>6. k \in MustShip => Owed(k + 1) = Owed(k) \union {k}
  BY <1>5 DEF Owed
<1>7. k \notin MustShip => Owed(k + 1) = Owed(k)
  BY <1>5 DEF Owed
<1>8. Cardinality(Owed(k)) \in Nat
  BY <1>4, FS_CardinalityType
<1>9. Cardinality(Owed(k) \union {k}) <= Cardinality(Owed(k)) + 1
  <2>1. Cardinality(Owed(k) \union {k})
          = IF k \in Owed(k) THEN Cardinality(Owed(k)) ELSE Cardinality(Owed(k)) + 1
    BY <1>4, FS_AddElement
  <2>2. QED
    BY <1>8, <2>1
<1>10. Cardinality(Owed(k + 1)) <= Cardinality(Owed(k)) + 1
  <2>1. CASE k \in MustShip
    BY <1>6, <1>9, <2>1
  <2>2. CASE k \notin MustShip
    BY <1>7, <1>8, <2>2
  <2>3. QED
    BY <2>1, <2>2
<1>11. QED
  BY <1>7, <1>8, <1>10

(* Nothing is owed before the first step.                                  *)
LEMMA OwedFirst == Cardinality(Owed(1)) = 0
<1>1. MustShip \subseteq 1 .. Len(Steps) /\ Len(Steps) \in Nat
  BY RunAssumption DEF MustShip
<1>2. \A i \in MustShip : ~(i < 1)
  BY <1>1
<1>3. Owed(1) = {}
  BY <1>2 DEF Owed
<1>4. QED
  BY <1>3, FS_EmptySet

(* Everything is owed after the last step.                                 *)
LEMMA OwedLast ==
  ASSUME NEW k \in Nat, k > Len(Steps) PROVE Owed(k) = MustShip
<1>1. MustShip \subseteq 1 .. Len(Steps) /\ Len(Steps) \in Nat
  BY RunAssumption DEF MustShip
<1>2. \A i \in MustShip : i < k
  BY <1>1
<1>3. QED
  BY <1>2 DEF Owed

(* A step of the list that leaves the goroutine in it.                     *)
LEMMA ShipWalk ==
  ASSUME TypeOK, ShipInv, NEW t \in Trials, NEW s, InStep(t, s), NextStep(t), pc' = pc,
         \A u \in Trials \ {t} : drop'[u] = drop[u] /\ shipped'[u] = shipped[u],
         outcome' = outcome,
         \/ drop'[t]
         \/ ~drop[t] /\ ~drop'[t] /\ shipped'[t] = shipped[t] + 1
         \/ ~drop[t] /\ ~drop'[t] /\ shipped'[t] = shipped[t] /\ step[t] \notin MustShip
  PROVE  ShipInv'
<1>1. /\ step \in [Trials -> 1 .. Len(Steps) + 1] /\ Len(Steps) \in Nat /\ shipped[t] \in Nat
      /\ step[t] \in 1 .. Len(Steps)
  BY RunAssumption DEF TypeOK, InStep
<1>2. step'[t] = step[t] + 1 /\ \A u \in Trials \ {t} : step'[u] = step[u]
  BY <1>1 DEF NextStep
<1>3. pc[t] = "post"
  BY DEF InStep
<1>4. ~drop'[t] => shipped'[t] >= Cardinality(Owed(step'[t]))
  <2>1. ~drop[t] => shipped[t] >= Cardinality(Owed(step[t]))
    BY <1>3 DEF ShipInv
  <2>2. /\ Cardinality(Owed(step[t])) \in Nat
        /\ Cardinality(Owed(step[t] + 1)) <= Cardinality(Owed(step[t])) + 1
        /\ step[t] \notin MustShip => Owed(step[t] + 1) = Owed(step[t])
    BY <1>1, OwedGrows
  <2>3. Cardinality(Owed(step[t] + 1)) \in Nat
    <3>1. CASE step[t] + 1 <= Len(Steps)
      BY <1>1, <3>1, OwedGrows
    <3>2. CASE step[t] + 1 > Len(Steps)
      <4>1. Owed(step[t] + 1) \subseteq 1 .. Len(Steps) /\ IsFiniteSet(1 .. Len(Steps))
        BY <1>1, FS_Interval DEF Owed, MustShip
      <4>2. QED
        BY <4>1, FS_Subset, FS_CardinalityType
    <3>3. QED
      BY <1>1, <3>1, <3>2
  <2>4. QED
    BY <1>1, <1>2, <2>1, <2>2, <2>3
<1>5. QED
  BY <1>2, <1>3, <1>4 DEF ShipInv

(* A step that ends the list.                                              *)
LEMMA ShipEnd ==
  ASSUME TypeOK, ShipInv, NEW t \in Trials, NEW o, NEW d, EndPost(t, o, d), pc[t] = "post",
         step' = step,
         \A u \in Trials \ {t} : shipped'[u] = shipped[u],
         ~d /\ o = "reward" => shipped'[t] >= Cardinality(MustShip)
  PROVE  ShipInv'
<1>1. pc \in [Trials -> PC] /\ drop \in [Trials -> BOOLEAN] /\ outcome \in [Trials -> Outcome]
  BY DEF TypeOK
<1>2. pc'[t] = "report" /\ drop'[t] = d /\ outcome'[t] = o
  BY <1>1 DEF EndPost
<1>3. \A u \in Trials \ {t} : pc'[u] = pc[u] /\ drop'[u] = drop[u] /\ outcome'[u] = outcome[u]
  BY <1>1 DEF EndPost
<1>4. QED
  BY <1>2, <1>3 DEF ShipInv

(* A step that is not about the list at all.                               *)
LEMMA ShipOther ==
  ASSUME TypeOK, ShipInv, NEW t \in Trials, pc[t] \notin {"post", "report"},
         pc'[t] \notin {"post", "report"},
         \A u \in Trials \ {t} : pc'[u] = pc[u] /\ outcome'[u] = outcome[u],
         UNCHANGED <<step, drop, shipped>>
  PROVE  ShipInv'
BY DEF ShipInv

(* Nothing is owed before the first life.                                  *)
LEMMA ShipInit == Init => ShipInv
BY DEF Init, ShipInv

(* Every step keeps ShipInv.                                               *)
LEMMA ShipStep == TypeOK /\ RecordInv /\ ShipInv /\ [Next]_vars => ShipInv'
<1> SUFFICES ASSUME TypeOK, RecordInv, ShipInv, [Next]_vars PROVE ShipInv'
  OBVIOUS
<1> USE DEF life, disk, memory, work, post
<1>0. /\ pc \in [Trials -> PC] /\ outcome \in [Trials -> Outcome] /\ shipped \in [Trials -> Nat]
      /\ drop \in [Trials -> BOOLEAN] /\ step \in [Trials -> 1 .. Len(Steps) + 1]
  BY DEF TypeOK
<1>1. CASE Start
  <2>1. /\ UNCHANGED <<step, drop, shipped, outcome>>
        /\ pc' = [t \in Trials |-> IF t \in LoadedDone THEN "none" ELSE "spawned"]
    BY <1>1 DEF Start
  <2>2. Finished
    BY <1>1 DEF Start, RecordInv
  <2>3. QED
    BY <2>1, <2>2 DEF ShipInv, Finished
<1>2. ASSUME NEW t \in Trials, CheckContext(t) \/ AcquireExec(t) \/ CommandStarts(t) PROVE ShipInv'
  <2>1. /\ UNCHANGED <<step, drop, shipped, outcome>> /\ pc[t] \notin {"post", "report"}
        /\ \E x \in PC \ {"post", "report"} : pc' = [pc EXCEPT ![t] = x]
    BY <1>2 DEF CheckContext, AcquireExec, CommandStarts, PC
  <2>2. pc'[t] \notin {"post", "report"} /\ \A u \in Trials \ {t} : pc'[u] = pc[u]
    BY <1>0, <2>1
  <2>3. QED
    BY <2>1, <2>2, ShipOther
<1>3. ASSUME NEW t \in Trials, ResolveFails(t) \/ CommandRefused(t) \/ CommandEnds(t) PROVE ShipInv'
  <2>1. /\ UNCHANGED <<step, drop, shipped>> /\ pc[t] \in {"attempt", "command"}
        /\ \E o : EndAttempt(t, o)
    BY <1>3 DEF ResolveFails, CommandRefused, CommandEnds
  <2>2. PICK o : EndAttempt(t, o)
    BY <2>1
  <2>3. /\ pc'[t] \in {"attempt", "packing"}
        /\ \A u \in Trials \ {t} : pc'[u] = pc[u] /\ outcome'[u] = outcome[u]
    BY <1>0, <2>2 DEF EndAttempt
  <2>4. QED
    BY <2>1, <2>3, ShipOther
<1>4. ASSUME NEW t \in Trials, AcquirePost(t) PROVE ShipInv'
  <2>1. /\ UNCHANGED <<step, drop, shipped, outcome>> /\ pc[t] = "packing"
        /\ pc' = [pc EXCEPT ![t] = "post"]
    BY <1>4 DEF AcquirePost
  <2>2. pc'[t] = "post" /\ \A u \in Trials \ {t} : pc'[u] = pc[u]
    BY <1>0, <2>1
  <2>3. step[t] = 1 /\ shipped[t] \in Nat
    BY <1>0, <2>1 DEF ShipInv
  <2>4. shipped[t] >= Cardinality(Owed(step[t]))
    BY <2>3, OwedFirst
  <2>5. QED
    BY <2>1, <2>2, <2>4 DEF ShipInv
<1>5. ASSUME NEW t \in Trials, SkipStep(t) PROVE ShipInv'
  BY <1>5, ShipWalk DEF SkipStep
<1>6. ASSUME NEW t \in Trials, StepPasses(t) PROVE ShipInv'
  <2>1. PICK s \in Step : Due(t, s) /\ shipped' = [shipped EXCEPT ![t] = IF s.ships THEN @ + 1 ELSE @]
    BY <1>6 DEF StepPasses
  <2>2. NextStep(t) /\ UNCHANGED <<pc, drop, outcome>>
    BY <1>6 DEF StepPasses
  <2>3. InStep(t, s) /\ ~drop[t] /\ s = Steps[step[t]]
    BY <2>1 DEF Due, InStep
  <2>4. CASE s.ships
    BY <1>0, <2>1, <2>2, <2>3, <2>4, ShipWalk
  <2>5. CASE ~s.ships
    <3>1. step[t] \notin MustShip
      BY <2>3, <2>5 DEF MustShip
    <3>2. QED
      BY <1>0, <2>1, <2>2, <2>3, <2>5, <3>1, ShipWalk
  <2>6. QED
    BY <2>4, <2>5
<1>7. ASSUME NEW t \in Trials, GuardDrops(t) PROVE ShipInv'
  <2>1. PICK s \in Step : InStep(t, s)
    BY <1>7 DEF GuardDrops, Due
  <2>2. drop'[t] /\ \A u \in Trials \ {t} : drop'[u] = drop[u]
    BY <1>0, <1>7 DEF GuardDrops
  <2>3. QED
    BY <1>7, <2>1, <2>2, ShipWalk DEF GuardDrops
<1>8. ASSUME NEW t \in Trials, StepWarns(t) PROVE ShipInv'
  <2>1. PICK s \in Step : Due(t, s) /\ s.onFailure = "warn" /\ MayHaveShipped(t, s)
    BY <1>8 DEF StepWarns
  <2>2. NextStep(t) /\ UNCHANGED <<pc, drop, outcome>>
    BY <1>8 DEF StepWarns
  <2>3. InStep(t, s) /\ ~drop[t] /\ s = Steps[step[t]]
    BY <2>1 DEF Due, InStep
  <2>4. step[t] \notin MustShip
    BY <2>1, <2>3 DEF MustShip
  <2>5. CASE shipped' = shipped
    BY <2>2, <2>3, <2>4, <2>5, ShipWalk
  <2>6. CASE shipped' = [shipped EXCEPT ![t] = @ + 1]
    BY <1>0, <2>2, <2>3, <2>6, ShipWalk
  <2>7. QED
    BY <2>1, <2>5, <2>6 DEF MayHaveShipped
<1>9. ASSUME NEW t \in Trials, StepVetoes(t) PROVE ShipInv'
  <2>1. PICK s \in Step : Due(t, s) /\ MayHaveShipped(t, s)
    BY <1>9 DEF StepVetoes
  <2>2. \A u \in Trials \ {t} : shipped'[u] = shipped[u]
    BY <1>0, <2>1 DEF MayHaveShipped
  <2>3. pc[t] = "post"
    BY <2>1 DEF Due, InStep
  <2>4. EndPost(t, outcome[t], outcome[t] = "reward") /\ step' = step
    BY <1>9 DEF StepVetoes
  <2>5. QED
    BY <2>2, <2>3, <2>4, ShipEnd
<1>10. ASSUME NEW t \in Trials, StepStops(t) PROVE ShipInv'
  <2>1. PICK s \in Step : Due(t, s) /\ MayHaveShipped(t, s)
    BY <1>10 DEF StepStops
  <2>2. \A u \in Trials \ {t} : shipped'[u] = shipped[u]
    BY <1>0, <2>1 DEF MayHaveShipped
  <2>3. pc[t] = "post"
    BY <2>1 DEF Due, InStep
  <2>4. PICK o : o # "reward" /\ EndPost(t, o, FALSE) /\ step' = step
    BY <1>10 DEF StepStops
  <2>5. QED
    BY <2>2, <2>3, <2>4, ShipEnd
<1>11. ASSUME NEW t \in Trials, PostDone(t) PROVE ShipInv'
  <2>1. /\ pc[t] = "post" /\ step[t] > Len(Steps) /\ shipped' = shipped /\ step' = step
        /\ EndPost(t, outcome[t], drop[t])
    BY <1>11 DEF PostDone
  <2>2. Owed(step[t]) = MustShip
    <3>1. step[t] \in Nat
      BY <1>0
    <3>2. QED
      BY <2>1, <3>1, OwedLast
  <2>3. ~drop[t] => shipped[t] >= Cardinality(MustShip)
    BY <2>1, <2>2 DEF ShipInv
  <2>4. QED
    BY <2>1, <2>3, ShipEnd
<1>12. ASSUME NEW t \in Trials, AppendRow(t) PROVE ShipInv'
  <2>1. pc' = [pc EXCEPT ![t] = "recorded"] /\ Forget({t}) /\ shipped' = shipped
    BY <1>12 DEF AppendRow
  <2>2. pc'[t] = "recorded" /\ step'[t] = 1 /\ ~drop'[t]
    BY <1>0, <2>1 DEF Forget
  <2>3. \A u \in Trials \ {t} : pc'[u] = pc[u] /\ step'[u] = step[u] /\ drop'[u] = drop[u] /\ outcome'[u] = outcome[u]
    BY <1>0, <2>1 DEF Forget
  <2>4. QED
    BY <2>1, <2>2, <2>3 DEF ShipInv
<1>13. CASE AllDone \/ DeclaredReport \/ CloseOut \/ Interrupt
  BY <1>13 DEF AllDone, DeclaredReport, CloseOut, Interrupt, ShipInv
<1>14. CASE Crash
  <2>1. pc' = [t \in Trials |-> "none"] /\ Forget(Trials)
    BY <1>14 DEF Crash
  <2>2. QED
    BY <2>1 DEF ShipInv, Forget
<1>15. CASE UNCHANGED vars
  BY <1>15 DEF vars, ShipInv
<1>16. QED
  BY <1>1, <1>2, <1>3, <1>4, <1>5, <1>6, <1>7, <1>8, <1>9, <1>10, <1>11, <1>12, <1>13, <1>14,
     <1>15 DEF Next, Goroutine, Attempting, PostStep

(* Every step keeps measured rows shipped.                                 *)
LEMMA MeasuredStep ==
  TypeOK /\ RecordInv /\ ShipInv /\ MeasuredIsShipped /\ [Next]_vars => MeasuredIsShipped'
<1> SUFFICES ASSUME TypeOK, RecordInv, ShipInv, MeasuredIsShipped, [Next]_vars
             PROVE  MeasuredIsShipped'
  OBVIOUS
<1> USE DEF life, disk, memory, work, post
<1>0. /\ shipped \in [Trials -> Nat] /\ rows \in [Trials -> Seq(Row)]
      /\ Cardinality(MustShip) \in Nat
  <2>1. IsFiniteSet(1 .. Len(Steps)) /\ MustShip \subseteq 1 .. Len(Steps)
    BY RunAssumption, FS_Interval DEF MustShip
  <2>2. QED
    BY <2>1, FS_Subset, FS_CardinalityType DEF TypeOK
<1>1. ASSUME rows' = rows, \A u \in Trials : shipped'[u] = shipped[u] \/ shipped'[u] = shipped[u] + 1
      PROVE  MeasuredIsShipped'
  BY <1>0, <1>1 DEF MeasuredIsShipped
<1>2. ASSUME NEW t \in Trials, Goroutine(t), ~AppendRow(t) PROVE MeasuredIsShipped'
  <2>1. Ships(t) /\ rows' = rows
    BY <1>2, GoroutineEffect DEF Effect
  <2>2. \A u \in Trials : shipped'[u] = shipped[u] \/ shipped'[u] = shipped[u] + 1
    BY <1>0, <2>1 DEF Ships
  <2>3. QED
    BY <1>1, <2>1, <2>2
<1>3. ASSUME NEW t \in Trials, AppendRow(t) PROVE MeasuredIsShipped'
  <2>1. pc[t] = "report" /\ shipped' = shipped
    BY <1>3 DEF AppendRow
  <2>2. outcome[t] = "reward" /\ ~drop[t] => shipped[t] >= Cardinality(MustShip)
    BY <2>1 DEF ShipInv
  <2>3. CASE rows' = rows
    BY <1>1, <2>1, <2>3
  <2>4. CASE rows' = [rows EXCEPT ![t] = << RowOf(t) >>]
    <3>1. rows'[t] = << RowOf(t) >> /\ \A u \in Trials \ {t} : rows'[u] = rows[u]
      BY <1>0, <2>4
    <3>2. ASSUME NEW i \in 1 .. Len(rows'[t]), rows'[t][i].outcome = "reward", ~rows'[t][i].dropped
          PROVE  shipped'[t] >= Cardinality(MustShip)
      BY <2>1, <2>2, <3>1, <3>2 DEF RowOf
    <3>3. ASSUME NEW u \in Trials \ {t}, NEW i \in 1 .. Len(rows'[u]),
                 rows'[u][i].outcome = "reward", ~rows'[u][i].dropped
          PROVE  shipped'[u] >= Cardinality(MustShip)
      BY <2>1, <3>1, <3>3 DEF MeasuredIsShipped
    <3>4. MustShip' = MustShip
      OBVIOUS
    <3>5. QED
      BY <3>2, <3>3, <3>4 DEF MeasuredIsShipped
  <2>5. QED
    BY <1>3, <2>3, <2>4, AppendOwn
<1>4. CASE Start \/ AllDone \/ DeclaredReport \/ CloseOut \/ Interrupt \/ Crash
  BY <1>1, <1>4 DEF Start, AllDone, DeclaredReport, CloseOut, Interrupt, Crash
<1>5. CASE UNCHANGED vars
  BY <1>1, <1>5 DEF vars
<1>6. QED
  BY <1>2, <1>3, <1>4, <1>5 DEF Next

(* A published number has its artifacts: whatever the per_trial list, a    *)
(* row with a reward that nothing dropped has been through every ship step *)
(* that is not on_failure: warn (RunList, postTrial).                      *)
THEOREM MeasuredIsShippedCorrect == Spec => []MeasuredIsShipped
<1>1. Init => MeasuredIsShipped
  BY DEF Init, MeasuredIsShipped
<1>2. QED
  BY <1>1, TypeCorrect, RecordCorrect, ShipInit, ShipStep, MeasuredStep, PTL DEF Spec

----------------------------------------------------------------------------
(* Without a crash and without a lost row, what an unrecorded trial's      *)
(* OUT_DIR says, and what its goroutine has made of it, is from a command  *)
(* of the life that is going.                                              *)
OwnResult(t) ==
  /\ evidence[t] \in {"reward", "agent"} /\ rows[t] = <<>> => ran[t] = "yes"
  /\ outcome[t] \in {"reward", "agent"} /\ rows[t] = <<>> => ran[t] = "yes"
  /\ pc[t] = "command" => ran[t] = "yes"
  /\ \A i \in 1 .. Len(rows[t]) : rows[t][i].outcome \in {"reward", "agent"} => rows[t][i].ran = "yes"

LeftoverInv == \A t \in Trials : crashes = 0 /\ lost[t] = 0 => OwnResult(t)

(* There is nothing of a trial before the first life.                      *)
LEMMA LeftoverInit == Init => LeftoverInv
<1>1. ASSUME Init, NEW t \in Trials PROVE OwnResult(t)
  <2>1. rows[t] = <<>> /\ Len(<<>>) = 0
    BY <1>1 DEF Init
  <2>2. evidence[t] = "none" /\ outcome[t] = "host" /\ pc[t] = "none"
    BY <1>1 DEF Init
  <2>3. QED
    BY <2>1, <2>2 DEF OwnResult
<1>2. QED
  BY <1>1 DEF LeftoverInv

(* An attempt that ends in o: of a command that ran, or a failure of ours. *)
LEMMA AttemptOwn ==
  ASSUME TypeOK, NEW t \in Trials, OwnResult(t), NEW o, EndAttempt(t, o),
         rows' = rows, ran[t] = "yes" => ran'[t] = "yes",
         o \in {"reward", "agent"} /\ rows[t] = <<>> => ran[t] = "yes",
         evidence'[t] \in {"reward", "agent"} /\ rows[t] = <<>> => ran[t] = "yes"
  PROVE  OwnResult(t)'
BY DEF EndAttempt, OwnResult, TypeOK

(* The post steps keep a result or make it a failure of ours.              *)
LEMMA PostOwn ==
  ASSUME TypeOK, NEW t \in Trials, OwnResult(t), UNCHANGED <<rows, ran, evidence>>,
         outcome'[t] \in {outcome[t], "host"}, pc'[t] # "command"
  PROVE  OwnResult(t)'
BY DEF OwnResult

(* A step of one goroutine keeps what is its own its own.                  *)
LEMMA GoroutineOwn ==
  ASSUME TypeOK, RecordInv, NEW t \in Trials, OwnResult(t), Goroutine(t), lost'[t] = 0
  PROVE  OwnResult(t)'
<1> USE DEF life, disk, memory, work, post
<1>0. /\ pc \in [Trials -> PC] /\ ran \in [Trials -> Ran] /\ rows \in [Trials -> Seq(Row)]
      /\ outcome \in [Trials -> Outcome] /\ evidence \in [Trials -> Evidence]
  BY DEF TypeOK
<1>1. CASE CheckContext(t) \/ AcquireExec(t) \/ AcquirePost(t)
  <2>1. /\ UNCHANGED <<outcome, ran, evidence, rows>>
        /\ \E x \in PC \ {"command"} : pc' = [pc EXCEPT ![t] = x]
    BY <1>1 DEF CheckContext, AcquireExec, AcquirePost, PC
  <2>2. pc'[t] # "command"
    BY <1>0, <2>1
  <2>3. QED
    BY <2>1, <2>2 DEF OwnResult
<1>2. CASE ResolveFails(t)
  <2>1. PICK o \in {"env", "host"} : EndAttempt(t, o)
    BY <1>2 DEF ResolveFails
  <2>2. UNCHANGED <<rows, ran, evidence>>
    BY <1>2 DEF ResolveFails
  <2>3. evidence'[t] \in {"reward", "agent"} /\ rows[t] = <<>> => ran[t] = "yes"
    BY <2>2 DEF OwnResult
  <2>4. QED
    BY <2>1, <2>2, <2>3, AttemptOwn
<1>3. CASE CommandRefused(t)
  <2>1. EndAttempt(t, Score(evidence[t], FALSE)) /\ UNCHANGED <<rows, evidence>>
    BY <1>3 DEF CommandRefused
  <2>2. ran[t] = "yes" => ran'[t] = "yes"
    BY <1>0, <1>3 DEF CommandRefused
  <2>3. Score(evidence[t], FALSE) \in {"reward", "agent"} => evidence[t] \in {"reward", "agent"}
    BY DEF Score
  <2>4. evidence'[t] \in {"reward", "agent"} /\ rows[t] = <<>> => ran[t] = "yes"
    BY <2>1 DEF OwnResult
  <2>5. Score(evidence[t], FALSE) \in {"reward", "agent"} /\ rows[t] = <<>> => ran[t] = "yes"
    BY <2>3 DEF OwnResult
  <2>6. QED
    BY <2>1, <2>4, <2>5, <2>2, AttemptOwn
<1>4. CASE CommandStarts(t)
  <2>1. /\ ran'[t] = "yes" /\ rows' = rows
    BY <1>0, <1>4 DEF CommandStarts
  <2>2. \A i \in 1 .. Len(rows[t]) : rows[t][i].outcome \in {"reward", "agent"} => rows[t][i].ran = "yes"
    BY DEF OwnResult
  <2>3. QED
    BY <2>1, <2>2 DEF OwnResult
<1>5. CASE CommandEnds(t)
  <2>1. PICK e \in Evidence, clean \in BOOLEAN : EndAttempt(t, Score(e, clean))
    BY <1>5 DEF CommandEnds
  <2>2. UNCHANGED <<rows, ran>> /\ ran[t] = "yes"
    BY <1>5 DEF CommandEnds, OwnResult
  <2>3. QED
    BY <2>1, <2>2, AttemptOwn
<1>6. CASE SkipStep(t) \/ StepPasses(t) \/ GuardDrops(t) \/ StepWarns(t)
  <2>1. UNCHANGED <<pc, outcome, ran, evidence, rows>>
    BY <1>6 DEF SkipStep, StepPasses, GuardDrops, StepWarns
  <2>2. QED
    BY <2>1 DEF OwnResult
<1>7. CASE StepVetoes(t) \/ StepStops(t) \/ PostDone(t)
  <2>1. UNCHANGED <<ran, evidence, rows>>
    BY <1>7 DEF StepVetoes, StepStops, PostDone
  <2>2. outcome'[t] \in {outcome[t], "host"} /\ pc'[t] = "report"
    BY <1>0, <1>7 DEF StepVetoes, StepStops, PostDone, EndPost
  <2>3. QED
    BY <2>1, <2>2, PostOwn
<1>8. CASE AppendRow(t)
  <2>1. rows[t] = <<>>
    BY <1>8 DEF AppendRow, RecordInv, Busy
  <2>2. rows'[t] = << RowOf(t) >> /\ pc'[t] = "recorded"
    <3>1. lost[t] \in Nat /\ lost'[t] = 0
      BY DEF TypeOK
    <3>2. lost' # [lost EXCEPT ![t] = @ + 1]
      BY <3>1 DEF TypeOK
    <3>3. rows'[t] = << RowOf(t) >>
      BY <1>8, <3>2, AppendOwn
    <3>4. QED
      BY <1>0, <1>8, <3>3 DEF AppendRow
  <2>3. RowOf(t).outcome \in {"reward", "agent"} => RowOf(t).ran = "yes"
    BY <2>1 DEF OwnResult, RowOf
  <2>4. QED
    BY <2>2, <2>3 DEF OwnResult
<1>9. QED
  BY <1>1, <1>2, <1>3, <1>4, <1>5, <1>6, <1>7, <1>8 DEF Goroutine, Attempting, PostStep

(* It does nothing to the other trials' results.                           *)
LEMMA GoroutineOthers ==
  ASSUME TypeOK, NEW t \in Trials, Goroutine(t), NEW u \in Trials \ {t}
  PROVE  /\ pc'[u] = pc[u] /\ outcome'[u] = outcome[u] /\ ran'[u] = ran[u]
         /\ evidence'[u] = evidence[u] /\ rows'[u] = rows[u] /\ lost'[u] = lost[u]
<1> USE DEF life, disk, memory, work, post
<1>0. /\ pc \in [Trials -> PC] /\ ran \in [Trials -> Ran] /\ rows \in [Trials -> Seq(Row)]
      /\ outcome \in [Trials -> Outcome] /\ evidence \in [Trials -> Evidence]
  BY DEF TypeOK
<1>1. CASE CheckContext(t) \/ AcquireExec(t) \/ AcquirePost(t)
  BY <1>0, <1>1 DEF CheckContext, AcquireExec, AcquirePost
<1>2. CASE ResolveFails(t) \/ CommandRefused(t)
  BY <1>0, <1>2 DEF ResolveFails, CommandRefused, EndAttempt
<1>3. CASE CommandStarts(t)
  BY <1>0, <1>3 DEF CommandStarts
<1>4. CASE CommandEnds(t)
  BY <1>0, <1>4 DEF CommandEnds, EndAttempt
<1>5. CASE SkipStep(t) \/ StepPasses(t) \/ GuardDrops(t) \/ StepWarns(t)
  BY <1>0, <1>5 DEF SkipStep, StepPasses, GuardDrops, StepWarns
<1>6. CASE StepVetoes(t) \/ StepStops(t) \/ PostDone(t)
  BY <1>0, <1>6 DEF StepVetoes, StepStops, PostDone, EndPost
<1>7. CASE AppendRow(t)
  BY <1>0, <1>7, AppendOthers DEF AppendRow, Forget
<1>8. QED
  BY <1>1, <1>2, <1>3, <1>4, <1>5, <1>6, <1>7 DEF Goroutine, Attempting, PostStep

(* Every step keeps it, but a crash and a lost row, which end the claim.   *)
LEMMA LeftoverStep == TypeOK /\ RecordInv /\ LeftoverInv /\ [Next]_vars => LeftoverInv'
<1> SUFFICES ASSUME TypeOK, RecordInv, LeftoverInv, [Next]_vars, NEW u \in Trials,
                    crashes' = 0, lost'[u] = 0
             PROVE  OwnResult(u)'
  BY DEF LeftoverInv
<1> USE DEF life, disk, memory, work, post
<1>1. ~Crash
  BY DEF Crash, TypeOK
<1>2. ASSUME crashes = 0, lost[u] = 0 PROVE OwnResult(u)
  BY <1>2 DEF LeftoverInv
<1>3. ASSUME NEW t \in Trials, Goroutine(t) PROVE OwnResult(u)'
  <2>1. crashes = 0
    <3>1. CASE AppendRow(t)
      BY <3>1 DEF AppendRow
    <3>2. QED
      BY <1>3, <3>1, GoroutineEffect DEF Effect
  <2>2. lost[u] = 0
    <3>1. CASE u # t
      BY <1>3, <3>1, GoroutineOthers
    <3>2. CASE u = t /\ AppendRow(t)
      <4>1. lost' = lost \/ lost' = [lost EXCEPT ![t] = @ + 1]
        BY <3>2, AppendOwn
      <4>2. lost \in [Trials -> Nat]
        BY DEF TypeOK
      <4>3. QED
        BY <3>2, <4>1, <4>2
    <3>3. CASE u = t /\ ~AppendRow(t)
      BY <1>3, <3>3, GoroutineEffect DEF Effect
    <3>4. QED
      BY <3>1, <3>2, <3>3
  <2>3. OwnResult(u)
    BY <1>2, <2>1, <2>2
  <2>4. CASE u = t
    BY <1>3, <2>3, <2>4, GoroutineOwn
  <2>5. CASE u # t
    <3>1. /\ pc'[u] = pc[u] /\ outcome'[u] = outcome[u] /\ ran'[u] = ran[u]
          /\ evidence'[u] = evidence[u] /\ rows'[u] = rows[u]
      BY <1>3, <2>5, GoroutineOthers
    <3>2. QED
      BY <2>3, <3>1 DEF OwnResult
  <2>6. QED
    BY <2>4, <2>5
<1>4. CASE Start
  <2>1. UNCHANGED <<outcome, ran, evidence, rows, lost, crashes>> /\ pc'[u] # "command"
    BY <1>4 DEF Start
  <2>2. QED
    BY <1>2, <2>1 DEF OwnResult
<1>5. CASE AllDone \/ DeclaredReport \/ CloseOut \/ Interrupt \/ UNCHANGED vars
  <2>1. UNCHANGED <<pc, outcome, ran, evidence, rows, lost, crashes>>
    BY <1>5 DEF AllDone, DeclaredReport, CloseOut, Interrupt, vars
  <2>2. QED
    BY <1>2, <2>1 DEF OwnResult
<1>6. QED
  BY <1>1, <1>3, <1>4, <1>5 DEF Next

(* A result is of a command that ran in the life which recorded it: score  *)
(* looks at OUT_DIR before it asks whether the command was started at all, *)
(* and only what a crash left there, or a life whose row of this trial     *)
(* append lost, can be taken for it (Harbor.score).                        *)
THEOREM LeftoversOnly == Spec => []UnrunResultIsALeftover
<1>1. TypeOK /\ LeftoverInv => UnrunResultIsALeftover
  BY DEF TypeOK, LeftoverInv, OwnResult, UnrunResultIsALeftover
<1>2. QED
  BY <1>1, TypeCorrect, RecordCorrect, LeftoverInit, LeftoverStep, PTL DEF Spec

=============================================================================
