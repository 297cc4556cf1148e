---------------------------- MODULE CaseGateProof ----------------------------
(***************************************************************************)
(* Theorems about the per_case gate of CaseGate, for every set of cases    *)
(* and contents, every list of steps, width, number of repair rounds,      *)
(* edits and lives.                                                        *)
(***************************************************************************)
EXTENDS CaseGate, TLAPS

Outcomes == {"admitted", "rejected", "failed"}
Failures == {"no"} \union Unanswered

(* Where a gate can be, and what it then knows of its step.                *)
Placed(c) ==
  /\ pc[c] \in Active => phase = "gating"
  /\ pc[c] \in {"check", "fix"} => step[c] \in StepIds /\ ran[c]
  /\ pc[c] = "fix" => Repairable(c, step[c]) /\ err[c] \in Failures
  /\ pc[c] \in {"persist", "save"} => err[c] \in Outcomes

Typed == TypeOK /\ \A c \in Cases : Placed(c)

(* The gate of c has resolved its case and not failed.                     *)
Gated(c) == pc[c] \in Active \union {"admitted", "rejected"}
Ending(c, how) == pc[c] = how \/ (pc[c] \in {"persist", "save"} /\ err[c] = how)

(* Where bytes come from: contents that differ from the one the gate began *)
(* with were reached by a repair, and both are marked as repaired.         *)
Bytes(c) ==
  /\ Gated(c) => /\ dir[c] # key[c] => {key[c], dir[c]} \subseteq repaired
                 /\ sha[c] # key[c] => {key[c], sha[c]} \subseteq repaired
  /\ pc[c] = "step" /\ ~ran[c] => dir[c] = key[c] /\ sha[c] = key[c]
  /\ pc[c] \in {"step", "check", "fix"} => sha[c] = key[c] /\ unhashed[c] = FALSE
  /\ Ending(c, "admitted") => sha[c] = IF unhashed[c] THEN key[c] ELSE dir[c]

(* What a verdict d of step i may say of content v, in a gate's hands, in  *)
(* memory or on disk, given the answers A, the repaired contents R and the *)
(* definitions D.                                                          *)
HeardIn(A, i, fp, v, passed) == \E said \in TakenFor(passed) : <<i, fp, v, said>> \in A
SoundIn(A, R, D, i, v, d) ==
  Known(d) =>
    /\ d.fp <= D[i]
    /\ v \notin R =>
         HeardIn(A, i, d.fp, v, d.passed) \/ (Steps[i].onFailure = "warn" /\ d.passed)
    /\ ~d.passed =>
         /\ Steps[i].onFailure = "skip"
         /\ \E w \in {v} \union R : HeardIn(A, i, d.fp, w, FALSE)
Sound(i, v, d) == SoundIn(answers, repaired, def, i, v, d)

StoresSound ==
  \A v \in Versions, i \in StepIds : Sound(i, v, cache[v][i]) /\ Sound(i, v, disk[v][i])
HandSound(c) == Gated(c) => \A i \in StepIds : Sound(i, key[c], verdicts[c][i])

(* Why a repair is under way.                                              *)
Reason(c) ==
  pc[c] = "fix" =>
    /\ err[c] = "killed" => Stopped
    /\ err[c] \in {"no", "mute"} => <<step[c], def[step[c]], dir[c], err[c]>> \in answers

VerdictInv == StoresSound /\ \A c \in Cases : Bytes(c) /\ HandSound(c) /\ Reason(c)

(* The steps that a gate has behind it have judged the case.               *)
JudgedSoFar(c) ==
  /\ Gated(c) /\ key[c] \notin repaired =>
       \A j \in StepIds : j < step[c] /\ Steps[j].onFailure # "warn" =>
         Heard(j, def[j], key[c], TRUE)
  /\ Ending(c, "admitted") => step[c] > Len(Steps)

(* A rejection has a verdict behind it, of a present definition.           *)
RejectedBy(c) ==
  \E i \in StepIds :
    Known(verdicts[c][i]) /\ verdicts[c][i].fp = def[i] /\ ~verdicts[c][i].passed
RejectionInv == \A c \in Cases : Ending(c, "rejected") => RejectedBy(c)

(* The last repair of a case that goes on was for a step that has accepted *)
(* its outcome, or is for the present step.                                *)
Accepted(c) == Rechecked(fixer[c], dir[c])
Repaired(c) ==
  fixer[c] # 0 =>
    /\ pc[c] = "step" \/ Ending(c, "admitted") => Accepted(c)
    /\ pc[c] \in {"check", "fix"} => Accepted(c) \/ fixer[c] = step[c]
RepairInv == \A c \in Cases : Repaired(c)

(* While a life runs, memory is never behind the file, and what a gate has *)
(* in its hands is not behind memory, but for twins.                       *)
Newer(a, b) == Known(a) => Known(b) /\ b.fp >= a.fp
InHand(c) == pc[c] \in {"step", "check", "fix", "persist"}
Kept(v, i) ==
  /\ Newer(disk[v][i], cache[v][i])
  /\ \A c \in Cases : InHand(c) /\ key[c] = v => Newer(cache[v][i], verdicts[c][i])
KeepInv ==
  phase = "gating" =>
    \A v \in Versions \ repaired, i \in StepIds : ~Twins(v) => Kept(v, i)

ListInv ==
  /\ NothingIsLost
  /\ phase = "gating" => \A c \in Cases : pc[c] = "unjudged" => Stopped

----------------------------------------------------------------------------
(* What a step of c's gate leaves alone: the process, the checks, the list *)
(* and all the other gates.  History only grows.                           *)
Same(d) ==
  /\ pc'[d] = pc[d] /\ dir'[d] = dir[d] /\ key'[d] = key[d] /\ sha'[d] = sha[d]
  /\ unhashed'[d] = unhashed[d] /\ step'[d] = step[d] /\ round'[d] = round[d] /\ ran'[d] = ran[d] /\ err'[d] = err[d]
  /\ verdicts'[d] = verdicts[d] /\ fixer'[d] = fixer[d]

Frame(c) ==
  /\ UNCHANGED <<phase, cancelled, regate, starts, def, edits, listed>>
  /\ \A d \in Cases \ {c} : Same(d)
  /\ answers \subseteq answers' /\ repaired \subseteq repaired'

USE DEF process, gate, world, stores, history

LEMMA EndGateFrame ==
  ASSUME TypeOK, NEW c \in Cases, NEW how, EndGate(c, how), NEW d \in Cases \ {c}
  PROVE  sha'[d] = sha[d] /\ unhashed'[d] = unhashed[d] /\ pc'[d] = pc[d] /\ err'[d] = err[d]
BY DEF EndGate, Rehash, TypeOK

(* The end of a step leaves the same alone.                                *)
LEMMA StepFailedFrame ==
  ASSUME TypeOK, NEW c \in Cases, NEW i \in StepIds, NEW how, StepFailed(c, i, how),
         NEW d \in Cases \ {c}
  PROVE  /\ sha'[d] = sha[d] /\ unhashed'[d] = unhashed[d] /\ pc'[d] = pc[d] /\ err'[d] = err[d]
         /\ step'[d] = step[d] /\ verdicts'[d] = verdicts[d]
         /\ UNCHANGED <<key, round, ran>>
<1>1. CASE StepPassed(c, i)
  BY <1>1 DEF StepPassed, Record, TypeOK
<1>2. CASE EndGate(c, "failed") \/ EndGate(c, "rejected")
  <2>1. CASE ~StepPassed(c, i)
    BY <1>2, <2>1, EndGateFrame DEF StepFailed, Record, TypeOK
  <2>2. QED
    BY <1>1, <2>1
<1>3. QED
  BY <1>1, <1>2 DEF StepFailed

LEMMA GatingFrame ==
  ASSUME Typed, NEW c \in Cases, Gating(c)
  PROVE  Frame(c)
<1> USE DEF Typed, TypeOK, Frame, Same
<1>1. CASE GiveUp(c) \/ ResolveFails(c) \/ Save(c) \/ Persist(c)
  BY <1>1 DEF GiveUp, ResolveFails, Save, Persist
<1>2. CASE Resolve(c)
  BY <1>2 DEF Resolve
<1>3. CASE Reuse(c) \/ Run(c)
  BY <1>3 DEF Reuse, Run
<1>4. CASE ReuseRejection(c) \/ AllPassed(c)
  BY <1>4, EndGateFrame DEF ReuseRejection, AllPassed
<1>5. CASE SaysYes(c)
  BY <1>5 DEF SaysYes, Answered, StepPassed, Record
<1>6. CASE SaysNo(c) \/ CannotSay(c)
  <2>1. /\ UNCHANGED <<process, world, stores, listed, repaired, fixer>>
        /\ answers \subseteq answers'
    BY <1>6 DEF SaysNo, CannotSay, Answered
  <2>2. PICK i \in StepIds, how \in {"no"} \union Unanswered : CheckFailed(c, i, how)
    BY <1>6 DEF SaysNo, CannotSay
  <2>3. CASE StepFailed(c, i, how)
    BY <2>1, <2>3, StepFailedFrame
  <2>4. CASE ~StepFailed(c, i, how)
    BY <2>1, <2>2, <2>4 DEF CheckFailed
  <2>5. QED
    BY <2>3, <2>4
<1>7. CASE Fix(c)
  BY <1>7 DEF Fix, Edited
<1>8. CASE FixFails(c)
  <2>1. /\ UNCHANGED <<process, def, edits, stores, listed, answers>>
        /\ \E v \in Versions : Edited(c, v)
    BY <1>8 DEF FixFails
  <2>2. /\ repaired \subseteq repaired'
        /\ \A d \in Cases \ {c} : dir'[d] = dir[d] /\ fixer'[d] = fixer[d]
    BY <2>1 DEF Edited
  <2>3. StepFailed(c, step[c], err[c]) /\ step[c] \in StepIds
    BY <1>8 DEF FixFails, Typed, Placed
  <2>4. QED
    BY <2>1, <2>2, <2>3, StepFailedFrame
<1>9. QED
  BY <1>1, <1>2, <1>3, <1>4, <1>5, <1>6, <1>7, <1>8 DEF Gating

----------------------------------------------------------------------------
(* Typing.                                                                 *)
LEMMA StepsTyped == Len(Steps) \in Nat /\ NoVerdicts \in [StepIds -> MaybeVerdict]
                   /\ EmptyCache \in [Versions -> [StepIds -> MaybeVerdict]]
BY GateAssumption DEF NoVerdicts, EmptyCache, MaybeVerdict

LEMMA InitTyped == Init => Typed
<1>1. SUFFICES ASSUME Init PROVE Typed
  OBVIOUS
<1>2. /\ step \in [Cases -> 1 .. Len(Steps) + 1] /\ round \in [Cases -> 0 .. Rounds + 1]
      /\ edits \in 0 .. MaxEdits /\ starts \in 0 .. MaxStarts
  BY <1>1, StepsTyped, GateAssumption DEF Init
<1>3. /\ verdicts \in [Cases -> [StepIds -> MaybeVerdict]]
      /\ cache \in [Versions -> [StepIds -> MaybeVerdict]]
      /\ disk \in [Versions -> [StepIds -> MaybeVerdict]]
  BY <1>1, StepsTyped DEF Init
<1>4. QED
  BY <1>1, <1>2, <1>3 DEF Init, Typed, TypeOK, Placed, Active, Ended

(* A verdict that is recorded is one.                                      *)
LEMMA RecordTyped ==
  ASSUME TypeOK, NEW c \in Cases, NEW i \in StepIds, NEW b \in BOOLEAN, Record(c, i, b)
  PROVE  verdicts' \in [Cases -> [StepIds -> MaybeVerdict]]
<1>1. [fp |-> def[i], passed |-> b] \in MaybeVerdict
  BY DEF TypeOK, MaybeVerdict, Verdict
<1>2. QED
  BY <1>1 DEF Record, TypeOK

(* The end of a gate and the end of a step, as far as types go.            *)
GateTypes ==
  /\ pc' \in [Cases -> {"queued"} \union Active \union Ended]
  /\ sha' \in [Cases -> Versions] /\ unhashed' \in [Cases -> BOOLEAN]
  /\ step' \in [Cases -> 1 .. Len(Steps) + 1]
  /\ round' \in [Cases -> 0 .. Rounds + 1] /\ ran' \in [Cases -> BOOLEAN]
  /\ err' \in [Cases -> {"none", "no", "admitted", "rejected", "failed"} \union Unanswered]
  /\ verdicts' \in [Cases -> [StepIds -> MaybeVerdict]]

LEMMA EndGateTyped ==
  ASSUME TypeOK, NEW c \in Cases, NEW how \in Outcomes, EndGate(c, how), dir' \in [Cases -> Versions]
  PROVE  /\ pc' \in [Cases -> {"queued"} \union Active \union Ended]
         /\ sha' \in [Cases -> Versions] /\ unhashed' \in [Cases -> BOOLEAN]
         /\ err' \in [Cases -> {"none", "no", "admitted", "rejected", "failed"} \union Unanswered]
         /\ pc'[c] \in {"persist", how} /\ err'[c] = how
BY DEF EndGate, Rehash, TypeOK, Outcomes, Active, Ended

LEMMA StepPassedTyped ==
  ASSUME TypeOK, NEW c \in Cases, NEW i \in StepIds, step[c] = i, StepPassed(c, i)
  PROVE  GateTypes /\ key' = key /\ pc'[c] = "step"
<1>1. verdicts' \in [Cases -> [StepIds -> MaybeVerdict]]
  BY RecordTyped DEF StepPassed
<1>2. step' \in [Cases -> 1 .. Len(Steps) + 1]
  BY GateAssumption DEF StepPassed, TypeOK, StepIds
<1>3. QED
  BY <1>1, <1>2 DEF StepPassed, GateTypes, TypeOK, Active

LEMMA StepFailedTyped ==
  ASSUME TypeOK, NEW c \in Cases, NEW i \in StepIds, step[c] = i, NEW how \in Failures,
         StepFailed(c, i, how), dir' \in [Cases -> Versions]
  PROVE  /\ GateTypes /\ key' = key
         /\ pc'[c] \in {"step", "persist"} \union Outcomes
         /\ pc'[c] = "persist" => err'[c] \in Outcomes
<1>1. CASE StepPassed(c, i)
  BY <1>1, StepPassedTyped
<1>2. CASE /\ EndGate(c, "failed") \/ EndGate(c, "rejected")
           /\ UNCHANGED <<key, step, round, ran>>
           /\ UNCHANGED verdicts \/ Record(c, i, FALSE)
  <2>1. verdicts' \in [Cases -> [StepIds -> MaybeVerdict]]
    BY <1>2, RecordTyped DEF TypeOK
  <2>2. QED
    BY <1>2, <2>1, EndGateTyped DEF GateTypes, TypeOK, Outcomes
<1>3. QED
  BY <1>1, <1>2 DEF StepFailed

LEMMA CheckFailedTyped ==
  ASSUME TypeOK, NEW c \in Cases, NEW i \in StepIds, step[c] = i, NEW how \in Failures,
         CheckFailed(c, i, how), dir' \in [Cases -> Versions]
  PROVE  /\ GateTypes /\ key' = key
         /\ pc'[c] \in {"step", "fix", "persist"} \union Outcomes
         /\ pc'[c] = "persist" => err'[c] \in Outcomes
         /\ pc'[c] = "fix" => /\ Repairable(c, i) /\ err'[c] = how
                              /\ UNCHANGED <<step, round, ran>>
<1>1. CASE StepFailed(c, i, how)
  BY <1>1, StepFailedTyped DEF Outcomes
<1>2. CASE /\ Repairable(c, i)
           /\ pc' = [pc EXCEPT ![c] = "fix"] /\ err' = [err EXCEPT ![c] = how]
           /\ UNCHANGED <<key, sha, unhashed, step, round, ran, verdicts>>
  BY <1>2 DEF TypeOK, GateTypes, Failures, Unanswered, Active
<1>3. QED
  BY <1>1, <1>2 DEF CheckFailed

(* A step of a gate keeps every variable typed, and knows where it is.     *)
OwnTyped(c) ==
  /\ GateTypes /\ dir' \in [Cases -> Versions] /\ key' \in [Cases -> Versions]
  /\ cache' \in [Versions -> [StepIds -> MaybeVerdict]]
  /\ disk' \in [Versions -> [StepIds -> MaybeVerdict]]
  /\ answers' \subseteq StepIds \X Nat \X Versions \X {"yes", "no", "mute"}
  /\ repaired' \subseteq Versions
  /\ Placed(c)'

LEMMA AnsweredTyped ==
  ASSUME TypeOK, NEW c \in Cases, NEW i \in StepIds, NEW said \in {"yes", "no", "mute"},
         Answered(c, i, said)
  PROVE  answers' \subseteq StepIds \X Nat \X Versions \X {"yes", "no", "mute"}
BY DEF Answered, TypeOK

LEMMA EditedTyped ==
  ASSUME TypeOK, NEW c \in Cases, NEW v \in Versions, Edited(c, v)
  PROVE  dir' \in [Cases -> Versions] /\ repaired' \subseteq Versions
BY DEF Edited, TypeOK

LEMMA PersistTyped ==
  ASSUME TypeOK, NEW c \in Cases, Persist(c)
  PROVE  cache' \in [Versions -> [StepIds -> MaybeVerdict]]
<1>1. \A f, s \in Versions : Entry(c, f, s) \in [StepIds -> MaybeVerdict]
  BY DEF Entry, CarryOver, TypeOK
<1>2. PICK e \in {Entry(c, key[c], sha[c]), Entry(c, sha[c], key[c])} :
         cache' = [v \in Versions |-> IF v \in {key[c], sha[c]} THEN e ELSE cache[v]]
  BY DEF Persist
<1>3. e \in [StepIds -> MaybeVerdict]
  BY <1>1, <1>2 DEF TypeOK
<1>4. QED
  BY <1>2, <1>3 DEF TypeOK

LEMMA GatingTyped ==
  ASSUME Typed, NEW c \in Cases, Gating(c)
  PROVE  OwnTyped(c)
<1> USE GateAssumption, StepsTyped DEF Typed
<1>0. phase' = phase
  BY GatingFrame DEF Frame
<1>1. CASE GiveUp(c) \/ ResolveFails(c)
  BY <1>1 DEF GiveUp, ResolveFails, OwnTyped, GateTypes, TypeOK, Placed, Active, Ended
<1>2. CASE Resolve(c)
  BY <1>2 DEF Resolve, OwnTyped, GateTypes, TypeOK, Placed, Active
<1>3. CASE Reuse(c)
  BY <1>3 DEF Reuse, AtStep, OwnTyped, GateTypes, TypeOK, Placed, Active, StepIds
<1>4. CASE Run(c)
  BY <1>4 DEF Run, AtStep, OwnTyped, GateTypes, TypeOK, Placed, Active
<1>5. CASE ReuseRejection(c)
  BY <1>5, <1>0, EndGateTyped
     DEF ReuseRejection, AtStep, OwnTyped, GateTypes, TypeOK, Placed, Outcomes, Active
<1>6. CASE AllPassed(c)
  BY <1>6, <1>0, EndGateTyped
     DEF AllPassed, OwnTyped, GateTypes, TypeOK, Placed, Outcomes, Active
<1>7. CASE SaysYes(c)
  <2>1. PICK i \in StepIds : InCheck(c, i) /\ Answered(c, i, "yes") /\ StepPassed(c, i)
    BY <1>7 DEF SaysYes
  <2>2. GateTypes /\ key' = key /\ pc'[c] = "step"
    BY <2>1, StepPassedTyped DEF InCheck
  <2>3. answers' \subseteq StepIds \X Nat \X Versions \X {"yes", "no", "mute"}
    BY <2>1, AnsweredTyped
  <2>4. QED
    BY <1>7, <1>0, <2>1, <2>2, <2>3 DEF SaysYes, InCheck, OwnTyped, TypeOK, Placed, Active
<1>8. CASE SaysNo(c) \/ CannotSay(c)
  <2>1. PICK i \in StepIds, how \in Failures : InCheck(c, i) /\ CheckFailed(c, i, how)
    BY <1>8 DEF SaysNo, CannotSay, Failures, Unanswered
  <2>2. dir' \in [Cases -> Versions] /\ repaired' \subseteq Versions /\ UNCHANGED stores
    BY <1>8 DEF SaysNo, CannotSay, TypeOK
  <2>3. answers' \subseteq StepIds \X Nat \X Versions \X {"yes", "no", "mute"}
    BY <1>8, AnsweredTyped DEF SaysNo, CannotSay, TypeOK
  <2>4. /\ GateTypes /\ key' = key
        /\ pc'[c] \in {"step", "fix", "persist"} \union Outcomes
        /\ pc'[c] = "persist" => err'[c] \in Outcomes
        /\ pc'[c] = "fix" => /\ Repairable(c, i) /\ err'[c] = how
                             /\ UNCHANGED <<step, round, ran>>
    BY <2>1, <2>2, CheckFailedTyped DEF InCheck
  <2>5. Placed(c)'
    BY <1>0, <2>1, <2>4 DEF InCheck, Placed, Outcomes, Repairable, Active
  <2>6. QED
    BY <2>2, <2>3, <2>4, <2>5 DEF OwnTyped, TypeOK
<1>9. CASE Fix(c)
  <2>1. dir' \in [Cases -> Versions] /\ repaired' \subseteq Versions
    BY <1>9, EditedTyped DEF Fix
  <2>2. round[c] <= Rounds /\ pc[c] = "fix"
    BY <1>9 DEF Fix, Placed, Repairable
  <2>3. round' \in [Cases -> 0 .. Rounds + 1]
    BY <1>9, <2>2 DEF Fix, TypeOK
  <2>4. pc' \in [Cases -> {"queued"} \union Active \union Ended] /\ pc'[c] = "check"
    BY <1>9 DEF Fix, TypeOK, Active
  <2>5. step[c] \in StepIds /\ ran[c] /\ phase = "gating"
    BY <1>9, <2>2 DEF Fix, Placed
  <2>6. Placed(c)'
    BY <1>9, <1>0, <2>4, <2>5 DEF Fix, Placed
  <2>7. QED
    BY <1>9, <2>1, <2>3, <2>4, <2>6 DEF Fix, OwnTyped, GateTypes, TypeOK
<1>10. CASE FixFails(c)
  <2>1. dir' \in [Cases -> Versions] /\ repaired' \subseteq Versions
    BY <1>10, EditedTyped DEF FixFails
  <2>2. step[c] \in StepIds /\ err[c] \in Failures
    BY <1>10 DEF FixFails, Placed
  <2>3. /\ GateTypes /\ key' = key
        /\ pc'[c] \in {"step", "persist"} \union Outcomes
        /\ pc'[c] = "persist" => err'[c] \in Outcomes
    BY <1>10, <2>1, <2>2, StepFailedTyped DEF FixFails
  <2>4. Placed(c)'
    BY <1>0, <1>10, <2>3 DEF FixFails, Placed, Outcomes, Active
  <2>5. QED
    BY <1>10, <2>1, <2>3, <2>4 DEF FixFails, OwnTyped, TypeOK
<1>11. CASE Persist(c)
  BY <1>11, <1>0, PersistTyped DEF Persist, OwnTyped, GateTypes, TypeOK, Placed, Active
<1>12. CASE Save(c)
  BY <1>12, <1>0 DEF Save, OwnTyped, GateTypes, TypeOK, Placed, Active, Ended, Outcomes
<1>13. QED
  BY <1>1, <1>2, <1>3, <1>4, <1>5, <1>6, <1>7, <1>8, <1>9, <1>10, <1>11, <1>12 DEF Gating

(* Only a repair of its own step is filed as the last repair of a gate.      *)
LEMMA FixerTyped ==
  ASSUME Typed, NEW c \in Cases, Gating(c)
  PROVE  fixer' \in [Cases -> {0} \union StepIds]
<1> USE DEF Typed, TypeOK
<1>1. CASE Fix(c) \/ FixFails(c)
  <2>1. step[c] \in StepIds
    BY <1>1 DEF Fix, FixFails, Placed
  <2>2. fixer' = [fixer EXCEPT ![c] = step[c]]
    BY <1>1 DEF Fix, FixFails, Edited
  <2>3. QED
    BY <2>1, <2>2
<1>2. CASE Resolve(c)
  BY <1>2 DEF Resolve
<1>3. CASE fixer' = fixer
  BY <1>3
<1>4. QED
  BY <1>1, <1>2, <1>3
     DEF Gating, GiveUp, ResolveFails, Reuse, Run, ReuseRejection, AllPassed,
         SaysYes, SaysNo, CannotSay, Persist, Save, history

(* Every step keeps every variable typed.                                  *)
LEMMA TypedStep ==
  ASSUME Typed, [Next]_vars
  PROVE  Typed'
<1> USE GateAssumption, StepsTyped DEF Typed
<1>1. ASSUME NEW c \in Cases, Gating(c)
      PROVE  Typed'
  <2>1. OwnTyped(c) /\ Frame(c)
    BY <1>1, GatingTyped, GatingFrame
  <2>2. TypeOK'
    BY <1>1, <2>1, FixerTyped DEF OwnTyped, GateTypes, Frame, TypeOK
  <2>3. ASSUME NEW d \in Cases \ {c} PROVE Placed(d)'
    BY <2>1, <2>3 DEF Frame, Same, Placed, Repairable
  <2>4. QED
    BY <2>1, <2>2, <2>3 DEF OwnTyped
<1>2. CASE Begin
  <2>1. starts' \in 0 .. MaxStarts
    BY <1>2 DEF Begin, TypeOK
  <2>2. step' \in [Cases -> 1 .. Len(Steps) + 1] /\ round' \in [Cases -> 0 .. Rounds + 1]
    BY <1>2 DEF Begin, Fresh
  <2>3. QED
    BY <1>2, <2>1, <2>2 DEF Begin, Fresh, TypeOK, Placed, Active
<1>3. CASE Crash
  BY <1>3 DEF Crash, Fresh, TypeOK, Placed, Active
<1>4. CASE Return
  BY <1>4 DEF Return, Outcome, TypeOK, Placed, Active, Ended
<1>5. CASE Interrupt
  BY <1>5 DEF Interrupt, TypeOK, Placed, Repairable
<1>6. ASSUME NEW c \in Cases, EditCase(c)
      PROVE  Typed'
  BY <1>6 DEF EditCase, TypeOK, Placed, Active, Repairable
<1>7. ASSUME NEW i \in StepIds, EditCheck(i)
      PROVE  Typed'
  BY <1>7 DEF EditCheck, TypeOK, Placed, Active
<1>8. CASE UNCHANGED vars
  BY <1>8 DEF vars, TypeOK, Placed, Repairable
<1>9. QED
  BY <1>1, <1>2, <1>3, <1>4, <1>5, <1>6, <1>7, <1>8 DEF Next

----------------------------------------------------------------------------
(* What makes a verdict sound.                                             *)

(* What has been heard stays heard.                                        *)
LEMMA HeardGrows ==
  ASSUME NEW A, NEW A2, A \subseteq A2, NEW i, NEW fp, NEW v, NEW b, HeardIn(A, i, fp, v, b)
  PROVE  HeardIn(A2, i, fp, v, b)
BY DEF HeardIn

(* More answers, more repaired contents and newer definitions do no harm.  *)
LEMMA SoundStays ==
  ASSUME NEW A, NEW A2, A \subseteq A2, NEW R, NEW R2, R \subseteq R2,
         NEW D \in [StepIds -> Nat], NEW D2 \in [StepIds -> Nat],
         NEW i \in StepIds, D[i] <= D2[i], NEW v, NEW d \in MaybeVerdict,
         SoundIn(A, R, D, i, v, d)
  PROVE  SoundIn(A2, R2, D2, i, v, d)
<1>1. SUFFICES ASSUME Known(d) PROVE SoundIn(A2, R2, D2, i, v, d)
  BY DEF SoundIn
<1>2. d.fp \in Nat /\ d.fp <= D2[i]
  BY <1>1 DEF MaybeVerdict, Known, Verdict, SoundIn
<1>3. v \notin R2 =>
        HeardIn(A2, i, d.fp, v, d.passed) \/ (Steps[i].onFailure = "warn" /\ d.passed)
  BY <1>1, HeardGrows DEF SoundIn
<1>4. ~d.passed => /\ Steps[i].onFailure = "skip"
                   /\ \E w \in {v} \union R2 : HeardIn(A2, i, d.fp, w, FALSE)
  BY <1>1, HeardGrows DEF SoundIn
<1>5. QED
  BY <1>2, <1>3, <1>4 DEF SoundIn

(* Nothing is claimed where there is no verdict.                           *)
LEMMA NoVerdictSound ==
  ASSUME NEW A, NEW R, NEW D, NEW i, NEW v
  PROVE  SoundIn(A, R, D, i, v, NoVerdict)
BY DEF SoundIn, Known

(* A verdict on a repaired content may be filed for another one.           *)
LEMMA SoundElsewhere ==
  ASSUME NEW A, NEW R, NEW D, NEW i, NEW v \in R, NEW w \in R, NEW d, SoundIn(A, R, D, i, v, d)
  PROVE  SoundIn(A, R, D, i, w, d)
BY DEF SoundIn

(* A verdict on the content the gate began with, recorded when the bytes   *)
(* were b.                                                                 *)
LEMMA NewVerdictSound ==
  ASSUME NEW A, NEW R, NEW D \in [StepIds -> Nat], NEW i \in StepIds, NEW v, NEW b,
         NEW yes \in BOOLEAN,
         b # v => {v, b} \subseteq R,
         \/ HeardIn(A, i, D[i], b, yes) /\ (~yes => Steps[i].onFailure = "skip")
         \/ yes /\ Steps[i].onFailure = "warn"
  PROVE  SoundIn(A, R, D, i, v, [fp |-> D[i], passed |-> yes])
<1> DEFINE d == [fp |-> D[i], passed |-> yes]
<1>1. d.fp = D[i] /\ d.passed = yes /\ D[i] \in Nat
  OBVIOUS
<1>2. v \notin R => HeardIn(A, i, D[i], v, yes) \/ (Steps[i].onFailure = "warn" /\ yes)
  OBVIOUS
<1> HIDE DEF d
<1>3. v \notin R => HeardIn(A, i, d.fp, v, d.passed) \/ (Steps[i].onFailure = "warn" /\ d.passed)
  BY <1>1, <1>2
<1>4. ~d.passed => /\ Steps[i].onFailure = "skip"
                   /\ \E w \in {v} \union R : HeardIn(A, i, d.fp, w, FALSE)
  <2>1. SUFFICES ASSUME ~yes
                 PROVE  /\ Steps[i].onFailure = "skip"
                        /\ \E w \in {v} \union R : HeardIn(A, i, D[i], w, FALSE)
    BY <1>1
  <2>2. yes = FALSE /\ b \in {v} \union R
    BY <2>1
  <2>3. QED
    BY <2>1, <2>2
<1>5. d.fp <= D[i]
  BY <1>1
<1>6. SoundIn(A, R, D, i, v, d)
  BY <1>3, <1>4, <1>5 DEF SoundIn
<1>7. QED
  BY <1>6 DEF d

(* The verdicts in hand after one of them is recorded.                     *)
LEMMA RecordSound ==
  ASSUME TypeOK, NEW c \in Cases, NEW i \in StepIds, NEW yes \in BOOLEAN, Record(c, i, yes),
         NEW A, answers \subseteq A, NEW R, repaired \subseteq R,
         SoundIn(A, R, def, i, key[c], [fp |-> def[i], passed |-> yes]),
         \A j \in StepIds : Sound(j, key[c], verdicts[c][j])
  PROVE  \A j \in StepIds : SoundIn(A, R, def, j, key[c], verdicts'[c][j])
<1>1. TAKE j \in StepIds
<1>2. CASE j = i
  <2>1. verdicts'[c][i] = [fp |-> def[i], passed |-> yes]
    BY DEF Record, TypeOK
  <2>2. QED
    BY <1>2, <2>1
<1>3. CASE j # i
  <2>1. verdicts'[c][j] = verdicts[c][j] /\ verdicts[c][j] \in MaybeVerdict
    BY <1>3 DEF Record, TypeOK
  <2>2. def \in [StepIds -> Nat] /\ def[j] <= def[j]
    BY DEF TypeOK
  <2>3. SoundIn(A, R, def, j, key[c], verdicts[c][j])
    BY <2>1, <2>2, SoundStays DEF Sound
  <2>4. QED
    BY <2>1, <2>3
<1>4. QED
  BY <1>2, <1>3

(* The verdicts in hand when none is recorded.                             *)
LEMMA HandStays ==
  ASSUME TypeOK, NEW c \in Cases, UNCHANGED <<verdicts, def>>,
         NEW A, answers \subseteq A, NEW R, repaired \subseteq R,
         \A j \in StepIds : Sound(j, key[c], verdicts[c][j])
  PROVE  \A j \in StepIds : SoundIn(A, R, def, j, key[c], verdicts'[c][j])
<1>1. TAKE j \in StepIds
<1>2. verdicts[c][j] \in MaybeVerdict /\ def \in [StepIds -> Nat] /\ def[j] <= def[j]
  BY DEF TypeOK
<1>3. SoundIn(A, R, def, j, key[c], verdicts[c][j])
  BY <1>2, SoundStays DEF Sound
<1>4. QED
  BY <1>3

(* What a failure of step i's check knows.                                 *)
Told(c, i, how, A) ==
  /\ how = "killed" => Stopped
  /\ how \in {"no", "mute"} => <<i, def[i], dir[c], how>> \in A

LEMMA StepFailedSound ==
  ASSUME Typed, NEW c \in Cases, NEW i \in StepIds, NEW how \in Failures, Gated(c),
         Bytes(c), HandSound(c), StepFailed(c, i, how), UNCHANGED def,
         NEW A, answers \subseteq A, NEW R, repaired \subseteq R, Told(c, i, how, A)
  PROVE  \A j \in StepIds : SoundIn(A, R, def, j, key[c], verdicts'[c][j])
<1>1. \A j \in StepIds : Sound(j, key[c], verdicts[c][j])
  BY DEF HandSound
<1>2. TypeOK /\ def \in [StepIds -> Nat]
  BY DEF Typed, TypeOK
<1>3. CASE UNCHANGED verdicts
  BY <1>1, <1>2, <1>3, HandStays
<1>4. dir[c] # key[c] => {key[c], dir[c]} \subseteq R
  BY DEF Bytes
<1>5. CASE Steps[i].onFailure = "warn" /\ StepPassed(c, i)
  <2>1. SoundIn(A, R, def, i, key[c], [fp |-> def[i], passed |-> TRUE])
    BY <1>2, <1>4, <1>5, NewVerdictSound
  <2>2. QED
    BY <1>1, <1>2, <1>5, <2>1, RecordSound DEF StepPassed
<1>6. CASE how # "tempfail" /\ Steps[i].onFailure = "skip" /\ ~Stopped /\ Record(c, i, FALSE)
  <2>1. HeardIn(A, i, def[i], dir[c], FALSE)
    BY <1>6 DEF Told, Failures, Unanswered, HeardIn, TakenFor
  <2>2. SoundIn(A, R, def, i, key[c], [fp |-> def[i], passed |-> FALSE])
    BY <1>2, <1>4, <1>6, <2>1, NewVerdictSound
  <2>3. QED
    BY <1>1, <1>2, <1>6, <2>2, RecordSound
<1>7. QED
  BY <1>3, <1>5, <1>6 DEF StepFailed

----------------------------------------------------------------------------
(* VerdictInv, for the gates that do not take the step.                    *)
LEMMA StoppedStays ==
  ASSUME Typed, NEW c \in Cases, Gating(c), Stopped
  PROVE  Stopped'
<1>1. pc[c] # "failed"
  BY DEF Gating, GiveUp, Resolve, ResolveFails, Reuse, ReuseRejection, Run, AllPassed, AtStep,
         SaysYes, SaysNo, CannotSay, InCheck, Fix, FixFails, Persist, Save
<1>2. Frame(c)
  BY GatingFrame DEF Typed
<1>3. QED
  BY <1>1, <1>2 DEF Stopped, Frame, Same

LEMMA OtherGates ==
  ASSUME Typed, NEW c \in Cases, Frame(c), Stopped => Stopped', NEW d \in Cases \ {c},
         Bytes(d), HandSound(d), Reason(d)
  PROVE  Bytes(d)' /\ HandSound(d)' /\ Reason(d)'
<1>1. Same(d) /\ def' = def /\ answers \subseteq answers' /\ repaired \subseteq repaired'
  BY DEF Frame
<1>2. Bytes(d)'
  BY <1>1 DEF Bytes, Same, Gated, Ending
<1>3. HandSound(d)'
  <2>1. SUFFICES ASSUME Gated(d), NEW i \in StepIds
                 PROVE  SoundIn(answers', repaired', def, i, key[d], verdicts[d][i])
    BY <1>1 DEF HandSound, Same, Gated, Sound
  <2>2. verdicts[d][i] \in MaybeVerdict /\ def \in [StepIds -> Nat] /\ def[i] <= def[i]
    BY DEF Typed, TypeOK
  <2>3. QED
    BY <1>1, <2>1, <2>2, SoundStays DEF HandSound, Sound
<1>4. Reason(d)'
  BY <1>1 DEF Reason, Same
<1>5. QED
  BY <1>2, <1>3, <1>4

(* Where bytes come from, at the gate that takes the step.                 *)
LEMMA EndGateBytes ==
  ASSUME TypeOK, NEW c \in Cases, NEW how \in Outcomes, EndGate(c, how), key' = key, ran' = ran,
         dir'[c] # key[c] => {key[c], dir'[c]} \subseteq repaired',
         sha[c] = key[c], unhashed[c] = FALSE,
         ~ran[c] => dir'[c] = key[c]
  PROVE  Bytes(c)'
<1>1. pc'[c] = (IF ran[c] THEN "persist" ELSE how) /\ err'[c] = how
  BY DEF EndGate, TypeOK
<1>2. pc'[c] \notin {"step", "check", "fix"}
  BY <1>1 DEF Outcomes
<1>3. CASE ~ran[c]
  <2>1. sha' = sha /\ unhashed' = unhashed
    BY <1>3 DEF EndGate
  <2>2. QED
    BY <1>1, <1>2, <1>3, <2>1 DEF Bytes, Gated, Ending, Active, Outcomes
<1>4. CASE ran[c]
  <2>1. \/ how # "failed" /\ sha'[c] = dir'[c] /\ unhashed'[c] = FALSE
        \/ how # "failed" /\ sha'[c] = key[c] /\ unhashed'[c] = TRUE
        \/ how = "failed" /\ sha'[c] = key[c]
    BY <1>4 DEF EndGate, Rehash, TypeOK
  <2>2. QED
    BY <1>1, <1>2, <1>4, <2>1 DEF Bytes, Gated, Ending, Active, Outcomes
<1>5. QED
  BY <1>3, <1>4

LEMMA StepFailedBytes ==
  ASSUME Typed, NEW c \in Cases, NEW i \in StepIds, NEW how \in Failures, Bytes(c), Gated(c),
         pc[c] \in {"check", "fix"}, StepFailed(c, i, how), repaired \subseteq repaired',
         dir'[c] # key[c] => {key[c], dir'[c]} \subseteq repaired'
  PROVE  Bytes(c)'
<1>1. ran[c] /\ sha[c] = key[c] /\ unhashed[c] = FALSE
  BY DEF Typed, Placed, Bytes
<1>2. CASE EndGate(c, "failed") \/ EndGate(c, "rejected")
  <2>1. key' = key /\ ran' = ran
    BY <1>2 DEF StepFailed, StepPassed, EndGate, Typed, TypeOK
  <2>2. QED
    BY <1>1, <1>2, <2>1, EndGateBytes DEF Typed, Outcomes, Placed
<1>3. CASE StepPassed(c, i)
  BY <1>1, <1>3 DEF StepPassed, Typed, TypeOK, Placed, Bytes, Gated, Ending, Active
<1>4. QED
  BY <1>2, <1>3 DEF StepFailed

LEMMA EditedBytes ==
  ASSUME TypeOK, NEW c \in Cases, NEW v \in Versions, Edited(c, v), Gated(c), Bytes(c)
  PROVE  /\ dir'[c] # key[c] => {key[c], dir'[c]} \subseteq repaired'
         /\ repaired \subseteq repaired'
         /\ dir'[c] # dir[c] => {key[c], dir[c], dir'[c]} \subseteq repaired' /\ err[c] # "killed"
BY DEF Edited, TypeOK, Bytes

LEMMA OwnBytes ==
  ASSUME Typed, NEW c \in Cases, Bytes(c), Gating(c)
  PROVE  Bytes(c)'
<1> USE DEF Typed
<1>1. CASE GiveUp(c) \/ ResolveFails(c)
  BY <1>1 DEF GiveUp, ResolveFails, TypeOK, Bytes, Gated, Ending, Active
<1>2. CASE Resolve(c)
  BY <1>2 DEF Resolve, TypeOK, Bytes, Gated, Ending, Active
<1>3. CASE Reuse(c) \/ Run(c)
  BY <1>3 DEF Reuse, Run, AtStep, TypeOK, Bytes, Gated, Ending, Active
<1>4. CASE ReuseRejection(c) \/ AllPassed(c)
  <2>1. pc[c] = "step" /\ UNCHANGED <<key, ran, dir, repaired>>
    BY <1>4 DEF ReuseRejection, AllPassed, AtStep
  <2>2. PICK how \in {"rejected", "admitted"} : EndGate(c, how)
    BY <1>4 DEF ReuseRejection, AllPassed
  <2>3. QED
    BY <2>1, <2>2, EndGateBytes DEF Bytes, Gated, Active, Outcomes
<1>5. CASE SaysYes(c)
  BY <1>5 DEF SaysYes, InCheck, StepPassed, TypeOK, Placed, Bytes, Gated, Ending, Active
<1>6. CASE SaysNo(c) \/ CannotSay(c)
  <2>1. PICK i \in StepIds, how \in Failures : InCheck(c, i) /\ CheckFailed(c, i, how)
    BY <1>6 DEF SaysNo, CannotSay, Failures, Unanswered
  <2>2. UNCHANGED <<dir, repaired>> /\ Gated(c) /\ pc[c] = "check"
    BY <1>6, <2>1 DEF SaysNo, CannotSay, InCheck, Gated, Active
  <2>3. CASE StepFailed(c, i, how)
    BY <2>2, <2>3, StepFailedBytes DEF Bytes
  <2>4. CASE ~StepFailed(c, i, how)
    BY <2>1, <2>2, <2>4 DEF CheckFailed, TypeOK, Bytes, Gated, Ending, Active
  <2>5. QED
    BY <2>3, <2>4
<1>7. CASE Fix(c)
  <2>1. Gated(c)
    BY <1>7 DEF Fix, Gated, Active
  <2>2. dir'[c] # key[c] => {key[c], dir'[c]} \subseteq repaired'
    BY <1>7, <2>1, EditedBytes DEF Fix
  <2>3. repaired \subseteq repaired' /\ UNCHANGED <<key, sha, unhashed>> /\ pc'[c] = "check"
    BY <1>7 DEF Fix, Edited, TypeOK
  <2>4. sha[c] = key[c] /\ unhashed[c] = FALSE
    BY <1>7 DEF Fix, Bytes
  <2>5. QED
    BY <2>1, <2>2, <2>3, <2>4 DEF Bytes, Gated, Ending
<1>8. CASE FixFails(c)
  <2>1. Gated(c) /\ pc[c] = "fix" /\ step[c] \in StepIds /\ err[c] \in Failures
    BY <1>8 DEF FixFails, Gated, Active, Placed
  <2>2. /\ dir'[c] # key[c] => {key[c], dir'[c]} \subseteq repaired'
        /\ repaired \subseteq repaired'
    BY <1>8, <2>1, EditedBytes DEF FixFails
  <2>3. QED
    BY <1>8, <2>1, <2>2, StepFailedBytes DEF FixFails
<1>9. CASE Persist(c)
  BY <1>9 DEF Persist, TypeOK, Bytes, Gated, Ending, Active
<1>10. CASE Save(c)
  BY <1>10 DEF Save, TypeOK, Placed, Outcomes, Bytes, Gated, Ending, Active
<1>11. QED
  BY <1>1, <1>2, <1>3, <1>4, <1>5, <1>6, <1>7, <1>8, <1>9, <1>10 DEF Gating

(* The verdicts in hand, at the gate that takes the step.                  *)
LEMMA CheckFails ==
  ASSUME Typed, NEW c \in Cases, SaysNo(c) \/ CannotSay(c)
  PROVE  /\ Gated(c) /\ pc[c] = "check" /\ UNCHANGED <<phase, cancelled, dir, def, repaired, stores>>
         /\ \E i \in StepIds, how \in Failures :
              /\ step[c] = i /\ CheckFailed(c, i, how)
              /\ Told(c, i, how, answers')
<1>1. CASE SaysNo(c)
  BY <1>1 DEF SaysNo, InCheck, Gated, Active, Answered, Told, Failures
<1>2. CASE CannotSay(c)
  <2>1. PICK i \in StepIds, how \in Unanswered :
          /\ InCheck(c, i) /\ (how = "killed" => Stopped)
          /\ IF how = "mute" THEN Answered(c, i, "mute") ELSE UNCHANGED answers
          /\ CheckFailed(c, i, how)
    BY <1>2 DEF CannotSay
  <2>2. Told(c, i, how, answers')
    BY <2>1 DEF Told, Answered, Unanswered
  <2>3. QED
    BY <1>2, <2>1, <2>2 DEF CannotSay, InCheck, Gated, Active, Failures
<1>3. QED
  BY <1>1, <1>2

LEMMA OwnHand ==
  ASSUME Typed, NEW c \in Cases, StoresSound, Bytes(c), HandSound(c), Reason(c), Gating(c)
  PROVE  HandSound(c)'
<1> DEFINE Hand == \A j \in StepIds : SoundIn(answers', repaired', def, j, key[c], verdicts'[c][j])
<1>0. /\ def' = def /\ answers \subseteq answers' /\ repaired \subseteq repaired'
      /\ TypeOK /\ def \in [StepIds -> Nat]
  BY GatingFrame DEF Frame, Typed, TypeOK
<1>1. Gated(c) => \A j \in StepIds : Sound(j, key[c], verdicts[c][j])
  BY DEF HandSound
<1>2. CASE GiveUp(c) \/ ResolveFails(c)
  BY <1>0, <1>2 DEF GiveUp, ResolveFails, TypeOK, HandSound, Gated, Active
<1>3. CASE Resolve(c)
  <2>1. key'[c] = dir[c] /\ verdicts'[c] = cache[dir[c]] /\ UNCHANGED <<answers, repaired, def>>
    BY <1>0, <1>3 DEF Resolve, TypeOK
  <2>2. dir[c] \in Versions
    BY <1>0 DEF TypeOK
  <2>3. QED
    BY <2>1, <2>2 DEF StoresSound, HandSound, Sound
<1>4. CASE Gated(c) /\ UNCHANGED <<key, verdicts>>
  BY <1>0, <1>1, <1>4, HandStays DEF HandSound, Sound
<1>5. CASE SaysYes(c)
  <2>1. PICK i \in StepIds : InCheck(c, i) /\ Answered(c, i, "yes") /\ StepPassed(c, i)
    BY <1>5 DEF SaysYes
  <2>2. Gated(c) /\ Record(c, i, TRUE) /\ key' = key
    BY <2>1 DEF InCheck, Gated, Active, StepPassed
  <2>3. dir[c] # key[c] => {key[c], dir[c]} \subseteq repaired'
    BY <1>0, <2>2 DEF Bytes
  <2>4. HeardIn(answers', i, def[i], dir[c], TRUE)
    BY <2>1 DEF Answered, HeardIn, TakenFor
  <2>5. SoundIn(answers', repaired', def, i, key[c], [fp |-> def[i], passed |-> TRUE])
    BY <1>0, <2>3, <2>4, NewVerdictSound
  <2>6. Hand
    BY <1>0, <1>1, <2>2, <2>5, RecordSound
  <2>7. QED
    BY <1>0, <2>2, <2>6 DEF HandSound, Sound
<1>6. CASE SaysNo(c) \/ CannotSay(c)
  <2>1. PICK i \in StepIds, how \in Failures :
          step[c] = i /\ CheckFailed(c, i, how) /\ Told(c, i, how, answers')
    BY <1>6, CheckFails
  <2>2. Gated(c)
    BY <1>6, CheckFails
  <2>3. CASE UNCHANGED <<key, verdicts>>
    BY <1>4, <2>2, <2>3
  <2>4. CASE StepFailed(c, i, how)
    <3>1. Hand
      BY <1>0, <2>1, <2>2, <2>4, StepFailedSound
    <3>2. key' = key
      BY <2>4 DEF StepFailed, StepPassed
    <3>3. QED
      BY <1>0, <3>1, <3>2 DEF HandSound, Sound
  <2>5. QED
    BY <2>1, <2>3, <2>4 DEF CheckFailed
<1>7. CASE FixFails(c)
  <2>1. Gated(c) /\ step[c] \in StepIds /\ err[c] \in Failures /\ StepFailed(c, step[c], err[c])
    BY <1>7 DEF FixFails, Gated, Active, Typed, Placed
  <2>2. Told(c, step[c], err[c], answers')
    BY <1>0, <1>7 DEF FixFails, Reason, Told
  <2>3. Hand
    BY <1>0, <2>1, <2>2, StepFailedSound
  <2>4. key' = key
    BY <2>1 DEF StepFailed, StepPassed
  <2>5. QED
    BY <1>0, <2>3, <2>4 DEF HandSound, Sound
<1>8. CASE Reuse(c) \/ Run(c) \/ ReuseRejection(c) \/ AllPassed(c) \/ Fix(c) \/ Persist(c)
  <2>1. Gated(c) /\ UNCHANGED <<key, verdicts>>
    BY <1>8 DEF Reuse, Run, ReuseRejection, AllPassed, AtStep, Fix, Persist, Gated, Active
  <2>2. QED
    BY <1>4, <2>1
<1>9. CASE Save(c)
  <2>1. Gated(c) /\ UNCHANGED <<key, verdicts>>
    BY <1>9 DEF Save, Gated, Active
  <2>2. QED
    BY <1>4, <2>1
<1>10. QED
  BY <1>2, <1>3, <1>5, <1>6, <1>7, <1>8, <1>9 DEF Gating

LEMMA OwnReason ==
  ASSUME Typed, NEW c \in Cases, Gating(c)
  PROVE  Reason(c)'
<1>1. SUFFICES ASSUME pc'[c] = "fix" PROVE Reason(c)'
  BY DEF Reason
<1>2. SaysNo(c) \/ CannotSay(c)
  <2>1. ~(GiveUp(c) \/ Resolve(c) \/ ResolveFails(c) \/ Run(c) \/ Fix(c) \/ Persist(c))
    BY <1>1 DEF GiveUp, Resolve, ResolveFails, Run, Fix, Persist, Typed, TypeOK
  <2>2. ~Reuse(c)
    BY <1>1 DEF Reuse, AtStep, Typed, TypeOK
  <2>3. ~(ReuseRejection(c) \/ AllPassed(c))
    BY <1>1 DEF ReuseRejection, AllPassed, EndGate, Typed, TypeOK
  <2>4. ~SaysYes(c)
    BY <1>1 DEF SaysYes, StepPassed, Typed, TypeOK
  <2>5. ~FixFails(c)
    BY <1>1 DEF FixFails, StepFailed, EndGate, StepPassed, Typed, TypeOK
  <2>6. ~Save(c)
    BY <1>1 DEF Save, Typed, TypeOK, Placed, Outcomes
  <2>7. QED
    BY <2>1, <2>2, <2>3, <2>4, <2>5, <2>6 DEF Gating
<1>3. PICK i \in StepIds, how \in Failures :
        step[c] = i /\ CheckFailed(c, i, how) /\ Told(c, i, how, answers')
  BY <1>2, CheckFails
<1>4. UNCHANGED <<cancelled, dir, def>> /\ pc[c] = "check"
  BY <1>2, CheckFails
<1>5. ~StepFailed(c, i, how)
  BY <1>1, <1>4 DEF StepFailed, EndGate, StepPassed, Typed, TypeOK
<1>6. err'[c] = how /\ step' = step /\ pc' = [pc EXCEPT ![c] = "fix"]
  BY <1>3, <1>5 DEF CheckFailed, Typed, TypeOK
<1>7. Stopped => Stopped'
  BY <1>2, StoppedStays DEF Gating
<1>8. QED
  BY <1>3, <1>4, <1>6, <1>7 DEF Reason, Told

(* The verdicts in memory and on disk.                                     *)
LEMMA EntrySound ==
  ASSUME Typed, NEW c \in Cases, StoresSound, Bytes(c), HandSound(c), Gated(c),
         NEW e \in {Entry(c, key[c], sha[c]), Entry(c, sha[c], key[c])},
         NEW v \in {key[c], sha[c]}, NEW i \in StepIds
  PROVE  Sound(i, v, e[i])
<1>1. e[i] \in {verdicts[c][i], cache[key[c]][i], cache[sha[c]][i]}
  BY DEF Entry, CarryOver
<1>2. /\ Sound(i, key[c], verdicts[c][i]) /\ Sound(i, key[c], cache[key[c]][i])
      /\ Sound(i, sha[c], cache[sha[c]][i])
  BY DEF HandSound, StoresSound, Typed, TypeOK
<1>3. CASE sha[c] = key[c]
  BY <1>1, <1>2, <1>3
<1>4. CASE sha[c] # key[c]
  <2>1. {key[c], sha[c]} \subseteq repaired
    BY <1>4 DEF Bytes
  <2>2. QED
    BY <1>1, <1>2, <2>1, SoundElsewhere DEF Sound
<1>5. QED
  BY <1>3, <1>4

LEMMA StoresStay ==
  ASSUME Typed, StoresSound, answers \subseteq answers', repaired \subseteq repaired',
         def' \in [StepIds -> Nat], \A i \in StepIds : def[i] <= def'[i]
  PROVE  \A v \in Versions, i \in StepIds :
           /\ SoundIn(answers', repaired', def', i, v, cache[v][i])
           /\ SoundIn(answers', repaired', def', i, v, disk[v][i])
<1>1. TAKE v \in Versions, i \in StepIds
<1>2. /\ cache[v][i] \in MaybeVerdict /\ disk[v][i] \in MaybeVerdict
      /\ def \in [StepIds -> Nat] /\ def[i] <= def'[i]
  BY DEF Typed, TypeOK
<1>3. Sound(i, v, cache[v][i]) /\ Sound(i, v, disk[v][i])
  BY DEF StoresSound
<1>4. QED
  BY <1>2, <1>3, SoundStays DEF Sound

LEMMA OwnStores ==
  ASSUME Typed, NEW c \in Cases, StoresSound, Bytes(c), HandSound(c), Gating(c)
  PROVE  StoresSound'
<1>1. /\ def' = def /\ answers \subseteq answers' /\ repaired \subseteq repaired'
      /\ def' \in [StepIds -> Nat] /\ \A i \in StepIds : def[i] <= def'[i]
  BY GatingFrame DEF Frame, Typed, TypeOK
<1>2. CASE UNCHANGED stores
  BY <1>1, <1>2, StoresStay DEF StoresSound, Sound
<1>3. CASE Persist(c)
  <2>1. PICK e \in {Entry(c, key[c], sha[c]), Entry(c, sha[c], key[c])} :
          cache' = [v \in Versions |-> IF v \in {key[c], sha[c]} THEN e ELSE cache[v]]
    BY <1>3 DEF Persist
  <2>2. Gated(c) /\ UNCHANGED <<disk, answers, repaired>>
    BY <1>3 DEF Persist, Gated, Active
  <2>3. SUFFICES ASSUME NEW v \in Versions, NEW i \in StepIds
                 PROVE  Sound(i, v, cache'[v][i]) /\ Sound(i, v, disk[v][i])
    BY <1>1, <2>2 DEF StoresSound, Sound
  <2>4. CASE v \in {key[c], sha[c]}
    BY <2>1, <2>2, <2>4, EntrySound DEF StoresSound
  <2>5. CASE v \notin {key[c], sha[c]}
    BY <2>1, <2>5 DEF StoresSound
  <2>6. QED
    BY <2>4, <2>5
<1>4. CASE Save(c)
  <2>1. disk' = cache /\ cache' = cache
    BY <1>4 DEF Save
  <2>2. QED
    BY <1>1, <2>1, StoresStay DEF StoresSound, Sound
<1>5. QED
  BY <1>2, <1>3, <1>4
     DEF Gating, GiveUp, Resolve, ResolveFails, Reuse, ReuseRejection, Run, AllPassed,
         SaysYes, SaysNo, CannotSay, Fix, FixFails

LEMMA EmptySound ==
  ASSUME NEW A, NEW R, NEW D, NEW v \in Versions, NEW i \in StepIds
  PROVE  SoundIn(A, R, D, i, v, EmptyCache[v][i])
BY NoVerdictSound DEF EmptyCache, NoVerdicts

LEMMA InitVerdicts == Init => VerdictInv
<1>1. SUFFICES ASSUME Init PROVE VerdictInv
  OBVIOUS
<1>2. StoresSound
  BY <1>1, EmptySound DEF Init, StoresSound, Sound
<1>3. \A c \in Cases : Bytes(c) /\ HandSound(c) /\ Reason(c)
  BY <1>1 DEF Init, Bytes, HandSound, Reason, Gated, Ending, Active
<1>4. QED
  BY <1>2, <1>3 DEF VerdictInv

LEMMA VerdictStep ==
  ASSUME Typed, VerdictInv, [Next]_vars
  PROVE  VerdictInv'
<1>1. ASSUME NEW c \in Cases, Gating(c)
      PROVE  VerdictInv'
  <2>1. StoresSound'
    BY <1>1, OwnStores DEF VerdictInv
  <2>2. Bytes(c)' /\ HandSound(c)' /\ Reason(c)'
    BY <1>1, OwnBytes, OwnHand, OwnReason DEF VerdictInv
  <2>3. ASSUME NEW d \in Cases \ {c} PROVE Bytes(d)' /\ HandSound(d)' /\ Reason(d)'
    BY <1>1, <2>3, GatingFrame, StoppedStays, OtherGates DEF VerdictInv, Typed
  <2>4. QED
    BY <2>1, <2>2, <2>3 DEF VerdictInv
<1>2. CASE Begin \/ Crash
  <2>1. pc' = [c \in Cases |-> "queued"]
    BY <1>2 DEF Begin, Crash, Fresh
  <2>2. \A c \in Cases : Bytes(c)' /\ HandSound(c)' /\ Reason(c)'
    BY <2>1 DEF Bytes, HandSound, Reason, Gated, Ending, Active
  <2>3. cache' \in {disk, EmptyCache} /\ UNCHANGED <<disk, def, answers, repaired>>
    BY <1>2 DEF Begin, Crash
  <2>4. StoresSound'
    BY <2>3, EmptySound DEF VerdictInv, StoresSound, Sound
  <2>5. QED
    BY <2>2, <2>4 DEF VerdictInv
<1>3. CASE Return \/ Interrupt \/ UNCHANGED vars
  <2>1. /\ UNCHANGED <<pc, gate, world, stores, history>>
        /\ \A c \in Cases : pc[c] = "fix" => (Stopped => Stopped')
    BY <1>3 DEF Return, Interrupt, vars, Stopped
  <2>2. QED
    BY <2>1 DEF VerdictInv, StoresSound, Sound, Bytes, HandSound, Reason, Gated, Ending
<1>4. ASSUME NEW c \in Cases, EditCase(c)
      PROVE  VerdictInv'
  <2>1. /\ pc'[c] = "queued" /\ phase = "down"
        /\ UNCHANGED <<gate, def, stores, history, cancelled>>
        /\ \A d \in Cases \ {c} : pc'[d] = pc[d] /\ dir'[d] = dir[d]
    BY <1>4 DEF EditCase, Typed, TypeOK
  <2>2. \A d \in Cases : pc[d] \notin Active
    BY <2>1 DEF Typed, Placed
  <2>3. Bytes(c)' /\ HandSound(c)' /\ Reason(c)'
    BY <2>1 DEF Bytes, HandSound, Reason, Gated, Ending, Active
  <2>4. ASSUME NEW d \in Cases \ {c} PROVE Bytes(d)' /\ HandSound(d)' /\ Reason(d)'
    BY <2>1, <2>2, <2>4 DEF VerdictInv, Bytes, HandSound, Reason, Gated, Ending, Sound, Active
  <2>5. QED
    BY <2>1, <2>3, <2>4 DEF VerdictInv, StoresSound, Sound
<1>5. ASSUME NEW i \in StepIds, EditCheck(i)
      PROVE  VerdictInv'
  <2>1. \A c \in Cases : Bytes(c)' /\ HandSound(c)' /\ Reason(c)'
    BY <1>5 DEF EditCheck, Bytes, HandSound, Reason, Gated, Ending, Active
  <2>2. def' \in [StepIds -> Nat] /\ \A j \in StepIds : def[j] <= def'[j]
    BY <1>5 DEF EditCheck, Typed, TypeOK
  <2>3. UNCHANGED <<stores, history>>
    BY <1>5 DEF EditCheck
  <2>4. StoresSound'
    BY <2>2, <2>3, StoresStay DEF VerdictInv, StoresSound, Sound
  <2>5. QED
    BY <2>1, <2>4 DEF VerdictInv
<1>6. QED
  BY <1>1, <1>2, <1>3, <1>4, <1>5 DEF Next

----------------------------------------------------------------------------
(* What the steps behind a gate have said.                                 *)
JudgedInv == \A c \in Cases : JudgedSoFar(c)

(* How a gate leaves a step: what becomes of the step and of the place.    *)
LEMMA StepFailedLeaves ==
  ASSUME Typed, NEW c \in Cases, NEW i \in StepIds, NEW how \in Failures, step[c] = i,
         pc[c] \in {"check", "fix"}, StepFailed(c, i, how)
  PROVE  /\ key' = key
         /\ \/ /\ pc'[c] = "step" /\ step'[c] = i + 1 /\ Steps[i].onFailure = "warn"
            \/ /\ pc'[c] = "persist" /\ step'[c] = i /\ err'[c] \in {"failed", "rejected"}
<1>1. ran[c] /\ i \in Nat
  BY DEF Typed, Placed, StepIds
<1>2. CASE EndGate(c, "failed") \/ EndGate(c, "rejected")
  BY <1>1, <1>2 DEF StepFailed, EndGate, StepPassed, Typed, TypeOK
<1>3. CASE Steps[i].onFailure = "warn" /\ StepPassed(c, i)
  BY <1>1, <1>3 DEF StepPassed, Typed, TypeOK
<1>4. QED
  BY <1>2, <1>3 DEF StepFailed

LEMMA CheckFailedLeaves ==
  ASSUME Typed, NEW c \in Cases, NEW i \in StepIds, NEW how \in Failures, step[c] = i,
         pc[c] = "check", CheckFailed(c, i, how)
  PROVE  /\ key' = key
         /\ \/ /\ pc'[c] = "step" /\ step'[c] = i + 1 /\ Steps[i].onFailure = "warn"
            \/ /\ pc'[c] = "persist" /\ step'[c] = i /\ err'[c] \in {"failed", "rejected"}
            \/ /\ pc'[c] = "fix" /\ step'[c] = i /\ Steps[i].fix
<1>1. CASE StepFailed(c, i, how)
  BY <1>1, StepFailedLeaves
<1>2. CASE ~StepFailed(c, i, how)
  BY <1>2 DEF CheckFailed, Repairable, Typed, TypeOK
<1>3. QED
  BY <1>1, <1>2

(* One more step is behind the gate, and it has said yes or only warns.    *)
LEMMA OneMoreJudged ==
  ASSUME Typed, NEW c \in Cases, Frame(c), JudgedSoFar(c), Gated(c), NEW i \in StepIds, step[c] = i,
         step'[c] = i + 1, key' = key, pc'[c] = "step",
         key[c] \notin repaired' /\ Steps[i].onFailure # "warn" =>
           HeardIn(answers', i, def[i], key[c], TRUE)
  PROVE  JudgedSoFar(c)'
<1>1. ~Ending(c, "admitted")'
  BY DEF Ending
<1>2. ASSUME key[c] \notin repaired', NEW j \in StepIds, j < step'[c], Steps[j].onFailure # "warn"
      PROVE  HeardIn(answers', j, def'[j], key'[c], TRUE)
  <2>1. j < i \/ j = i
    BY <1>2 DEF StepIds
  <2>2. key[c] \notin repaired /\ def' = def /\ answers \subseteq answers'
    BY <1>2 DEF Frame
  <2>3. QED
    BY <1>2, <2>1, <2>2, HeardGrows DEF JudgedSoFar, Heard, HeardIn
<1>3. QED
  BY <1>1, <1>2 DEF JudgedSoFar, Heard, HeardIn

(* The gate stays where it is in the list, or ends there.                  *)
LEMMA NoMoreJudged ==
  ASSUME Typed, NEW c \in Cases, Frame(c), JudgedSoFar(c), Gated(c), step'[c] = step[c], key' = key,
         Ending(c, "admitted")' => step[c] > Len(Steps)
  PROVE  JudgedSoFar(c)'
BY DEF JudgedSoFar, Heard, Frame

LEMMA OwnJudged ==
  ASSUME Typed, NEW c \in Cases, Bytes(c), HandSound(c), JudgedSoFar(c), Gating(c)
  PROVE  JudgedSoFar(c)'
<1>0. Frame(c) /\ TypeOK /\ \A i \in StepIds : i \in Nat /\ i >= 1
  BY GatingFrame DEF Typed, StepIds
<1>1. CASE GiveUp(c) \/ ResolveFails(c)
  BY <1>0, <1>1 DEF GiveUp, ResolveFails, TypeOK, JudgedSoFar, Gated, Ending, Active
<1>2. CASE Resolve(c)
  <2>1. step'[c] = 1 /\ pc'[c] = "step"
    BY <1>0, <1>2 DEF Resolve, TypeOK
  <2>2. \A i \in StepIds : ~(i < 1)
    BY <1>0
  <2>3. QED
    BY <2>1, <2>2 DEF JudgedSoFar, Ending
<1>3. CASE Reuse(c)
  <2>1. PICK i \in StepIds : AtStep(c, i) /\ Reusable(c, i) /\ verdicts[c][i].passed
    BY <1>3 DEF Reuse
  <2>2. Gated(c) /\ step[c] = i /\ step'[c] = i + 1 /\ pc'[c] = "step" /\ key' = key
    BY <1>0, <1>3, <2>1 DEF Reuse, AtStep, Gated, Active, TypeOK
  <2>3. Known(verdicts[c][i]) /\ verdicts[c][i].fp = def[i] /\ verdicts[c][i].passed = TRUE
    <3>1. verdicts[c][i] \in MaybeVerdict /\ Known(verdicts[c][i])
      BY <1>0, <2>1 DEF TypeOK, Reusable
    <3>2. verdicts[c][i].passed \in BOOLEAN
      BY <3>1 DEF MaybeVerdict, Known, Verdict
    <3>3. QED
      BY <2>1, <3>1, <3>2 DEF Reusable
  <2>4. key[c] \notin repaired /\ Steps[i].onFailure # "warn" =>
          HeardIn(answers, i, verdicts[c][i].fp, key[c], verdicts[c][i].passed)
    BY <2>2, <2>3 DEF HandSound, Sound, SoundIn
  <2>5. key[c] \notin repaired' /\ Steps[i].onFailure # "warn" =>
          HeardIn(answers', i, def[i], key[c], TRUE)
    BY <1>0, <2>3, <2>4, HeardGrows DEF Frame
  <2>6. QED
    BY <1>0, <2>2, <2>5, OneMoreJudged
<1>4. CASE SaysYes(c)
  <2>1. PICK i \in StepIds : InCheck(c, i) /\ Answered(c, i, "yes") /\ StepPassed(c, i)
    BY <1>4 DEF SaysYes
  <2>2. Gated(c) /\ step[c] = i /\ step'[c] = i + 1 /\ pc'[c] = "step" /\ key' = key
    BY <1>0, <2>1 DEF InCheck, StepPassed, Gated, Active, TypeOK
  <2>3. key[c] \notin repaired => dir[c] = key[c]
    BY <2>2 DEF Bytes
  <2>4. HeardIn(answers', i, def[i], dir[c], TRUE) /\ repaired' = repaired
    BY <1>4, <2>1 DEF SaysYes, Answered, HeardIn, TakenFor
  <2>5. QED
    BY <1>0, <2>2, <2>3, <2>4, OneMoreJudged
<1>5. CASE SaysNo(c) \/ CannotSay(c)
  <2>1. PICK i \in StepIds, how \in Failures : step[c] = i /\ CheckFailed(c, i, how)
    BY <1>5, CheckFails
  <2>2. Gated(c) /\ pc[c] = "check"
    BY <1>5, CheckFails
  <2>3. /\ key' = key
        /\ \/ pc'[c] = "step" /\ step'[c] = i + 1 /\ Steps[i].onFailure = "warn"
           \/ pc'[c] = "persist" /\ step'[c] = i /\ err'[c] \in {"failed", "rejected"}
           \/ pc'[c] = "fix" /\ step'[c] = i
    BY <2>1, <2>2, CheckFailedLeaves
  <2>4. QED
    BY <1>0, <2>1, <2>2, <2>3, OneMoreJudged, NoMoreJudged DEF Ending
<1>6. CASE FixFails(c)
  <2>1. Gated(c) /\ pc[c] = "fix" /\ step[c] \in StepIds /\ err[c] \in Failures
    BY <1>6 DEF FixFails, Gated, Active, Typed, Placed
  <2>2. StepFailed(c, step[c], err[c])
    BY <1>6 DEF FixFails
  <2>3. /\ key' = key
        /\ \/ pc'[c] = "step" /\ step'[c] = step[c] + 1 /\ Steps[step[c]].onFailure = "warn"
           \/ pc'[c] = "persist" /\ step'[c] = step[c] /\ err'[c] \in {"failed", "rejected"}
    BY <2>1, <2>2, StepFailedLeaves
  <2>4. QED
    BY <1>0, <2>1, <2>3, OneMoreJudged, NoMoreJudged DEF Ending
<1>7. CASE Run(c) \/ ReuseRejection(c) \/ AllPassed(c) \/ Fix(c)
  <2>1. Gated(c) /\ step'[c] = step[c] /\ key' = key
    BY <1>7 DEF Run, ReuseRejection, AllPassed, AtStep, Fix, Gated, Active
  <2>2. Ending(c, "admitted")' => step[c] > Len(Steps)
    BY <1>0, <1>7 DEF Run, ReuseRejection, AllPassed, EndGate, Fix, Ending, TypeOK
  <2>3. QED
    BY <1>0, <2>1, <2>2, NoMoreJudged
<1>8. CASE Persist(c) \/ Save(c)
  <2>1. Gated(c) /\ step'[c] = step[c] /\ key' = key
    BY <1>8 DEF Persist, Save, Gated, Active
  <2>2. Ending(c, "admitted")' => Ending(c, "admitted")
    BY <1>0, <1>8 DEF Persist, Save, Ending, TypeOK
  <2>3. QED
    BY <1>0, <2>1, <2>2, NoMoreJudged DEF JudgedSoFar
<1>9. QED
  BY <1>1, <1>2, <1>3, <1>4, <1>5, <1>6, <1>7, <1>8 DEF Gating

LEMMA JudgedStep ==
  ASSUME Typed, VerdictInv, JudgedInv, [Next]_vars
  PROVE  JudgedInv'
<1>1. ASSUME NEW c \in Cases, Gating(c)
      PROVE  JudgedInv'
  <2>1. JudgedSoFar(c)'
    BY <1>1, OwnJudged DEF VerdictInv, JudgedInv
  <2>2. ASSUME NEW d \in Cases \ {c} PROVE JudgedSoFar(d)'
    <3>1. Frame(c)
      BY <1>1, GatingFrame DEF Typed
    <3>2. QED
      BY <2>2, <3>1 DEF Frame, Same, JudgedInv, JudgedSoFar, Heard, Gated, Ending
  <2>3. QED
    BY <2>1, <2>2 DEF JudgedInv
<1>2. CASE Begin \/ Crash \/ \E i \in StepIds : EditCheck(i)
  <2>1. pc' = [c \in Cases |-> "queued"]
    BY <1>2 DEF Begin, Crash, Fresh, EditCheck
  <2>2. QED
    BY <2>1 DEF JudgedInv, JudgedSoFar, Gated, Ending, Active
<1>3. CASE Return \/ Interrupt \/ UNCHANGED vars
  BY <1>3 DEF Return, Interrupt, vars, JudgedInv, JudgedSoFar, Heard, Gated, Ending
<1>4. ASSUME NEW c \in Cases, EditCase(c)
      PROVE  JudgedInv'
  <2>1. /\ pc'[c] = "queued" /\ UNCHANGED <<gate, def, history>>
        /\ \A d \in Cases \ {c} : pc'[d] = pc[d]
    BY <1>4 DEF EditCase, Typed, TypeOK
  <2>2. QED
    BY <2>1 DEF JudgedInv, JudgedSoFar, Heard, Gated, Ending, Active
<1>5. QED
  BY <1>1, <1>2, <1>3, <1>4 DEF Next

----------------------------------------------------------------------------
(* A rejection has a verdict behind it.                                    *)
LEMMA OwnRejection ==
  ASSUME Typed, NEW c \in Cases, Ending(c, "rejected") => RejectedBy(c), Gating(c),
         Ending(c, "rejected")'
  PROVE  RejectedBy(c)'
<1>0. Frame(c) /\ TypeOK /\ def' = def
  BY GatingFrame DEF Typed, Frame
<1>1. CASE ReuseRejection(c)
  BY <1>0, <1>1 DEF ReuseRejection, Reusable, RejectedBy
<1>2. CASE Persist(c) \/ Save(c)
  <2>1. Ending(c, "rejected") /\ UNCHANGED verdicts
    BY <1>0, <1>2 DEF Persist, Save, Ending, TypeOK
  <2>2. QED
    BY <1>0, <2>1 DEF RejectedBy
<1>3. ASSUME NEW i \in StepIds, NEW how \in Failures, StepFailed(c, i, how),
             step[c] = i, pc[c] \in {"check", "fix"}
      PROVE  RejectedBy(c)'
  <2>1. pc'[c] = "persist" /\ err'[c] = "rejected"
    BY <1>3, StepFailedLeaves DEF Ending
  <2>2. Record(c, i, FALSE)
    BY <1>0, <1>3, <2>1 DEF StepFailed, EndGate, StepPassed, TypeOK
  <2>3. verdicts'[c][i] = [fp |-> def[i], passed |-> FALSE]
    BY <1>0, <2>2 DEF Record, TypeOK
  <2>4. Known(verdicts'[c][i]) /\ verdicts'[c][i].fp = def[i] /\ ~verdicts'[c][i].passed
    BY <1>0, <2>3 DEF Known, NoVerdict, TypeOK
  <2>5. QED
    BY <1>0, <2>4 DEF RejectedBy
<1>4. CASE SaysNo(c) \/ CannotSay(c)
  <2>1. PICK i \in StepIds, how \in Failures : step[c] = i /\ CheckFailed(c, i, how)
    BY <1>4, CheckFails
  <2>2. pc[c] = "check"
    BY <1>4, CheckFails
  <2>3. StepFailed(c, i, how)
    BY <1>0, <2>1 DEF CheckFailed, Ending, TypeOK
  <2>4. QED
    BY <1>3, <2>1, <2>2, <2>3
<1>5. CASE FixFails(c)
  <2>1. /\ pc[c] = "fix" /\ step[c] \in StepIds /\ err[c] \in Failures
        /\ StepFailed(c, step[c], err[c])
    BY <1>5 DEF FixFails, Typed, Placed
  <2>2. QED
    BY <1>3, <2>1
<1>6. ~(GiveUp(c) \/ Resolve(c) \/ ResolveFails(c) \/ Reuse(c) \/ Run(c) \/ SaysYes(c) \/ Fix(c))
  <2>1. ~(GiveUp(c) \/ Resolve(c) \/ ResolveFails(c) \/ Run(c) \/ Fix(c))
    BY <1>0 DEF GiveUp, Resolve, ResolveFails, Run, Fix, Ending, TypeOK
  <2>2. ~(Reuse(c) \/ SaysYes(c))
    BY <1>0 DEF Reuse, AtStep, SaysYes, StepPassed, Ending, TypeOK
  <2>3. QED
    BY <2>1, <2>2
<1>7. ~AllPassed(c)
  BY <1>0 DEF AllPassed, EndGate, Ending, TypeOK
<1>8. QED
  BY <1>1, <1>2, <1>4, <1>5, <1>6, <1>7 DEF Gating

LEMMA RejectionStep ==
  ASSUME Typed, RejectionInv, [Next]_vars
  PROVE  RejectionInv'
<1> USE DEF RejectionInv, RejectedBy
<1>1. ASSUME NEW c \in Cases, Gating(c)
      PROVE  RejectionInv'
  <2>1. Ending(c, "rejected")' => RejectedBy(c)'
    BY <1>1, OwnRejection
  <2>2. ASSUME NEW d \in Cases \ {c}, Ending(d, "rejected")' PROVE RejectedBy(d)'
    <3>1. Frame(c)
      BY <1>1, GatingFrame DEF Typed
    <3>2. QED
      BY <2>2, <3>1 DEF Frame, Same, Ending
  <2>3. QED
    BY <2>1, <2>2
<1>2. CASE Begin \/ Crash \/ \E i \in StepIds : EditCheck(i)
  <2>1. pc' = [c \in Cases |-> "queued"]
    BY <1>2 DEF Begin, Crash, Fresh, EditCheck
  <2>2. QED
    BY <2>1 DEF Ending
<1>3. CASE Return \/ Interrupt \/ UNCHANGED vars
  BY <1>3 DEF Return, Interrupt, vars, Ending
<1>4. ASSUME NEW c \in Cases, EditCase(c)
      PROVE  RejectionInv'
  <2>1. /\ pc'[c] = "queued" /\ UNCHANGED <<gate, def>>
        /\ \A d \in Cases \ {c} : pc'[d] = pc[d]
    BY <1>4 DEF EditCase, Typed, TypeOK
  <2>2. QED
    BY <2>1 DEF Ending
<1>5. QED
  BY <1>1, <1>2, <1>3, <1>4 DEF Next

----------------------------------------------------------------------------
(* The repairs of a case that goes on.                                     *)

(* Nothing has been edited nor repaired.                                   *)
LEMMA AcceptedStays ==
  ASSUME NEW c \in Cases, Frame(c), Accepted(c), dir'[c] = dir[c], fixer'[c] = fixer[c]
  PROVE  Accepted(c)'
BY DEF Accepted, Rechecked, Heard, Frame

LEMMA OwnRepair ==
  ASSUME Typed, NEW c \in Cases, Repaired(c), Gating(c)
  PROVE  Repaired(c)'
<1>0. Frame(c) /\ TypeOK
  BY GatingFrame DEF Typed
<1>1. CASE GiveUp(c) \/ ResolveFails(c)
  BY <1>0, <1>1 DEF GiveUp, ResolveFails, TypeOK, Repaired, Ending
<1>2. CASE Resolve(c)
  BY <1>0, <1>2 DEF Resolve, TypeOK, Repaired
<1>3. CASE Reuse(c) \/ Run(c) \/ AllPassed(c)
  <2>1. pc[c] = "step" /\ UNCHANGED <<dir, fixer>>
    BY <1>3 DEF Reuse, Run, AllPassed, AtStep
  <2>2. fixer[c] # 0 => Accepted(c)'
    BY <1>0, <2>1, AcceptedStays DEF Repaired
  <2>3. QED
    BY <2>1, <2>2 DEF Repaired
<1>4. CASE SaysYes(c)
  <2>1. PICK i \in StepIds : InCheck(c, i) /\ Answered(c, i, "yes") /\ StepPassed(c, i)
    BY <1>4 DEF SaysYes
  <2>2. /\ pc[c] = "check" /\ step[c] = i /\ pc'[c] = "step" /\ UNCHANGED <<dir, fixer, def>>
    BY <1>0, <1>4, <2>1 DEF SaysYes, InCheck, StepPassed, TypeOK
  <2>3. HeardIn(answers', i, def[i], dir'[c], TRUE)
    BY <2>1, <2>2 DEF Answered, HeardIn, TakenFor
  <2>4. fixer[c] # 0 => Accepted(c)'
    <3>1. CASE fixer[c] = i
      BY <2>2, <2>3, <3>1 DEF Accepted, Rechecked, Heard, HeardIn
    <3>2. CASE fixer[c] # i
      BY <1>0, <2>2, <3>2, AcceptedStays DEF Repaired
    <3>3. QED
      BY <3>1, <3>2
  <2>5. QED
    BY <2>2, <2>4 DEF Repaired
<1>5. CASE SaysNo(c) \/ CannotSay(c)
  <2>1. PICK i \in StepIds, how \in Failures : step[c] = i /\ CheckFailed(c, i, how)
    BY <1>5, CheckFails
  <2>2. pc[c] = "check" /\ UNCHANGED <<dir, fixer>>
    BY <1>5, CheckFails DEF SaysNo, CannotSay
  <2>3. \/ pc'[c] = "step" /\ Steps[i].onFailure = "warn"
        \/ pc'[c] = "persist" /\ err'[c] \in {"failed", "rejected"}
        \/ pc'[c] = "fix" /\ step'[c] = i
    BY <2>1, <2>2, CheckFailedLeaves
  <2>4. fixer[c] # 0 /\ fixer[c] # i => Accepted(c)'
    BY <1>0, <2>1, <2>2, AcceptedStays DEF Repaired
  <2>5. fixer[c] = i /\ Steps[i].onFailure = "warn" => Accepted(c)'
    BY <2>2 DEF Accepted, Rechecked, Heard, HeardIn
  <2>6. QED
    BY <2>2, <2>3, <2>4, <2>5 DEF Repaired, Ending
<1>6. CASE Fix(c)
  <2>1. pc'[c] = "check" /\ step' = step /\ fixer'[c] = step[c]
    BY <1>0, <1>6 DEF Fix, Edited, TypeOK
  <2>2. QED
    BY <2>1 DEF Repaired, Ending
<1>7. CASE FixFails(c)
  <2>1. /\ pc[c] = "fix" /\ step[c] \in StepIds /\ err[c] \in Failures
        /\ StepFailed(c, step[c], err[c]) /\ fixer'[c] = step[c]
    BY <1>0, <1>7 DEF FixFails, Edited, Typed, Placed, TypeOK
  <2>2. \/ pc'[c] = "step" /\ Steps[step[c]].onFailure = "warn"
        \/ pc'[c] = "persist" /\ err'[c] \in {"failed", "rejected"}
    BY <2>1, StepFailedLeaves
  <2>3. pc'[c] = "step" => Accepted(c)'
    BY <2>1, <2>2 DEF Accepted, Rechecked, Heard, HeardIn
  <2>4. QED
    BY <2>2, <2>3 DEF Repaired, Ending
<1>8. CASE ReuseRejection(c)
  <2>1. ~Ending(c, "admitted")' /\ pc'[c] \notin {"step", "check", "fix"}
    BY <1>0, <1>8 DEF ReuseRejection, EndGate, Ending, TypeOK
  <2>2. QED
    BY <2>1 DEF Repaired
<1>9. CASE Persist(c) \/ Save(c)
  <2>1. /\ Ending(c, "admitted")' => Ending(c, "admitted")
        /\ pc'[c] \notin {"step", "check", "fix"}
        /\ UNCHANGED <<dir, fixer>>
    BY <1>0, <1>9 DEF Persist, Save, Ending, Typed, Placed, Outcomes, TypeOK
  <2>2. QED
    BY <1>0, <2>1, AcceptedStays DEF Repaired
<1>10. QED
  BY <1>1, <1>2, <1>3, <1>4, <1>5, <1>6, <1>7, <1>8, <1>9 DEF Gating

LEMMA RepairStep ==
  ASSUME Typed, RepairInv, [Next]_vars
  PROVE  RepairInv'
<1>1. ASSUME NEW c \in Cases, Gating(c)
      PROVE  RepairInv'
  <2>1. Repaired(c)'
    BY <1>1, OwnRepair DEF RepairInv
  <2>2. ASSUME NEW d \in Cases \ {c} PROVE Repaired(d)'
    <3>1. Frame(c)
      BY <1>1, GatingFrame DEF Typed
    <3>2. Accepted(d) => Accepted(d)'
      BY <2>2, <3>1 DEF Frame, Same, Accepted, Rechecked, Heard
    <3>3. QED
      BY <2>2, <3>1, <3>2 DEF Frame, Same, RepairInv, Repaired, Ending
  <2>3. QED
    BY <2>1, <2>2 DEF RepairInv
<1>2. CASE Begin \/ Crash \/ \E i \in StepIds : EditCheck(i)
  <2>1. pc' = [c \in Cases |-> "queued"]
    BY <1>2 DEF Begin, Crash, Fresh, EditCheck
  <2>2. QED
    BY <2>1 DEF RepairInv, Repaired, Ending
<1>3. CASE Return \/ Interrupt \/ UNCHANGED vars
  BY <1>3 DEF Return, Interrupt, vars, RepairInv, Repaired, Accepted, Rechecked, Heard, Ending
<1>4. ASSUME NEW c \in Cases, EditCase(c)
      PROVE  RepairInv'
  <2>1. /\ pc'[c] = "queued" /\ UNCHANGED <<gate, def, history>>
        /\ \A d \in Cases \ {c} : pc'[d] = pc[d] /\ dir'[d] = dir[d]
    BY <1>4 DEF EditCase, Typed, TypeOK
  <2>2. QED
    BY <2>1 DEF RepairInv, Repaired, Accepted, Rechecked, Heard, Ending
<1>5. QED
  BY <1>1, <1>2, <1>3, <1>4 DEF Next

----------------------------------------------------------------------------
(* Memory and the file.                                                    *)
LEMMA NewerReflexive == \A d \in MaybeVerdict : Newer(d, d)
BY DEF Newer, Known, MaybeVerdict, Verdict

LEMMA NewerTransitive ==
  ASSUME NEW a \in MaybeVerdict, NEW b \in MaybeVerdict, NEW d \in MaybeVerdict,
         Newer(a, b), Newer(b, d)
  PROVE  Newer(a, d)
BY DEF Newer, Known, MaybeVerdict, Verdict

(* A gate that has begun keeps its key, and does not begin again.          *)
LEMMA BegunStays ==
  ASSUME Typed, NEW c \in Cases, Gating(c)
  PROVE  pc'[c] # "queued" /\ (pc[c] # "queued" => key'[c] = key[c])
<1>0. TypeOK
  BY DEF Typed
<1>1. CASE GiveUp(c) \/ ResolveFails(c) \/ Resolve(c) \/ Run(c) \/ Fix(c) \/ Persist(c)
  BY <1>0, <1>1 DEF GiveUp, ResolveFails, Resolve, Run, Fix, Persist, TypeOK
<1>2. CASE Reuse(c)
  BY <1>0, <1>2 DEF Reuse, AtStep, TypeOK
<1>3. CASE ReuseRejection(c) \/ AllPassed(c)
  BY <1>0, <1>3 DEF ReuseRejection, AllPassed, EndGate, TypeOK
<1>4. CASE SaysYes(c)
  BY <1>0, <1>4 DEF SaysYes, StepPassed, TypeOK
<1>5. CASE SaysNo(c) \/ CannotSay(c)
  <2>1. PICK i \in StepIds, how \in Failures : step[c] = i /\ CheckFailed(c, i, how)
    BY <1>5, CheckFails
  <2>2. pc[c] = "check"
    BY <1>5, CheckFails
  <2>3. QED
    BY <2>1, <2>2, CheckFailedLeaves
<1>6. CASE FixFails(c)
  <2>1. /\ pc[c] = "fix" /\ step[c] \in StepIds /\ err[c] \in Failures
        /\ StepFailed(c, step[c], err[c])
    BY <1>6 DEF FixFails, Typed, Placed
  <2>2. QED
    BY <2>1, StepFailedLeaves
<1>7. CASE Save(c)
  BY <1>0, <1>7 DEF Save, TypeOK, Typed, Placed, Outcomes
<1>8. QED
  BY <1>1, <1>2, <1>3, <1>4, <1>5, <1>6, <1>7 DEF Gating

LEMMA TwinsStay ==
  ASSUME Typed, NEW c \in Cases, Gating(c), NEW v, Twins(v)
  PROVE  Twins(v)'
<1>1. PICK a, b \in Cases : /\ a # b /\ {key[a], key[b]} = {v}
                            /\ "queued" \notin {pc[a], pc[b]}
  BY DEF Twins
<1>2. \A d \in Cases : pc[d] # "queued" => pc'[d] # "queued" /\ key'[d] = key[d]
  BY BegunStays, GatingFrame DEF Frame, Same, Typed
<1>3. {key'[a], key'[b]} = {v} /\ "queued" \notin {pc'[a], pc'[b]}
  BY <1>1, <1>2
<1>4. QED
  BY <1>1, <1>3 DEF Twins

(* What a step short of Persist and Save does to a gate's verdicts: it     *)
(* fetches them, keeps them, or adds one of the present definition.        *)
LEMMA HandForm ==
  ASSUME Typed, NEW c \in Cases, Gating(c), ~Persist(c), ~Save(c), InHand(c)'
  PROVE  \/ verdicts'[c] = cache[key'[c]]
         \/ /\ InHand(c) /\ key'[c] = key[c]
            /\ \/ verdicts'[c] = verdicts[c]
               \/ \E i \in StepIds, b \in BOOLEAN :
                    verdicts'[c] = [verdicts[c] EXCEPT ![i] = [fp |-> def[i], passed |-> b]]
<1>0. TypeOK
  BY DEF Typed
<1>1. CASE Resolve(c)
  BY <1>0, <1>1 DEF Resolve, TypeOK
<1>2. ~GiveUp(c) /\ ~ResolveFails(c)
  BY <1>0 DEF GiveUp, ResolveFails, InHand, TypeOK
<1>3. CASE Reuse(c) \/ ReuseRejection(c) \/ Run(c) \/ AllPassed(c) \/ Fix(c)
  BY <1>3 DEF Reuse, ReuseRejection, Run, AllPassed, AtStep, Fix, InHand
<1>4. CASE SaysYes(c)
  BY <1>0, <1>4 DEF SaysYes, InCheck, StepPassed, Record, InHand, TypeOK
<1>5. ASSUME NEW i \in StepIds, NEW how, StepFailed(c, i, how)
      PROVE  /\ key' = key
             /\ \/ verdicts'[c] = verdicts[c]
                \/ \E b \in BOOLEAN :
                     verdicts'[c] = [verdicts[c] EXCEPT ![i] = [fp |-> def[i], passed |-> b]]
  BY <1>0, <1>5 DEF StepFailed, StepPassed, Record, TypeOK
<1>6. CASE SaysNo(c) \/ CannotSay(c)
  <2>1. PICK i \in StepIds, how \in Failures : CheckFailed(c, i, how)
    BY <1>6, CheckFails
  <2>2. InHand(c)
    BY <1>6, CheckFails DEF InHand
  <2>3. QED
    BY <1>5, <2>1, <2>2 DEF CheckFailed
<1>7. CASE FixFails(c)
  <2>1. step[c] \in StepIds /\ StepFailed(c, step[c], err[c]) /\ InHand(c)
    BY <1>7 DEF FixFails, InHand, Typed, Placed
  <2>2. QED
    BY <1>5, <2>1
<1>8. QED
  BY <1>1, <1>2, <1>3, <1>4, <1>6, <1>7 DEF Gating

LEMMA HandKept ==
  ASSUME Typed, StoresSound, NEW c \in Cases, Gating(c), ~Persist(c), ~Save(c), InHand(c)',
         NEW i \in StepIds, InHand(c) => Newer(cache[key[c]][i], verdicts[c][i])
  PROVE  Newer(cache[key'[c]][i], verdicts'[c][i])
<1>1. Typed'
  BY TypedStep DEF Next
<1>2. /\ cache[key'[c]][i] \in MaybeVerdict /\ verdicts'[c][i] \in MaybeVerdict
      /\ verdicts[c] \in [StepIds -> MaybeVerdict] /\ key'[c] \in Versions
  BY <1>1 DEF Typed, TypeOK
<1>3. CASE verdicts'[c] = cache[key'[c]]
  BY <1>2, <1>3, NewerReflexive
<1>4. CASE InHand(c) /\ key'[c] = key[c] /\ verdicts'[c] = verdicts[c]
  BY <1>4
<1>5. ASSUME InHand(c), key'[c] = key[c], NEW j \in StepIds, NEW b \in BOOLEAN,
             verdicts'[c] = [verdicts[c] EXCEPT ![j] = [fp |-> def[j], passed |-> b]]
      PROVE  Newer(cache[key'[c]][i], verdicts'[c][i])
  <2>1. CASE i # j
    BY <1>2, <1>5, <2>1
  <2>2. CASE i = j
    <3>1. verdicts'[c][i].fp = def[i] /\ def[i] \in Nat
      BY <1>2, <1>5, <2>2 DEF Typed, TypeOK
    <3>2. Known(verdicts'[c][i])
      BY <3>1 DEF Known, NoVerdict
    <3>3. Known(cache[key'[c]][i]) => cache[key'[c]][i].fp <= def[i]
      BY <1>2 DEF StoresSound, Sound, SoundIn
    <3>4. Known(cache[key'[c]][i]) => cache[key'[c]][i].fp \in Nat
      BY <1>2 DEF MaybeVerdict, Known, Verdict
    <3>5. QED
      BY <3>1, <3>2, <3>3, <3>4 DEF Newer
  <2>3. QED
    BY <2>1, <2>2
<1>6. QED
  BY <1>3, <1>4, <1>5, HandForm

LEMMA GatingKeeps ==
  ASSUME Typed, VerdictInv, KeepInv, NEW c \in Cases, Gating(c)
  PROVE  KeepInv'
<1>1. SUFFICES ASSUME NEW v \in Versions \ repaired', NEW i \in StepIds, ~Twins(v)',
                      phase' = "gating"
               PROVE  Kept(v, i)'
  BY DEF KeepInv
<1>2. Frame(c) /\ v \in Versions \ repaired /\ ~Twins(v) /\ phase = "gating"
  BY <1>1, GatingFrame, TwinsStay DEF Frame, Typed
<1>3. Kept(v, i)
  BY <1>2 DEF KeepInv
<1>4. \A d \in Cases \ {c} : InHand(d)' /\ key'[d] = v =>
        InHand(d) /\ key[d] = v /\ verdicts'[d] = verdicts[d]
  BY <1>2 DEF Frame, Same, InHand
<1>5. CASE ~Persist(c) /\ ~Save(c)
  <2>1. UNCHANGED stores
    BY <1>5 DEF Gating, GiveUp, Resolve, ResolveFails, Reuse, ReuseRejection, Run, AllPassed,
                SaysYes, SaysNo, CannotSay, Fix, FixFails
  <2>2. InHand(c)' /\ key'[c] = v => Newer(cache[v][i], verdicts'[c][i])
    <3>1. SUFFICES ASSUME InHand(c)', key'[c] = v PROVE Newer(cache[v][i], verdicts'[c][i])
      OBVIOUS
    <3>2. InHand(c) => key'[c] = key[c]
      BY BegunStays DEF InHand
    <3>3. InHand(c) => Newer(cache[key[c]][i], verdicts[c][i])
      BY <1>3, <3>1, <3>2 DEF Kept
    <3>4. QED
      BY <1>5, <3>1, <3>3, HandKept DEF VerdictInv
  <2>3. QED
    BY <1>3, <1>4, <2>1, <2>2 DEF Kept
<1>6. CASE Persist(c)
  <2>1. PICK e \in {Entry(c, key[c], sha[c]), Entry(c, sha[c], key[c])} :
          cache' = [w \in Versions |-> IF w \in {key[c], sha[c]} THEN e ELSE cache[w]]
    BY <1>6 DEF Persist
  <2>2. /\ pc[c] = "persist" /\ UNCHANGED <<disk, key, verdicts>> /\ ~InHand(c)'
        /\ Gated(c) /\ InHand(c)
    BY <1>6 DEF Persist, InHand, Gated, Active, Typed, TypeOK
  <2>3. CASE v \notin {key[c], sha[c]}
    <3>1. cache'[v] = cache[v]
      BY <2>1, <2>3
    <3>2. QED
      BY <1>3, <1>4, <2>2, <3>1 DEF Kept
  <2>4. CASE v \in {key[c], sha[c]}
    <3>1. key[c] = v /\ sha[c] = v
      BY <1>2, <2>2, <2>4 DEF VerdictInv, Bytes
    <3>2. cache'[v][i] = e[i]
      BY <2>1, <2>4
    <3>3. e[i] \in {verdicts[c][i], cache[v][i]} /\ (Known(verdicts[c][i]) => e[i] = verdicts[c][i])
      BY <2>1, <3>1 DEF Entry, CarryOver
    <3>4. /\ disk[v][i] \in MaybeVerdict /\ cache[v][i] \in MaybeVerdict
          /\ verdicts[c][i] \in MaybeVerdict
      BY DEF Typed, TypeOK
    <3>5. Newer(disk[v][i], cache[v][i]) /\ Newer(cache[v][i], verdicts[c][i])
      BY <1>3, <2>2, <3>1 DEF Kept
    <3>6. Newer(disk[v][i], e[i])
      BY <3>3, <3>4, <3>5, NewerTransitive
    <3>7. ASSUME NEW d \in Cases, InHand(d)', key'[d] = v PROVE FALSE
      <4>1. d # c /\ InHand(d) /\ key[d] = v
        BY <1>4, <2>2, <3>7
      <4>2. {key[c], key[d]} = {v} /\ "queued" \notin {pc[c], pc[d]}
        BY <2>2, <3>1, <4>1 DEF InHand
      <4>3. QED
        BY <1>2, <4>1, <4>2 DEF Twins
    <3>8. QED
      BY <2>2, <3>2, <3>6, <3>7 DEF Kept
  <2>5. QED
    BY <2>3, <2>4
<1>7. CASE Save(c)
  <2>1. disk' = cache /\ cache' = cache /\ cache[v][i] \in MaybeVerdict
    BY <1>7 DEF Save, Typed, TypeOK
  <2>2. ~InHand(c)'
    BY <1>7 DEF Save, InHand, Outcomes, Typed, TypeOK, Placed
  <2>3. QED
    BY <1>3, <1>4, <2>1, <2>2, NewerReflexive DEF Kept
<1>8. QED
  BY <1>5, <1>6, <1>7

LEMMA KeepStep ==
  ASSUME Typed, VerdictInv, KeepInv, [Next]_vars
  PROVE  KeepInv'
<1>1. CASE \E c \in Cases : Gating(c)
  BY <1>1, GatingKeeps
<1>2. CASE Begin
  <2>1. cache' = disk /\ disk' = disk /\ \A c \in Cases : pc'[c] = "queued"
    BY <1>2 DEF Begin, Fresh
  <2>2. \A v \in Versions, i \in StepIds : disk[v][i] \in MaybeVerdict
    BY DEF Typed, TypeOK
  <2>3. QED
    BY <2>1, <2>2, NewerReflexive DEF KeepInv, Kept, InHand
<1>3. CASE Return \/ Crash
  BY <1>3 DEF Return, Crash, KeepInv
<1>4. CASE (\E c \in Cases : EditCase(c)) \/ (\E i \in StepIds : EditCheck(i))
  BY <1>4 DEF EditCase, EditCheck, KeepInv
<1>5. CASE Interrupt \/ UNCHANGED vars
  BY <1>5 DEF Interrupt, vars, KeepInv, Kept, InHand, Twins
<1>6. QED
  BY <1>1, <1>2, <1>3, <1>4, <1>5 DEF Next

----------------------------------------------------------------------------
(* The list that perCase returns.                                          *)
LEMMA OwnUnjudged ==
  ASSUME Typed, NEW c \in Cases, Gating(c), pc'[c] = "unjudged"
  PROVE  GiveUp(c)
<1>0. TypeOK
  BY DEF Typed
<1>1. ~(Resolve(c) \/ ResolveFails(c) \/ Run(c) \/ Fix(c) \/ Persist(c))
  BY <1>0 DEF Resolve, ResolveFails, Run, Fix, Persist, TypeOK
<1>2. ~(Reuse(c) \/ SaysYes(c))
  BY <1>0 DEF Reuse, AtStep, SaysYes, StepPassed, TypeOK
<1>3. ~(ReuseRejection(c) \/ AllPassed(c))
  BY <1>0 DEF ReuseRejection, AllPassed, EndGate, TypeOK
<1>4. ~(SaysNo(c) \/ CannotSay(c))
  <2>1. SUFFICES ASSUME SaysNo(c) \/ CannotSay(c) PROVE FALSE
    OBVIOUS
  <2>2. PICK i \in StepIds, how \in Failures : step[c] = i /\ CheckFailed(c, i, how)
    BY <2>1, CheckFails
  <2>3. pc[c] = "check"
    BY <2>1, CheckFails
  <2>4. QED
    BY <2>2, <2>3, CheckFailedLeaves
<1>5. ~FixFails(c)
  <2>1. SUFFICES ASSUME FixFails(c) PROVE FALSE
    OBVIOUS
  <2>2. /\ pc[c] = "fix" /\ step[c] \in StepIds /\ err[c] \in Failures
        /\ StepFailed(c, step[c], err[c])
    BY <2>1 DEF FixFails, Typed, Placed
  <2>3. QED
    BY <2>2, StepFailedLeaves
<1>6. ~Save(c)
  BY <1>0 DEF Save, TypeOK, Typed, Placed, Outcomes
<1>7. QED
  BY <1>1, <1>2, <1>3, <1>4, <1>5, <1>6 DEF Gating

LEMMA GatingPhase == ASSUME NEW c \in Cases, Gating(c) PROVE phase = "gating"
BY DEF Gating, GiveUp, Resolve, ResolveFails, Reuse, ReuseRejection, Run, AllPassed, AtStep,
       SaysYes, SaysNo, CannotSay, InCheck, Fix, FixFails, Persist, Save

LEMMA ListStep ==
  ASSUME Typed, ListInv, [Next]_vars
  PROVE  ListInv'
<1>1. ASSUME NEW c \in Cases, Gating(c)
      PROVE  ListInv'
  <2>1. phase = "gating" /\ phase' = "gating" /\ Frame(c)
    BY <1>1, GatingPhase, GatingFrame DEF Frame, Typed
  <2>2. ASSUME NEW d \in Cases, pc'[d] = "unjudged" PROVE Stopped'
    <3>1. CASE d = c
      <4>1. Stopped
        BY <1>1, <2>2, <3>1, OwnUnjudged DEF GiveUp
      <4>2. QED
        BY <1>1, <4>1, StoppedStays
    <3>2. CASE d # c
      <4>1. pc[d] = "unjudged"
        BY <2>1, <2>2, <3>2 DEF Frame, Same
      <4>2. QED
        BY <1>1, <2>1, <4>1, StoppedStays DEF ListInv
    <3>3. QED
      BY <3>1, <3>2
  <2>3. QED
    BY <2>1, <2>2 DEF ListInv, NothingIsLost
<1>2. CASE Begin
  BY <1>2 DEF Begin, Fresh, ListInv, NothingIsLost
<1>3. CASE Crash
  BY <1>3 DEF Crash, ListInv, NothingIsLost
<1>4. CASE Return
  <2>1. phase = "gating" /\ phase' = "down" /\ listed' = Outcome /\ UNCHANGED <<pc, cancelled>>
    BY <1>4 DEF Return
  <2>2. ASSUME listed'.ok, NEW c \in Cases, pc[c] \in Ended, c \notin listed'.cases
        PROVE  pc[c] = "rejected" \/ cancelled
    <3>1. /\ \A d \in Cases : pc[d] # "failed"
          /\ listed'.cases = {d \in Cases : pc[d] = "admitted"}
      BY <2>1, <2>2 DEF Outcome
    <3>2. pc[c] \in {"rejected", "unjudged"}
      BY <2>2, <3>1 DEF Ended
    <3>3. pc[c] = "unjudged" => cancelled
      BY <2>1, <3>1 DEF ListInv, Stopped
    <3>4. QED
      BY <3>2, <3>3
  <2>3. QED
    BY <2>1, <2>2 DEF ListInv, NothingIsLost
<1>5. CASE Interrupt \/ UNCHANGED vars
  BY <1>5 DEF Interrupt, vars, ListInv, NothingIsLost, Stopped
<1>6. ASSUME NEW c \in Cases, EditCase(c)
      PROVE  ListInv'
  <2>1. /\ pc' = [pc EXCEPT ![c] = "queued"]
        /\ UNCHANGED <<phase, listed, cancelled>> /\ phase = "down" /\ TypeOK
    BY <1>6 DEF EditCase, Typed
  <2>2. \A d \in Cases : pc'[d] \in Ended => pc'[d] = pc[d]
    BY <2>1 DEF TypeOK, Ended
  <2>3. QED
    BY <2>1, <2>2 DEF ListInv, NothingIsLost
<1>7. ASSUME NEW i \in StepIds, EditCheck(i)
      PROVE  ListInv'
  <2>1. /\ \A d \in Cases : pc'[d] = "queued"
        /\ UNCHANGED <<phase, listed, cancelled>> /\ phase = "down"
    BY <1>7 DEF EditCheck
  <2>2. QED
    BY <2>1 DEF ListInv, NothingIsLost, Ended
<1>8. QED
  BY <1>1, <1>2, <1>3, <1>4, <1>5, <1>6, <1>7 DEF Next

----------------------------------------------------------------------------
(* Theorems.                                                               *)

(* Every variable keeps its type, and a gate has a step where it needs one *)
(* and an outcome where it leaves (GateOne, RunList).                      *)
THEOREM Typing == Spec => []Typed
<1>1. Init => Typed
  BY InitTyped
<1>2. Typed /\ [Next]_vars => Typed'
  BY TypedStep
<1>3. QED
  BY <1>1, <1>2, PTL DEF Spec

(* The inductive invariant of the gate.                                    *)
GateInv ==
  /\ Typed /\ VerdictInv /\ JudgedInv /\ RejectionInv /\ RepairInv /\ KeepInv /\ ListInv

(* Every verdict in a gate's hands, in memory and on disk is sound, every  *)
(* gate has been judged by the steps behind it, and memory is not behind   *)
(* the file (GateOne, RunList, persistGateVerdicts, saveGateCache).        *)
THEOREM GateCorrect == Spec => []GateInv
<1>1. Init => GateInv
  <2>1. SUFFICES ASSUME Init PROVE GateInv
    OBVIOUS
  <2>2. \A c \in Cases : pc[c] = "queued"
    BY <2>1 DEF Init
  <2>3. JudgedInv /\ RejectionInv /\ RepairInv
    BY <2>1, <2>2 DEF Init, JudgedInv, JudgedSoFar, RejectionInv, RepairInv, Repaired, Gated,
                      Ending, Active
  <2>4. KeepInv /\ ListInv
    BY <2>1, <2>2 DEF Init, KeepInv, ListInv, NothingIsLost, Ended
  <2>5. QED
    BY <2>1, <2>3, <2>4, InitTyped, InitVerdicts DEF GateInv
<1>2. GateInv /\ [Next]_vars => GateInv'
  BY TypedStep, VerdictStep, JudgedStep, RejectionStep, RepairStep, KeepStep, ListStep DEF GateInv
<1>3. QED
  BY <1>1, <1>2, PTL DEF Spec

(* A cached verdict on content no repair has touched is one that the check *)
(* it names, in the definition it is filed for, has given on those bytes,  *)
(* or a no for its silence on them (persistGateVerdicts).                  *)
THEOREM Earning == Spec => []VerdictsAreEarned
<1>1. GateInv => VerdictsAreEarned
  BY DEF GateInv, VerdictInv, StoresSound, Sound, SoundIn, Heard, HeardIn,
         VerdictsAreEarned, Earned
<1>2. QED
  BY <1>1, GateCorrect, PTL

(* An admitted case was accepted, on the bytes that will be measured, by   *)
(* the present definition of every check that can refuse it (GateOne).     *)
THEOREM Judging == Spec => []AdmittedIsJudged
<1>1. GateInv => AdmittedIsJudged
  <2>1. SUFFICES ASSUME GateInv, NEW c \in Cases, pc[c] = "admitted", dir[c] \notin repaired,
                        NEW i \in StepIds, Steps[i].onFailure # "warn"
                 PROVE  Heard(i, def[i], dir[c], TRUE)
    BY DEF AdmittedIsJudged, Judged
  <2>2. dir[c] = key[c]
    BY <2>1 DEF GateInv, VerdictInv, Bytes, Gated
  <2>3. step[c] > Len(Steps)
    BY <2>1 DEF GateInv, JudgedInv, JudgedSoFar, Ending
  <2>4. i < step[c]
    <3>1. step[c] \in 1 .. Len(Steps) + 1 /\ i \in 1 .. Len(Steps) /\ Len(Steps) \in Nat
      BY <2>1, StepsTyped DEF StepIds, GateInv, Typed, TypeOK
    <3>2. QED
      BY <2>3, <3>1
  <2>5. QED
    BY <2>1, <2>2, <2>4 DEF GateInv, JudgedInv, JudgedSoFar, Gated
<1>2. QED
  BY <1>1, GateCorrect, PTL

(* A case is rejected only by a no, or the silence, of a check that may    *)
(* reject it: a reported outage or an interrupt rejects nobody (RunList,   *)
(* Runner.probe).                                                          *)
THEOREM Rejecting == Spec => []RejectionIsAnAnswer
<1>1. GateInv => RejectionIsAnAnswer
  <2>1. SUFFICES ASSUME GateInv, NEW c \in Cases, pc[c] = "rejected"
                 PROVE  \E i \in StepIds, v \in {key[c]} \union repaired :
                          Steps[i].onFailure = "skip" /\ Heard(i, def[i], v, FALSE)
    BY DEF RejectionIsAnAnswer
  <2>2. PICK i \in StepIds :
          Known(verdicts[c][i]) /\ verdicts[c][i].fp = def[i] /\ ~verdicts[c][i].passed
    BY <2>1 DEF GateInv, RejectionInv, RejectedBy, Ending
  <2>3. Sound(i, key[c], verdicts[c][i])
    BY <2>1 DEF GateInv, VerdictInv, HandSound, Gated
  <2>4. QED
    BY <2>2, <2>3 DEF Sound, SoundIn, Heard, HeardIn
<1>2. QED
  BY <1>1, GateCorrect, PTL

(* The hash recorded for an admitted case is the hash of the bytes that    *)
(* will be measured or, when those could not be hashed, of the bytes that  *)
(* the gate began with (GateOne's second HashDir).                         *)
THEOREM Hashing == Spec => []MeasuredBytesAreHashed
<1>1. GateInv => MeasuredBytesAreHashed
  BY DEF GateInv, VerdictInv, Bytes, Ending, MeasuredBytesAreHashed
<1>2. QED
  BY <1>1, GateCorrect, PTL

(* A repaired case is admitted only after the check that had it repaired   *)
(* last has said yes to the repaired bytes, or only warns (RunList).       *)
THEOREM Rechecking == Spec => []RepairIsRechecked
<1>1. GateInv => RepairIsRechecked
  <2>1. SUFFICES ASSUME GateInv, NEW c \in Cases, pc[c] = "admitted", fixer[c] # 0
                 PROVE  Rechecked(fixer[c], dir[c])
    BY DEF RepairIsRechecked
  <2>2. QED
    BY <2>1 DEF GateInv, RepairInv, Repaired, Accepted, Ending
<1>2. QED
  BY <1>1, GateCorrect, PTL

(* A case that is missing from the list perCase returns was rejected, or   *)
(* the run was cancelled (perCase).                                        *)
THEOREM Listing == Spec => []NothingIsLost
<1>1. GateInv => NothingIsLost
  BY DEF GateInv, ListInv
<1>2. QED
  BY <1>1, GateCorrect, PTL

(* No step loses a verdict of gate-cache.json, or puts an older one in its *)
(* place, but for two gates of the same content (persistGateVerdicts,      *)
(* saveGateCache).                                                         *)
THEOREM Filing == Spec => FiledVerdictIsKept
<1>1. GateInv /\ [Next]_vars =>
        [\A v \in Versions \ repaired, i \in StepIds :
           Known(disk[v][i]) /\ ~Twins(v) =>
             Known(disk'[v][i]) /\ disk'[v][i].fp >= disk[v][i].fp]_vars
  <2>1. SUFFICES ASSUME GateInv, Next, NEW v \in Versions \ repaired, NEW i \in StepIds, ~Twins(v)
                 PROVE  Newer(disk[v][i], disk'[v][i])
    BY DEF Newer
  <2>2. CASE disk' = disk
    <3>1. disk[v][i] \in MaybeVerdict
      BY <2>1 DEF GateInv, Typed, TypeOK
    <3>2. QED
      BY <2>2, <3>1, NewerReflexive
  <2>3. ASSUME NEW c \in Cases, Save(c)
        PROVE  Newer(disk[v][i], disk'[v][i])
    BY <2>1, <2>3 DEF Save, GateInv, KeepInv, Kept
  <2>4. QED
    BY <2>1, <2>2, <2>3
       DEF Next, Begin, Return, Interrupt, Crash, EditCase, EditCheck,
           Gating, GiveUp, Resolve, ResolveFails, Reuse, ReuseRejection, Run, AllPassed,
           SaysYes, SaysNo, CannotSay, Fix, FixFails, Persist
<1>2. QED
  BY <1>1, GateCorrect, PTL DEF Spec, FiledVerdictIsKept
=============================================================================
