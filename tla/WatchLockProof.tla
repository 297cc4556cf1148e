--------------------------- MODULE WatchLockProof ---------------------------
(***************************************************************************)
(* Theorems about the lock file of WatchLock, for every set of pids, every *)
(* relation of who may signal whom and every number of starts and crashes. *)
(***************************************************************************)
EXTENDS WatchLock, TLAPS

----------------------------------------------------------------------------
(* Typing.                                                                 *)
FileOK ==
  /\ file \in [by : Pids \union {Nothing}, written : BOOLEAN]
  /\ Present <=> file.by \in Pids

LEMMA InitFile == Init => FileOK
<1>1. SUFFICES ASSUME Init PROVE FileOK
  OBVIOUS
<1>2. CASE file = NoLock
  BY <1>2, WatchLockAssumption DEF FileOK, Present, NoLock, Lock
<1>3. CASE \E p \in Pids, w \in BOOLEAN : file = Lock(p, w)
  BY <1>3, WatchLockAssumption DEF FileOK, Present, NoLock, Lock
<1>4. QED
  BY <1>1, <1>2, <1>3 DEF Init

LEMMA FileStep == ASSUME FileOK, Next PROVE FileOK'
<1>1. ASSUME file' = NoLock PROVE FileOK'
  BY <1>1, WatchLockAssumption DEF FileOK, Present, NoLock, Lock
<1>2. ASSUME NEW p \in Pids, NEW w \in BOOLEAN, file' = Lock(p, w) PROVE FileOK'
  BY <1>2, WatchLockAssumption DEF FileOK, Present, NoLock, Lock
<1>3. ASSUME UNCHANGED file PROVE FileOK'
  BY <1>3 DEF FileOK, Present
<1>4. file' = NoLock \/ UNCHANGED file \/ \E p \in Pids, w \in BOOLEAN : file' = Lock(p, w)
  BY DEF Next, Acquire, Start, ClaimFree, ClaimTaken, WritePid, Read, Judge, Sweep, Exit,
         Quit, Crash, Reuse
<1>5. QED
  BY <1>1, <1>2, <1>3, <1>4

(* TypeOK: every variable has the values the code can give it.             *)
THEOREM Typing == Spec => []TypeOK
<1>1. Init => TypeOK
  <2>1. SUFFICES ASSUME Init PROVE TypeOK
    OBVIOUS
  <2>2. FileOK
    BY <2>1, InitFile
  <2>3. starts \in 0 .. MaxStarts /\ crashes \in 0 .. MaxCrashes
    BY <2>1, WatchLockAssumption DEF Init
  <2>4. QED
    BY <2>1, <2>2, <2>3 DEF Init, TypeOK, FileOK
<1>2. TypeOK /\ [Next]_vars => TypeOK'
  <2>1. SUFFICES ASSUME TypeOK, [Next]_vars PROVE TypeOK'
    OBVIOUS
  <2>2. CASE UNCHANGED vars
    BY <2>1, <2>2 DEF TypeOK, vars, counters, Present
  <2>3. ASSUME Next PROVE TypeOK'
    <3>1. FileOK'
      BY <2>1, <2>3, FileStep DEF TypeOK, FileOK
    <3>2. pc' \in [Pids -> Acquiring \union {"down", "holds", "refused"}]
      BY <2>1, <2>3 DEF TypeOK, Next, Acquire, Start, ClaimFree, ClaimTaken, WritePid, Read,
                        Judge, Sweep, Exit, Quit, Crash, Reuse, Go, Acquiring
    <3>3. saw' \in [Pids -> Pids \union {Nothing}]
      <4>1. ASSUME NEW p \in Pids, Read(p) PROVE saw' \in [Pids -> Pids \union {Nothing}]
        BY <2>1, <4>1 DEF TypeOK, Read
      <4>2. QED
        BY <2>1, <2>3, <4>1 DEF TypeOK, Next, Acquire, Start, ClaimFree, ClaimTaken,
             WritePid, Judge, Sweep, Exit, Quit, Crash, Reuse
    <3>4. foreign' \subseteq Pids /\ lapses' \subseteq {"race", "denied"}
      BY <2>1, <2>3 DEF TypeOK, Next, Acquire, Start, ClaimFree, ClaimTaken, WritePid, Read,
                        Judge, Sweep, Exit, Quit, Crash, Reuse
    <3>5. starts' \in 0 .. MaxStarts /\ crashes' \in 0 .. MaxCrashes
      <4>1. starts \in 0 .. MaxStarts /\ crashes \in 0 .. MaxCrashes
        BY <2>1 DEF TypeOK
      <4>2. \/ starts < MaxStarts /\ starts' = starts + 1 /\ crashes' = crashes
            \/ crashes < MaxCrashes /\ crashes' = crashes + 1 /\ starts' = starts
            \/ UNCHANGED counters
        BY <2>3 DEF Next, Acquire, Start, ClaimFree, ClaimTaken, WritePid, Read,
                    Judge, Sweep, Exit, Quit, Crash, Reuse, counters
      <4>3. QED
        BY <4>1, <4>2, WatchLockAssumption DEF counters
    <3>6. QED
      BY <3>1, <3>2, <3>3, <3>4, <3>5 DEF TypeOK, FileOK
  <2>4. QED
    BY <2>1, <2>2, <2>3
<1>3. QED
  BY <1>1, <1>2, PTL DEF Spec

----------------------------------------------------------------------------
(* As long as nothing has lapsed: one process is in acquireLock at a time, *)
(* the owner's lock is at the path, and whoever is about to sweep or to    *)
(* judge has no owner in front of it, or the right one.                    *)
OneAcquires == \A p, q \in Pids : pc[p] \in Acquiring /\ pc[q] \in Acquiring => p = q
OneOwns == \A p, q \in Pids : pc[p] \in Owning /\ pc[q] \in Owning => p = q
OwnerHasFile ==
  /\ \A p \in Pids : pc[p] = "holds" => file = Lock(p, TRUE)
  /\ \A p \in Pids : pc[p] = "write" => file = Lock(p, FALSE)
SweepIsSafe == \A p, q \in Pids : pc[p] = "sweep" => pc[q] \notin Owning
JudgeSeesHolder == \A p, q \in Pids : pc[p] = "judge" /\ pc[q] = "holds" => saw[p] = q

Orderly == OneAcquires /\ OneOwns /\ OwnerHasFile /\ SweepIsSafe /\ JudgeSeesHolder
LockInv == lapses = {} => Orderly

LEMMA LapsesStay == ASSUME Next, lapses' = {} PROVE lapses = {}
BY DEF Next, Acquire, Start, ClaimFree, ClaimTaken, WritePid, Read, Judge, Sweep, Exit,
       Quit, Crash, Reuse

USE DEF OneAcquires, OneOwns, OwnerHasFile, SweepIsSafe, JudgeSeesHolder, Acquiring, Owning, Go

LEMMA OrderlyStep ==
  ASSUME TypeOK, Orderly, Next, lapses' = {}
  PROVE  Orderly'
<1>0. pc \in [Pids -> Acquiring \union {"down", "holds", "refused"}] /\ saw \in [Pids -> Pids \union {Nothing}]
  BY DEF TypeOK
<1>1. ASSUME NEW p \in Pids, Start(p) PROVE Orderly'
  <2>1. \A q \in Pids : pc[q] \notin Acquiring
    BY <1>1 DEF Start
  <2>2. QED
    BY <1>0, <1>1, <2>1 DEF Orderly, Start
<1>2. ASSUME NEW p \in Pids, ClaimFree(p) PROVE Orderly'
  <2>1. \A q \in Pids : pc[q] # "holds"
    BY <1>2, WatchLockAssumption DEF Orderly, ClaimFree, Present, NoLock, Lock
  <2>2. \A q \in Pids : q # p => pc[q] \notin Acquiring
    BY <1>2 DEF Orderly, ClaimFree
  <2>3. QED
    BY <1>0, <1>2, <2>1, <2>2 DEF Orderly, ClaimFree
<1>3. ASSUME NEW p \in Pids, ClaimTaken(p) PROVE Orderly'
  BY <1>0, <1>3 DEF Orderly, ClaimTaken
<1>4. ASSUME NEW p \in Pids, WritePid(p) PROVE Orderly'
  <2>1. \A q \in Pids : q # p => pc[q] \notin Acquiring /\ pc[q] # "holds"
    BY <1>4 DEF Orderly, WritePid
  <2>2. file' = Lock(p, TRUE)
    BY <1>4 DEF Orderly, WritePid
  <2>3. QED
    BY <1>0, <1>4, <2>1, <2>2 DEF Orderly, WritePid
<1>5. ASSUME NEW p \in Pids, Read(p) PROVE Orderly'
  <2>1. \A q \in Pids : q # p => pc[q] \notin Acquiring
    BY <1>5 DEF Orderly, Read
  <2>2. CASE pc'[p] = "refused"
    BY <1>0, <1>5, <2>1, <2>2 DEF Orderly, Read
  <2>3. CASE pc'[p] = "sweep" /\ ~file.written
    <3>1. \A q \in Pids : pc[q] # "holds"
      BY <2>3 DEF Orderly, Lock
    <3>2. QED
      BY <1>0, <1>5, <2>1, <2>3, <3>1 DEF Orderly, Read
  <2>4. CASE pc'[p] = "judge" /\ saw'[p] = file.by
    <3>1. \A q \in Pids : pc[q] = "holds" => saw'[p] = q
      BY <2>4 DEF Orderly, Lock
    <3>2. QED
      BY <1>0, <1>5, <2>1, <2>4, <3>1 DEF Orderly, Read
  <2>5. QED
    BY <1>0, <1>5, <2>2, <2>3, <2>4 DEF Read
<1>6. ASSUME NEW p \in Pids, Judge(p) PROVE Orderly'
  <2>1. \A q \in Pids : q # p => pc[q] \notin Acquiring
    BY <1>6 DEF Orderly, Judge
  <2>2. pc'[p] = "sweep" => \A q \in Pids : pc[q] # "holds"
    <3>1. SUFFICES ASSUME pc'[p] = "sweep", NEW q \in Pids, pc[q] = "holds" PROVE FALSE
      OBVIOUS
    <3>2. saw[p] = q /\ q \in Watches
      BY <1>6, <3>1 DEF Orderly, Judge, Watches
    <3>3. ~Answers(p, saw[p])
      BY <1>0, <1>6, <3>1 DEF Judge
    <3>4. QED
      BY <1>6, <3>2, <3>3 DEF Judge
  <2>3. QED
    BY <1>0, <1>6, <2>1, <2>2 DEF Orderly, Judge
<1>7. ASSUME NEW p \in Pids, Sweep(p) PROVE Orderly'
  <2>1. \A q \in Pids : pc[q] \notin Owning /\ (q # p => pc[q] \notin Acquiring)
    BY <1>7 DEF Orderly, Sweep
  <2>2. QED
    BY <1>0, <1>7, <2>1 DEF Orderly, Sweep
<1>8. ASSUME NEW p \in Pids, Exit(p) PROVE Orderly'
  <2>1. \A q \in Pids : q # p => pc[q] \notin Owning
    BY <1>8 DEF Orderly, Exit
  <2>2. QED
    BY <1>0, <1>8, <2>1 DEF Orderly, Exit
<1>9. ASSUME NEW p \in Pids, Quit(p) PROVE Orderly'
  BY <1>0, <1>9 DEF Orderly, Quit
<1>10. ASSUME NEW p \in Pids, Crash(p) PROVE Orderly'
  BY <1>0, <1>10 DEF Orderly, Crash
<1>11. ASSUME NEW p \in Pids, Reuse(p) PROVE Orderly'
  BY <1>11 DEF Orderly, Reuse
<1>12. QED
  BY <1>1, <1>2, <1>3, <1>4, <1>5, <1>6, <1>7, <1>8, <1>9, <1>10, <1>11 DEF Next, Acquire

(* OneOwnerUnlessRaced: until two processes are in acquireLock together or *)
(* a live holder cannot be signalled, the directory has one owner, whose   *)
(* pid is in the file, over every exit, crash and reuse of a pid.          *)
THEOREM OneOwner == Spec => []OneOwnerUnlessRaced
<1>1. Init => LockInv
  BY DEF Init, LockInv, Orderly
<1>2. TypeOK /\ LockInv /\ [Next]_vars => LockInv'
  <2>1. SUFFICES ASSUME TypeOK, LockInv, [Next]_vars PROVE LockInv'
    OBVIOUS
  <2>2. CASE UNCHANGED vars
    BY <2>1, <2>2 DEF vars, LockInv, Orderly
  <2>3. CASE Next
    BY <2>1, <2>3, LapsesStay, OrderlyStep DEF LockInv
  <2>4. QED
    BY <2>1, <2>2, <2>3
<1>3. LockInv => OneOwnerUnlessRaced
  BY DEF LockInv, Orderly, OneOwnerUnlessRaced, Holders
<1>4. QED
  BY <1>1, <1>2, <1>3, Typing, PTL DEF Spec

----------------------------------------------------------------------------
(* A settled lock.                                                         *)
LEMMA SettledStep ==
  ASSUME TypeOK, Next, NEW q \in Pids, Settled(q)
  PROVE  Settled(q)' \/ pc'[q] = "down"
<1>0. pc \in [Pids -> Acquiring \union {"down", "holds", "refused"}] /\ saw \in [Pids -> Pids \union {Nothing}]
  BY DEF TypeOK
<1>1. PICK p \in Pids : Start(p) \/ Acquire(p) \/ Exit(p) \/ Quit(p) \/ Crash(p) \/ Reuse(p)
  BY DEF Next
<1>2. CASE p = q
  BY <1>0, <1>1, <1>2
  DEF Settled, Start, Acquire, ClaimFree, ClaimTaken, WritePid, Read, Judge, Sweep, Exit, Quit,
      Crash, Reuse, InUse, Watches
<1>3. CASE p # q
  <2>1. file.by = q /\ file.written /\ Present
    BY WatchLockAssumption DEF Settled, Present, NoLock, Lock
  <2>2. pc[p] \in {"down", "claim", "read", "refused"} \/ (pc[p] = "judge" /\ saw[p] = q)
    BY <1>3 DEF Settled
  <2>3. pc[p] = "judge" => Answers(p, saw[p])
    BY <1>3, <2>2 DEF Settled, Answers, InUse, Watches
  <2>4. UNCHANGED file
    BY <1>1, <1>3, <2>1, <2>2
    DEF Settled, Start, Acquire, ClaimFree, ClaimTaken, WritePid, Read, Judge, Sweep, Exit,
        Quit, Crash, Reuse
  <2>5. \A r \in Pids \ {p} : pc'[r] = pc[r] /\ saw'[r] = saw[r]
    <3>1. ASSUME Read(p) PROVE \A r \in Pids \ {p} : pc'[r] = pc[r] /\ saw'[r] = saw[r]
      BY <1>0, <3>1 DEF Read
    <3>2. QED
      BY <1>0, <1>1, <3>1
      DEF Start, Acquire, ClaimFree, ClaimTaken, WritePid, Judge, Sweep, Exit, Quit, Crash, Reuse
  <2>6. pc'[p] \in {"down", "claim", "read", "refused"} \/ (pc'[p] = "judge" /\ saw'[p] = q)
    <3>1. CASE Read(p)
      BY <1>0, <2>1, <3>1 DEF Read
    <3>2. CASE Judge(p)
      BY <1>0, <2>3, <3>2 DEF Judge
    <3>3. CASE Reuse(p)
      BY <2>2, <3>3 DEF Reuse
    <3>4. CASE Start(p) \/ Quit(p) \/ Crash(p)
      BY <1>0, <3>4 DEF Start, Quit, Crash
    <3>5. CASE ClaimFree(p) \/ ClaimTaken(p) \/ WritePid(p) \/ Sweep(p) \/ Exit(p)
      BY <1>0, <2>1, <2>2, <3>5 DEF ClaimFree, ClaimTaken, WritePid, Sweep, Exit
    <3>6. QED
      BY <1>1, <3>1, <3>2, <3>3, <3>4, <3>5 DEF Acquire
  <2>7. QED
    BY <1>3, <2>4, <2>5, <2>6 DEF Settled
<1>4. QED
  BY <1>2, <1>3

(* SettledLockIsKept: a watch whose pid is in the file, and whom everybody *)
(* may signal, keeps the directory until it ends, however many others      *)
(* start and race each other; it needs no condition on the past.           *)
THEOREM SettledIsKept == Spec => SettledLockIsKept
<1>1. TypeOK /\ [Next]_vars => [\A q \in Pids : Settled(q) => Settled(q)' \/ pc'[q] = "down"]_vars
  BY SettledStep
<1>2. QED
  BY <1>1, Typing, PTL DEF Spec, SettledLockIsKept
=============================================================================
