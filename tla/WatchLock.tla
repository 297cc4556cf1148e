------------------------------ MODULE WatchLock ------------------------------
(***************************************************************************)
(* The lock file of a watched directory (internal/cmdwatch/watch.go,       *)
(* acquireLock and the release that Cmd defers): which of the watch        *)
(* processes of one machine believes that it owns the directory.           *)
(*                                                                         *)
(* The claim is an exclusive create, the pid is written afterwards, and a  *)
(* file that is empty or names a pid nobody answers for is removed by      *)
(* path, whatever is there by then.  Processes start, end, die and have    *)
(* their pids given to other programs at any moment, and a file may be     *)
(* left from an earlier life of the machine.  What a watch does with the   *)
(* directory while it owns it is Watch and TrajTopup.                      *)
(***************************************************************************)
EXTENDS Integers

CONSTANTS
  Pids,        \* process ids
  Signals,     \* <<p, q>>: p may signal q (Kill answers nil, not EPERM)
  Nothing,     \* no lock file; no pid read
  MaxStarts,   \* bound: watch processes started
  MaxCrashes   \* bound: watch processes that die without releasing

ASSUME WatchLockAssumption ==
  /\ Signals \subseteq Pids \X Pids
  /\ Nothing \notin Pids
  /\ MaxStarts \in Nat /\ MaxCrashes \in Nat

VARIABLES
  file,      \* the lock file: who created it, and whether its pid is in it
  pc,        \* where each process is in acquireLock
  saw,       \* the pid it read there, Nothing for a torn file
  foreign,   \* the pids that other programs have
  lapses,    \* history: what has happened that the lock does not withstand
  starts, crashes

vars == <<file, pc, saw, foreign, lapses, starts, crashes>>
counters == <<starts, crashes>>

Lock(p, w) == [by |-> p, written |-> w]
NoLock == Lock(Nothing, FALSE)
Present == file # NoLock

Acquiring == {"claim", "read", "judge", "sweep", "write"}
Owning == {"write", "holds"}
Watches == {p \in Pids : pc[p] # "down"}
Holders == {p \in Pids : pc[p] = "holds"}
InUse == Watches \union foreign     \* the pids that some process has

(* Kill(pid, 0) returns nil.                                               *)
Answers(p, q) == q \in InUse /\ <<p, q>> \in Signals

Go(p, where) == pc' = [pc EXCEPT ![p] = where]

Init ==
  /\ file \in {NoLock} \union {Lock(p, w) : p \in Pids, w \in BOOLEAN}
  /\ pc = [p \in Pids |-> "down"]
  /\ saw = [p \in Pids |-> Nothing]
  /\ foreign \in SUBSET Pids
  /\ lapses = {} /\ starts = 0 /\ crashes = 0

----------------------------------------------------------------------------
(* Cmd: a process is born with a pid that nobody has.                      *)
Start(p) ==
  /\ p \notin InUse /\ starts < MaxStarts
  /\ Go(p, "claim")
  /\ starts' = starts + 1
  /\ lapses' = IF \E q \in Pids : pc[q] \in Acquiring THEN lapses \union {"race"} ELSE lapses
  /\ UNCHANGED <<file, saw, foreign, crashes>>

\* Mutant: O_EXCL is forgotten.
ClaimFreeNotExclusive(p) ==
  /\ pc[p] = "claim"
  /\ file' = Lock(p, FALSE)
  /\ Go(p, "write")
  /\ UNCHANGED <<saw, foreign, lapses, counters>>
(* OpenFile(O_CREATE|O_EXCL): the file exists from here, empty.            *)
ClaimFree(p) ==
  /\ pc[p] = "claim" /\ ~Present
  /\ file' = Lock(p, FALSE)
  /\ Go(p, "write")
  /\ UNCHANGED <<saw, foreign, lapses, counters>>

ClaimTaken(p) ==
  /\ pc[p] = "claim" /\ Present
  /\ Go(p, "read")
  /\ UNCHANGED <<file, saw, foreign, lapses, counters>>

(* WriteString goes to the file that was created, wherever its name is     *)
(* now; acquireLock returns and the process owns the directory.            *)
WritePid(p) ==
  /\ pc[p] = "write"
  /\ file' = IF file = Lock(p, FALSE) THEN Lock(p, TRUE) ELSE file
  /\ Go(p, "holds")
  /\ UNCHANGED <<saw, foreign, lapses, counters>>

\* Mutant: an empty file is refused, not swept.
ReadRefusesTorn(p) ==
  /\ pc[p] = "read"
  /\ \/ (~Present \/ ~file.written \/ file.by = p) /\ Go(p, "refused") /\ UNCHANGED saw
     \/ /\ Present /\ file.written /\ file.by # p
        /\ Go(p, "judge") /\ saw' = [saw EXCEPT ![p] = file.by]
  /\ UNCHANGED <<file, foreign, lapses, counters>>
(* ReadFile and Atoi: no file any more, no pid in it, our own pid, or the  *)
(* pid of somebody to judge.                                               *)
Read(p) ==
  /\ pc[p] = "read"
  /\ \/ ~Present /\ Go(p, "refused") /\ UNCHANGED saw
     \/ /\ Present /\ ~file.written
        /\ Go(p, "sweep") /\ saw' = [saw EXCEPT ![p] = Nothing]
     \/ Present /\ file = Lock(p, TRUE) /\ Go(p, "refused") /\ UNCHANGED saw
     \/ /\ Present /\ file.written /\ file.by # p
        /\ Go(p, "judge") /\ saw' = [saw EXCEPT ![p] = file.by]
  /\ UNCHANGED <<file, foreign, lapses, counters>>

(* Kill(pid, 0): any error counts as "gone", EPERM too.                    *)
Judge(p) ==
  /\ pc[p] = "judge"
  /\ IF Answers(p, saw[p]) THEN Go(p, "refused") ELSE Go(p, "sweep")
  /\ lapses' = IF saw[p] \in Watches /\ ~Answers(p, saw[p])
               THEN lapses \union {"denied"} ELSE lapses
  /\ UNCHANGED <<file, saw, foreign, counters>>

(* os.Remove(path) of whatever file has the name now, and another claim.   *)
Sweep(p) ==
  /\ pc[p] = "sweep"
  /\ file' = NoLock
  /\ saw' = [saw EXCEPT ![p] = Nothing]
  /\ Go(p, "claim")
  /\ UNCHANGED <<foreign, lapses, counters>>

(* Cmd returns: release removes the file by its name.                      *)
Exit(p) ==
  /\ pc[p] = "holds"
  /\ file' = NoLock
  /\ Go(p, "down")
  /\ UNCHANGED <<saw, foreign, lapses, counters>>

\* Mutant: release is deferred before the error is looked at.
QuitReleases(p) ==
  /\ pc[p] = "refused"
  /\ file' = NoLock
  /\ Go(p, "down") /\ saw' = [saw EXCEPT ![p] = Nothing]
  /\ UNCHANGED <<foreign, lapses, counters>>
(* A process that was refused ends; it has nothing to release.             *)
Quit(p) ==
  /\ pc[p] = "refused"
  /\ Go(p, "down") /\ saw' = [saw EXCEPT ![p] = Nothing]
  /\ UNCHANGED <<file, foreign, lapses, counters>>

(* kill -9, power loss: what it created stays.                             *)
Crash(p) ==
  /\ pc[p] # "down" /\ crashes < MaxCrashes
  /\ Go(p, "down") /\ saw' = [saw EXCEPT ![p] = Nothing]
  /\ crashes' = crashes + 1
  /\ UNCHANGED <<file, foreign, lapses, starts>>

(* The system gives a free pid to another program, or that program ends.   *)
Reuse(p) ==
  /\ pc[p] = "down"
  /\ foreign' = IF p \in foreign THEN foreign \ {p} ELSE foreign \union {p}
  /\ UNCHANGED <<file, pc, saw, lapses, counters>>

Acquire(p) == ClaimFree(p) \/ ClaimTaken(p) \/ WritePid(p) \/ Read(p) \/ Judge(p) \/ Sweep(p)

Next == \E p \in Pids :
  Start(p) \/ Acquire(p) \/ Exit(p) \/ Quit(p) \/ Crash(p) \/ Reuse(p)

Spec == Init /\ [][Next]_vars

(* acquireLock waits for nobody: a process that is in it goes on.          *)
FairSpec == Spec /\ \A p \in Pids : WF_vars(Acquire(p))

----------------------------------------------------------------------------
(* Each variable has the values the code can give it.                      *)
TypeOK ==
  /\ file \in [by : Pids \union {Nothing}, written : BOOLEAN]
  /\ Present <=> file.by \in Pids
  /\ pc \in [Pids -> Acquiring \union {"down", "holds", "refused"}]
  /\ saw \in [Pids -> Pids \union {Nothing}]
  /\ foreign \subseteq Pids
  /\ lapses \subseteq {"race", "denied"}
  /\ starts \in 0 .. MaxStarts /\ crashes \in 0 .. MaxCrashes

(* "exactly one watch process owns that directory": as long as no two      *)
(* processes were in acquireLock together and no live holder was beyond    *)
(* the reach of Kill, the lock file is the owner's and at most one watch   *)
(* owns the directory, whatever starts, ends, dies and pid reuses went     *)
(* before.  The comment of acquireLock promises it without the condition.  *)
OneOwnerUnlessRaced ==
  lapses = {} =>
    /\ \A p, q \in Pids : pc[p] \in Owning /\ pc[q] \in Owning => p = q
    /\ \A p \in Holders : file = Lock(p, TRUE)

(* q owns the directory with its pid in the file, everybody may signal it, *)
(* and nobody else has decided to remove a file.                           *)
Settled(q) ==
  /\ pc[q] = "holds" /\ file = Lock(q, TRUE)
  /\ \A p \in Pids \ {q} :
       /\ <<p, q>> \in Signals
       /\ pc[p] \in {"down", "claim", "read", "refused"} \/ (pc[p] = "judge" /\ saw[p] = q)

(* Once its pid is in the file a watch keeps the directory until it ends:  *)
(* however many processes then start, race each other and judge its lock,  *)
(* none takes it.  The window acquireLock leaves open is before the write. *)
SettledLockIsKept ==
  [][\A q \in Pids : Settled(q) => Settled(q)' \/ pc'[q] = "down"]_vars

(* The lock file names nobody, or a pid that no process has.               *)
Stale == Present /\ (file.written => file.by \notin InUse)

(* "a stale lock must never wedge the directory": a watch that meets one   *)
(* ends in some watch owning the directory, unless one of them dies or     *)
(* the pid in the file has been given to somebody meanwhile.               *)
StaleLockIsTaken ==
  \A p \in Pids : \A n \in 0 .. MaxCrashes :
    (pc[p] = "claim" /\ Stale /\ crashes = n)
      ~> (Holders # {} \/ crashes # n \/ (file.written /\ file.by \in InUse))
=============================================================================
