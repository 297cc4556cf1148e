------------------------------- MODULE Watch -------------------------------
(***************************************************************************)
(* `rollout-man watch --full` (internal/cmdwatch/watch.go): one goroutine  *)
(* scans a directory of cases on a ticker (Cmd, poll), gates what is new   *)
(* or has changed and settled, applies the verdicts one at a time to       *)
(* watch-state.json, starts a trial goroutine for every admitted case      *)
(* (Runner.RunOneTrial), and runs the per_experiment steps once a scan is  *)
(* quiet and nothing is in flight.  Somebody else edits, adds and removes  *)
(* cases at any time, the process may be interrupted or die, and a later   *)
(* one takes over.  GateOne is seen from outside here: CaseGate has its    *)
(* inside.  Trajectory maintenance (topup) and the lock file are left out. *)
(***************************************************************************)
EXTENDS Integers, FiniteSets, Sequences

CONSTANTS
  Cases,      \* the names a case directory can have
  Versions,   \* what a case directory can contain
  Absent,     \* no such directory; no such entry
  Refused,    \* contents that a step with on_failure: fail may say no to
  GateSlots,  \* pipeline.per_case_concurrency
  Slots,      \* Experiment.Concurrency: trials at a time
  MaxEdits,   \* bound: edits and repairs in a behaviour
  MaxFails,   \* bound: reads, gates and writes that fail whatever a case contains
  MaxStarts   \* bound: lives of the process

ASSUME WatchAssumption ==
  /\ IsFiniteSet(Cases)
  /\ Absent \notin Versions /\ Refused \subseteq Versions
  /\ GateSlots \in Nat \ {0} /\ Slots \in Nat \ {0}
  /\ MaxEdits \in Nat /\ MaxFails \in Nat /\ MaxStarts \in Nat

Content == Versions \union {Absent}
Launches == 1 .. MaxEdits + 1    \* every launch but the first needs an edit

VARIABLES
  phase, cancelled,
  main,       \* where Cmd is: "start" (first poll) | "loop" | "poll" | "quiet"
  dir,        \* the content of each directory
  known, admitted,   \* state.Cases, state.Admitted
  saved,      \* watch-state.json
  pending,    \* pending: changed, seen with this hash, not yet settled
  failHash, waiting, \* gateBackoff.failHash; retryAfter is in the future
  job,        \* the gate jobs of this poll
  results,    \* the results channel of this poll
  trial,      \* the trial goroutines of each case, in order of launch
  inflight,   \* inflight.n
  loaded, done,      \* Runner.done # nil; Runner.done
  listed,     \* Runner.results: what the per_experiment steps see
  rows,       \* results.jsonl: how many rows each case's trial has
  torn,       \* results.jsonl has a torn row, and cannot be loaded
  finished,   \* Cmd's finished
  lastSeen,   \* history: the hash this process last read of each case
  unread,     \* history: cases that the last scan could not hash
  verdicts,   \* history: <<case, hash, admitted>> that GateOne returned
  edits, fails, starts

vars == <<phase, cancelled, main, dir, known, admitted, saved, pending, failHash, waiting,
          job, results, trial, inflight, loaded, done, listed, rows, torn, finished, lastSeen,
          unread, verdicts, edits, fails, starts>>

seen == <<lastSeen, unread>>
process == <<phase, cancelled, starts>>
world == <<dir, edits>>
state == <<known, admitted, saved>>
backoff == <<failHash, waiting>>
gates == <<job, results>>
runner == <<trial, inflight, loaded, done, listed, rows, torn>>

Blank == [c \in Cases |-> Absent]
Nobody == [c \in Cases |-> FALSE]
NoJob == [pc |-> "none", hash |-> Absent, sha |-> Absent]
NoTrial == [pc |-> "none", sha |-> Absent]
NoState == [known |-> Blank, admitted |-> Nobody]

Init ==
  /\ phase = "down" /\ cancelled = FALSE /\ main = "start"
  /\ dir \in [Cases -> Content]
  /\ known = Blank /\ admitted = Nobody /\ saved = NoState
  /\ pending = Blank /\ failHash = Blank /\ waiting = Nobody
  /\ job = [c \in Cases |-> NoJob] /\ results = <<>>
  /\ trial = [c \in Cases |-> [k \in Launches |-> NoTrial]]
  /\ inflight = 0 /\ loaded = FALSE /\ done = {} /\ listed = {}
  /\ rows = [c \in Cases |-> 0] /\ torn = FALSE
  /\ finished = FALSE
  /\ lastSeen = Blank /\ unread = {} /\ verdicts = {}
  /\ edits = 0 /\ fails = 0 /\ starts = 0

(* Cmd up to its first poll: the state is whatever watch-state.json says.  *)
Start ==
  /\ phase = "down" /\ starts < MaxStarts
  /\ phase' = "up" /\ cancelled' = FALSE /\ main' = "start"
  /\ known' = saved.known /\ admitted' = saved.admitted
  /\ starts' = starts + 1
  /\ UNCHANGED <<world, saved, pending, backoff, gates, runner, finished, seen, verdicts, fails>>

----------------------------------------------------------------------------
(* The scan phase of poll.  R is the set of cases it can read.             *)
Present(c) == dir[c] # Absent
New(c, R) == c \in R /\ known[c] = Absent
Changed(c, R) == c \in R /\ known[c] \notin {Absent, dir[c]}
Allowed(c) == waiting[c] => failHash[c] # dir[c]

\* Mutant: changed bytes are gated at once.
SettledAtOnce(c) == TRUE
Settled(c) == pending[c] = dir[c]
Due(c, R) == (New(c, R) \/ (Changed(c, R) /\ Settled(c))) /\ Allowed(c)
Removed == {c \in Cases : known[c] # Absent /\ ~Present(c)}

Quiet(waits) == waits = Blank

Jobs(R) == {c \in Cases : Due(c, R)}
Moved(R) == {c \in Cases : (New(c, R) \/ Changed(c, R)) /\ failHash[c] # dir[c]}

ScanReads(R, Unreadable) ==
  /\ failHash' = [c \in Cases |-> IF c \in Moved(R) THEN Absent ELSE failHash[c]]
  /\ waiting' = [c \in Cases |-> waiting[c] /\ c \notin Moved(R)]
  /\ pending' = [c \in Cases |->
       CASE c \in Unreadable -> pending[c]
         [] Changed(c, R) /\ c \notin Jobs(R) -> dir[c]
         [] OTHER -> Absent]
  /\ known' = [c \in Cases |-> IF c \in Removed THEN Absent ELSE known[c]]
  /\ job' = [c \in Cases |-> IF c \in Jobs(R) THEN [NoJob EXCEPT !.pc = "ready", !.hash = dir[c]]
                                               ELSE NoJob]
  /\ unread' = Unreadable
  /\ lastSeen' = [c \in Cases |-> IF c \in Unreadable THEN lastSeen[c] ELSE dir[c]]
  /\ fails' = fails + Cardinality(Unreadable)

Scan ==
  /\ phase = "up" /\ main \in {"start", "loop"}
  /\ \E Unreadable \in SUBSET {c \in Cases : Present(c)} :
       LET R == {c \in Cases : Present(c)} \ Unreadable
       IN
       /\ fails + Cardinality(Unreadable) <= MaxFails
       /\ ScanReads(R, Unreadable)
       /\ IF Jobs(R) = {}
          THEN /\ saved' = IF Removed # {} THEN [known |-> known', admitted |-> admitted] ELSE saved
               /\ main' = IF main = "loop" /\ Quiet(pending') THEN "quiet" ELSE "loop"
          ELSE saved' = saved /\ main' = "poll"
  /\ UNCHANGED <<process, world, admitted, results, runner, finished, verdicts>>

(* A goroutine per job, GateSlots at a time.  GateOne resolves and reads   *)
(* the directory of that moment, which may have been edited since the scan *)
(* read it.                                                                *)
GateSlotFree == Cardinality({c \in Cases : job[c].pc = "gating"}) < GateSlots

Send(c, r) ==
  /\ results' = Append(results, r)
  /\ job' = [job EXCEPT ![c].pc = "sent"]

Failure(c) == [err |-> TRUE, case |-> c, hash |-> job[c].hash, sha |-> Absent, admitted |-> FALSE]
Verdict(c, sha, admit) ==
  [err |-> FALSE, case |-> c, hash |-> job[c].hash, sha |-> sha, admitted |-> admit]

GateRefused(c) ==
  /\ job[c].pc = "ready" /\ GateSlotFree
  /\ cancelled \/ ~Present(c)
  /\ Send(c, Failure(c))
  /\ UNCHANGED <<process, main, world, state, pending, backoff, runner, finished, seen, verdicts, fails>>

GateStarts(c) ==
  /\ job[c].pc = "ready" /\ GateSlotFree
  /\ ~cancelled /\ Present(c)
  /\ job' = [job EXCEPT ![c].pc = "gating", ![c].sha = dir[c]]
  /\ UNCHANGED <<process, main, world, state, pending, backoff, results, runner, finished, seen, verdicts, fails>>

(* A hard error: the context is cancelled, a hard step says no to what the *)
(* case contains, or something fails that is not the case's.               *)
GateErrs(c) ==
  /\ job[c].pc = "gating"
  /\ \/ (cancelled \/ {job[c].sha, dir[c]} \intersect Refused # {}) /\ UNCHANGED fails
     \/ fails < MaxFails /\ fails' = fails + 1
  /\ Send(c, Failure(c))
  /\ UNCHANGED <<process, main, world, state, pending, backoff, runner, finished, seen, verdicts>>

(* The gate has a verdict.  Wholly cached, it is about the hash it         *)
(* resolved; otherwise the checks may have repaired the directory, which   *)
(* is hashed again if it is still there and can be read.                   *)
GateReturns(c) ==
  /\ job[c].pc = "gating"
  /\ \E admit \in BOOLEAN, v \in Content :
       /\ \/ v = dir[c] /\ UNCHANGED world
          \/ /\ Present(c) /\ v \in Versions \ {dir[c]} /\ edits < MaxEdits
             /\ dir' = [dir EXCEPT ![c] = v] /\ edits' = edits + 1
       /\ \E sha \in {job[c].sha, v} \ {Absent} :
            /\ Send(c, Verdict(c, sha, admit))
            /\ verdicts' = verdicts \union {<<c, sha, admit>>}
  /\ UNCHANGED <<process, main, state, pending, backoff, runner, finished, seen, fails>>

----------------------------------------------------------------------------
(* The results phase of poll: one result at a time.  An error records no   *)
(* verdict, and paces the next try unless the process is stopping.         *)
\* Mutant: a case whose gate failed counts as seen.
FailedIsSeen(r) ==
  /\ known' = [known EXCEPT ![r.case] = r.hash]
  /\ UNCHANGED <<admitted, saved, backoff, trial, inflight>>
Failed(r) ==
  /\ IF cancelled THEN UNCHANGED backoff
     ELSE /\ failHash' = [failHash EXCEPT ![r.case] = r.hash]
          /\ waiting' = [waiting EXCEPT ![r.case] = TRUE]
  /\ UNCHANGED <<state, trial, inflight>>

(* The bytes a verdict is recorded for are those after the gate.           *)
\* Mutant: the hash of the scan is recorded.
RecordedHashOfScan(r) == r.hash
RecordedHash(r) == r.sha

Launch(r) ==
  \E k \in Launches :
    /\ trial[r.case][k] = NoTrial /\ \A j \in 1 .. k - 1 : trial[r.case][j] # NoTrial
    /\ trial' = [trial EXCEPT ![r.case][k] = [pc |-> "queued", sha |-> r.sha]]
    /\ inflight' = inflight + 1

\* Mutant: a rejected case is tried as well.
WantsTrialAnyway(r) == TRUE
WantsTrial(r) == r.admitted

Judged(r) ==
  /\ failHash' = [failHash EXCEPT ![r.case] = Absent]
  /\ waiting' = [waiting EXCEPT ![r.case] = FALSE]
  /\ known' = [known EXCEPT ![r.case] = RecordedHash(r)]
  /\ admitted' = [admitted EXCEPT ![r.case] = r.admitted]
  /\ saved' = [known |-> known', admitted |-> admitted']
  /\ IF WantsTrial(r) THEN Launch(r) ELSE UNCHANGED <<trial, inflight>>

Apply ==
  /\ phase = "up" /\ main = "poll" /\ results # <<>>
  /\ LET r == Head(results) IN
       /\ IF r.err THEN Failed(r) ELSE Judged(r)
       /\ job' = [job EXCEPT ![r.case] = NoJob]
       /\ lastSeen' = [lastSeen EXCEPT ![r.case] = IF r.err THEN @ ELSE r.sha]
  /\ results' = Tail(results)
  /\ UNCHANGED <<process, main, world, pending, loaded, done, listed, rows, torn, finished, unread, verdicts, fails>>

PollEnds ==
  /\ phase = "up" /\ main = "poll" /\ \A c \in Cases : job[c] = NoJob
  /\ main' = "loop"
  /\ UNCHANGED <<process, world, state, pending, backoff, gates, runner, finished, seen, verdicts, fails>>

(* A quiet scan: Finish runs, once, if nothing is in flight.               *)
\* Mutant: only the trials that hold a slot count.
NothingRunning == \A c \in Cases, k \in Launches : trial[c][k].pc \in {"none", "queued", "ended"}
NothingInFlight == inflight = 0

Finish ==
  /\ phase = "up" /\ main = "quiet"
  /\ main' = "loop"
  /\ IF NothingInFlight /\ ~finished THEN finished' \in BOOLEAN ELSE UNCHANGED finished
  /\ UNCHANGED <<process, world, state, pending, backoff, gates, runner, seen, verdicts, fails>>

(* A backoff runs out.                                                     *)
Retry(c) ==
  /\ phase = "up" /\ waiting[c]
  /\ waiting' = [waiting EXCEPT ![c] = FALSE]
  /\ UNCHANGED <<process, main, world, state, pending, failHash, gates, runner, finished, seen, verdicts, fails>>

----------------------------------------------------------------------------
(* A trial goroutine.  loadDoneOnce takes no lock: it tests Runner.done,   *)
(* makes it an empty map, and then fills it, and another goroutine may     *)
(* look in between.                                                        *)
Holding == {"check", "load", "loading", "lookup", "running"}
SlotsHeld == {g \in Cases \X Launches : trial[g[1]][g[2]].pc \in Holding}
At(c, k, pc) == trial[c][k].pc = pc
Goto(c, k, pc) == trial' = [trial EXCEPT ![c][k].pc = pc]
Recorded == {c \in Cases : rows[c] > 0}

watching == <<process, main, world, state, pending, backoff, gates, finished, seen, verdicts>>

Acquire(c, k) ==
  /\ At(c, k, "queued") /\ Cardinality(SlotsHeld) < Slots
  /\ Goto(c, k, "check")
  /\ UNCHANGED <<watching, fails, inflight, loaded, done, listed, rows, torn>>

CheckLoaded(c, k) ==
  /\ At(c, k, "check")
  /\ Goto(c, k, IF loaded THEN "lookup" ELSE "load")
  /\ UNCHANGED <<watching, fails, inflight, loaded, done, listed, rows, torn>>

LoadBegins(c, k) ==
  /\ At(c, k, "load")
  /\ loaded' = TRUE /\ done' = {}
  /\ Goto(c, k, "loading")
  /\ UNCHANGED <<watching, fails, inflight, listed, rows, torn>>

(* A results.jsonl that cannot be read is taken for an empty one.          *)
LoadEnds(c, k) ==
  /\ At(c, k, "loading")
  /\ done' = IF torn THEN {} ELSE done \union Recorded
  /\ listed' = IF torn THEN listed ELSE listed \union Recorded
  /\ Goto(c, k, "lookup")
  /\ UNCHANGED <<watching, fails, inflight, loaded, rows, torn>>

(* RunOneTrial refuses a trial that is recorded.                           *)
Lookup(c, k) ==
  /\ At(c, k, "lookup")
  /\ IF c \in done
     THEN Goto(c, k, "ended") /\ inflight' = inflight - 1
     ELSE Goto(c, k, "running") /\ UNCHANGED inflight
  /\ UNCHANGED <<watching, fails, loaded, done, listed, rows, torn>>

(* attempts, execTrial and append: TrialRun has them step by step.  The    *)
(* row that append notes in memory may not reach the file.                 *)
TrialEnds(c, k) ==
  /\ At(c, k, "running")
  /\ \/ rows' = [rows EXCEPT ![c] = @ + 1] /\ UNCHANGED fails
     \/ fails < MaxFails /\ fails' = fails + 1 /\ UNCHANGED rows
  /\ loaded' = TRUE /\ done' = done \union {c} /\ listed' = listed \union {c}
  /\ Goto(c, k, "ended") /\ inflight' = inflight - 1
  /\ UNCHANGED <<watching, torn>>

----------------------------------------------------------------------------
Interrupt ==
  /\ phase = "up" /\ ~cancelled
  /\ cancelled' = TRUE
  /\ UNCHANGED <<phase, starts, main, world, state, pending, backoff, gates, runner, finished, seen, verdicts, fails>>

(* Everything but the files is gone.                                       *)
Die ==
  /\ phase' = "down" /\ main' = "start"
  /\ known' = Blank /\ admitted' = Nobody /\ pending' = Blank
  /\ failHash' = Blank /\ waiting' = Nobody
  /\ job' = [c \in Cases |-> NoJob] /\ results' = <<>>
  /\ trial' = [c \in Cases |-> [k \in Launches |-> NoTrial]]
  /\ inflight' = 0 /\ loaded' = FALSE /\ done' = {} /\ listed' = {}
  /\ finished' = FALSE /\ lastSeen' = Blank /\ unread' = {}
  /\ UNCHANGED <<cancelled, starts, world, rows, verdicts, fails>>

(* The process ends while a trial writes its row.                          *)
TornRow ==
  \/ UNCHANGED torn
  \/ /\ \E c \in Cases, k \in Launches : trial[c][k].pc = "running"
     /\ torn' = TRUE

(* Cmd returns without waiting for its trials.                             *)
Exit ==
  /\ phase = "up" /\ main = "loop" /\ cancelled
  /\ Die /\ UNCHANGED saved /\ TornRow

(* A crash in the middle of a save leaves a file that loadState cannot     *)
(* parse, and takes for an empty one.                                      *)
Saving ==
  \/ main = "poll" /\ results # <<>>
  \/ main \in {"start", "loop"} /\ Removed # {}

Crash ==
  /\ phase = "up"
  /\ Die /\ TornRow
  /\ UNCHANGED saved \/ (Saving /\ saved' = NoState)

Edit(c) ==
  /\ edits < MaxEdits
  /\ \E v \in Content \ {dir[c]} : dir' = [dir EXCEPT ![c] = v]
  /\ edits' = edits + 1
  /\ UNCHANGED <<process, main, state, pending, backoff, gates, runner, finished, seen, verdicts, fails>>

Main == Scan \/ Apply \/ PollEnds \/ Finish
Gate(c) == GateRefused(c) \/ GateStarts(c) \/ GateErrs(c) \/ GateReturns(c)
Trial(c, k) ==
  \/ Acquire(c, k) \/ CheckLoaded(c, k) \/ LoadBegins(c, k) \/ LoadEnds(c, k)
  \/ Lookup(c, k) \/ TrialEnds(c, k)

Next ==
  \/ Start \/ Main \/ Interrupt \/ Exit \/ Crash
  \/ \E c \in Cases : Gate(c) \/ Retry(c) \/ Edit(c)
  \/ \E c \in Cases, k \in Launches : Trial(c, k)

Spec == Init /\ [][Next]_vars

(* The ticker ticks, goroutines that can run are run, gates and trials end *)
(* by their timeouts at the latest, and time passes.                       *)
FairSpec ==
  /\ Spec /\ WF_vars(Main)
  /\ \A c \in Cases : WF_vars(Gate(c)) /\ WF_vars(Retry(c))
  /\ \A c \in Cases, k \in Launches : WF_vars(Trial(c, k))

----------------------------------------------------------------------------
(* Properties.                                                             *)

JobOK == [pc : {"none", "ready", "gating", "sent"}, hash : Content, sha : Content]
ResultOK == [err : BOOLEAN, case : Cases, hash : Versions, sha : Content, admitted : BOOLEAN]

ProcessOK ==
  /\ phase \in {"down", "up"} /\ cancelled \in BOOLEAN
  /\ main \in {"start", "loop", "poll", "quiet"} /\ finished \in BOOLEAN
  /\ fails \in 0 .. MaxFails /\ starts \in 0 .. MaxStarts
WorldOK == dir \in [Cases -> Content] /\ edits \in 0 .. MaxEdits
StateOK ==
  /\ known \in [Cases -> Content] /\ admitted \in [Cases -> BOOLEAN]
  /\ saved \in [known : [Cases -> Content], admitted : [Cases -> BOOLEAN]]
ScanOK ==
  /\ pending \in [Cases -> Content]
  /\ failHash \in [Cases -> Content] /\ waiting \in [Cases -> BOOLEAN]
  /\ lastSeen \in [Cases -> Content] /\ unread \subseteq Cases
GatesOK == job \in [Cases -> JobOK] /\ results \in Seq(ResultOK)
RunnerOK ==
  /\ trial \in [Cases -> [Launches -> [pc : Holding \union {"none", "queued", "ended"}, sha : Content]]]
  /\ inflight \in Nat
  /\ loaded \in BOOLEAN /\ done \subseteq Cases /\ listed \subseteq Cases
  /\ rows \in [Cases -> Nat] /\ torn \in BOOLEAN

(* Every variable has the values the code can give it; in particular the   *)
(* in-flight count is never negative.                                      *)
TypeOK ==
  /\ ProcessOK /\ WorldOK /\ StateOK /\ ScanOK /\ GatesOK /\ RunnerOK
  /\ verdicts \subseteq Cases \X Versions \X BOOLEAN

(* What watch remembers of a case, in memory and in watch-state.json, is a *)
(* verdict that a gate reached on exactly those bytes: the admitted flag   *)
(* and the hash are never of two different gates, through repairs, edits   *)
(* during the gate, removals, failed gates, crashes and torn saves.        *)
Vouched(k, a) == \A c \in Cases : k[c] # Absent => <<c, k[c], a[c]>> \in verdicts
StateIsVerdict == Vouched(known, admitted) /\ Vouched(saved.known, saved.admitted)

(* No trial is started for bytes that no gate has admitted under that name *)
(* (libredwg-18fd542, the comment at state.Admitted).                      *)
TrialsAreOfAdmitted ==
  \A c \in Cases, k \in Launches :
    trial[c][k] # NoTrial => <<c, trial[c][k].sha, TRUE>> \in verdicts

(* A case that has a verdict is queued for another gate only when this     *)
(* process has read the same bytes twice in a row (poll: "a writer mid-    *)
(* edit must not be gated on torn bytes").  That is all the settling gives *)
(* a gate: GateOne reads the directory again, and gates what it then finds *)
(* (GateStarts), so an edit that begins after the second read is gated.    *)
SettledBeforeRegate ==
  [][\A c \in Cases :
       job[c].pc = "none" /\ job'[c].pc = "ready" /\ known[c] # Absent
         => lastSeen[c] = job'[c].hash]_vars

(* The per_experiment steps run on a complete batch as far as this process *)
(* knows: every trial it started has ended and its row is in the list      *)
(* they publish, and no changed case that the last scan could read is      *)
(* waiting for its verdict.                                                *)
Started == {c \in Cases : trial[c][1] # NoTrial}
FinishIsComplete ==
  [][~finished /\ finished' =>
       /\ Started \subseteq listed
       /\ \A c \in Cases, k \in Launches : trial[c][k].pc \in {"none", "ended"}
       /\ \A c \in Cases \ unread : known[c] # Absent => known[c] = lastSeen[c]]_vars

(* Every case that is there gets a verdict of a gate on its present bytes, *)
(* whatever fails, is edited or is backed off, unless the process is       *)
(* stopped or a step with on_failure: fail says no to those bytes, which   *)
(* is a hard error on every try: a gate that failed is not taken for a     *)
(* verdict, and its backoff does not shut the case out.                    *)
JudgedNow(c) == known[c] = dir[c] /\ <<c, dir[c], admitted[c]>> \in verdicts
EveryCaseIsJudged ==
  \A c \in Cases :
    phase = "up" /\ Present(c) ~>
      JudgedNow(c) \/ ~Present(c) \/ dir[c] \in Refused \/ cancelled \/ phase = "down"

(* watch.go: "A re-gated case whose trial already shipped [...]            *)
(* republishing a case that is already on HF is a manual decision, not     *)
(* watch's to make": one trial id never gets a second row.                 *)
TrialRunsOnce == \A c \in Cases : rows[c] <= 1
=============================================================================
