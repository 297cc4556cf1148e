----------------------------- MODULE TrajTopup -----------------------------
(***************************************************************************)
(* Trajectory maintenance of `rollout-man watch --full`: every few minutes *)
(* topup counts the trajectories that are published of each admitted case  *)
(* (hfTrajCounts) and starts another rollout of a case that is short of    *)
(* its target (RunTopupTrial).  Ships, rows and counts meet here in every  *)
(* order, over edits of the cases and restarts of the process.             *)
(*                                                                         *)
(* The rest of the loop is seen from outside: a poll that judged a case is *)
(* one step (Watch has it in detail), a rollout is its ship and its row    *)
(* (TrialRun has it in detail).  poll and topup run in one goroutine.      *)
(***************************************************************************)
EXTENDS Integers, Sequences, FiniteSets, SequencesExt

CONSTANTS
  Cases, Versions, Absent,
  Rank,       \* Rank[c]: the place of c's name as sort.Strings leaves them
  Covers,     \* Covers[c]: the cases whose trial ids begin with c's name and "-"
  Slots,      \* Experiment.Concurrency
  Target,     \* Experiment.TrajTarget
  Extra,      \* rerolls that may be tried past the target: 3
  MaxStarts,  \* bound: lives of the process
  MaxMishaps  \* bound: edits, and rows that are lost or torn

ASSUME TopupAssumption ==
  /\ IsFiniteSet(Cases) /\ Absent \notin Versions
  /\ Rank \in [Cases -> Nat] /\ IsInjective(Rank)
  /\ Covers \in [Cases -> SUBSET Cases] /\ \A c \in Cases : c \in Covers[c]
  /\ Slots \in Nat \ {0} /\ Target \in Nat \ {0} /\ Extra \in Nat
  /\ MaxStarts \in Nat /\ MaxMishaps \in Nat

Content == Versions \union {Absent}
Tries == Target + Extra
Seqs == 0 .. Cardinality(Cases) * MaxStarts * Tries   \* 0 is the admission trial

VARIABLES
  phase, main,       \* topup: "idle" | "pass" | "enqueue"
  dir, known, admitted,   \* as in Watch; known and admitted survive
  left,       \* names that are short of the target and not yet looked at
  enq,        \* enq: the last reroll enqueued by this process
  flight,     \* the trial goroutines of each case, in order of launch
  done,       \* Runner.done: the trials of each case this process knows of
  rows,       \* results.jsonl: rows[c][s] rows of trial s of c
  torn,       \* a line of results.jsonl cannot be read: Load fails
  hf,         \* what is published: trajectories of each case, up to Target
  verdicts,   \* history: <<case, hash, admitted>> that a gate returned
  tried,      \* history: rerolls of each case started by this process
  starts, mishaps

vars == <<phase, main, dir, known, admitted, left, enq, flight, done, rows,
          torn, hf, verdicts, tried, starts, mishaps>>

judged == <<known, admitted, verdicts>>
pass == <<main, left, enq, tried>>
life == <<phase, starts>>
world == <<dir, mishaps>>
record == <<done, rows, torn>>
Zero == [c \in Cases |-> 0]
Nothing == [c \in Cases |-> {}]
Idle == [c \in Cases |-> <<>>]

Init ==
  /\ phase = "down" /\ main = "idle"
  /\ dir \in [Cases -> Content]
  /\ known = [c \in Cases |-> Absent] /\ admitted = [c \in Cases |-> FALSE]
  /\ left = {} /\ enq = Zero /\ flight = Idle
  /\ done = Nothing /\ rows = [c \in Cases |-> [s \in Seqs |-> 0]]
  /\ torn = FALSE /\ hf = Zero
  /\ verdicts = {} /\ tried = Zero
  /\ starts = 0 /\ mishaps = 0

(* A results.jsonl that cannot be read is treated as an empty one.         *)
Loaded(c) == IF torn THEN {} ELSE {s \in Seqs : rows[c][s] > 0}
Start ==
  /\ phase = "down" /\ starts < MaxStarts
  /\ phase' = "up" /\ starts' = starts + 1
  /\ done' = [c \in Cases |-> Loaded(c)]
  /\ UNCHANGED <<rows, torn, world, judged, pass, flight, hf>>

Mishap == mishaps < MaxMishaps /\ mishaps' = mishaps + 1

(* Everything but the files and what is published is gone: a crash, and an *)
(* interrupt as well, since Cmd waits for no trial.  A line that is being  *)
(* written may be left half.                                               *)
Writing == \E c \in Cases : \E k \in DOMAIN flight[c] : flight[c][k].pc = "closing"
Crash ==
  /\ phase = "up"
  /\ phase' = "down" /\ main' = "idle"
  /\ left' = {} /\ enq' = Zero /\ flight' = Idle /\ tried' = Zero /\ done' = Nothing
  /\ \/ UNCHANGED <<torn, mishaps>>
     \/ Writing /\ Mishap /\ torn' = TRUE
  /\ UNCHANGED <<starts, dir, rows, judged, hf>>

Edit(c) ==
  /\ Mishap
  /\ \E v \in Content \ {dir[c]} : dir' = [dir EXCEPT ![c] = v]
  /\ UNCHANGED <<life, judged, pass, flight, record, hf>>

Goroutine(s, sha) == [seq |-> s, pc |-> "queued", sha |-> sha]
Launch(c, g) == flight' = [flight EXCEPT ![c] = Append(@, g)]

(* A poll has judged c, or has seen that it is gone.                       *)
Judge(c) ==
  /\ phase = "up" /\ main = "idle" /\ known[c] # dir[c]
  /\ known' = [known EXCEPT ![c] = dir[c]]
  /\ IF dir[c] = Absent
     THEN UNCHANGED <<admitted, verdicts, flight>>
     ELSE \E admit \in BOOLEAN :
            /\ admitted' = [admitted EXCEPT ![c] = admit]
            /\ verdicts' = verdicts \union {<<c, dir[c], admit>>}
            /\ IF admit THEN Launch(c, Goroutine(0, dir[c])) ELSE UNCHANGED flight
  /\ UNCHANGED <<life, world, pass, record, hf>>

----------------------------------------------------------------------------
(* RecordedTopups counts the ids that begin with the case's name and "-",  *)
(* in memory.                                                              *)
RecordedTopups(c) ==
  Cardinality({id \in Covers[c] \X (Seqs \ {0}) : id[2] \in done[id[1]]})

\* Mutants: rejected cases too; one reroll more; rerolls in flight forgotten;
\* a reroll only after one that has landed.
EligibleAnyway(c) == TRUE
Eligible(c) == admitted[c]
TriesLeftOffByOne(c) == enq[c] <= Tries
TriesLeft(c) == enq[c] < Tries
LandedAnyway(c) == TRUE
LandedBefore(c) == enq[c] < RecordedTopups(c)
Landed(c) == enq[c] <= RecordedTopups(c)
Unchanged(c) == dir[c] # Absent /\ known[c] = dir[c]
Short(c) == hf[c] < Target

(* A pass.  The counts are of this moment for the whole of it; what else   *)
(* the first three conditions read is changed by this goroutine alone, so  *)
(* they are tested here.  A fetch that fails skips the pass.  The names    *)
(* are then looked at in their order.                                      *)
Wanted(c) == Eligible(c) /\ Short(c) /\ TriesLeft(c)
Fetch ==
  /\ phase = "up" /\ main = "idle"
  /\ left' = {c \in Cases : known[c] # Absent /\ dir[c] # Absent /\ Wanted(c)}
  /\ left' # {} /\ main' = "pass"
  /\ UNCHANGED <<life, world, judged, enq, tried, flight, record, hf>>

First(c) == c \in left /\ \A d \in left \ {c} : Rank[c] < Rank[d]
Skip(c) == left' = left \ {c} /\ main' = IF left' = {} THEN "idle" ELSE "pass"

Consider(c) ==
  /\ phase = "up" /\ main = "pass" /\ First(c)
  /\ IF Landed(c) /\ Unchanged(c)
     THEN main' = "enqueue" /\ UNCHANGED left
     ELSE Skip(c)
  /\ UNCHANGED <<life, world, judged, enq, tried, flight, record, hf>>

(* The hash is the one that Consider compared with the admitted one.       *)
HashRead(c) == known[c]
Enqueue(c) ==
  /\ phase = "up" /\ main = "enqueue" /\ First(c)
  /\ LET seq == RecordedTopups(c) + 1
     IN /\ seq \in Seqs
        /\ enq' = [enq EXCEPT ![c] = seq]
        /\ tried' = [tried EXCEPT ![c] = @ + 1]
        /\ Launch(c, Goroutine(seq, HashRead(c)))
  /\ Skip(c)
  /\ UNCHANGED <<life, world, judged, record, hf>>

----------------------------------------------------------------------------
(* The k-th trial goroutine of c.                                          *)
At(c, k, pc) == k \in DOMAIN flight[c] /\ flight[c][k].pc = pc
Goto(c, k, pc) == flight' = [flight EXCEPT ![c][k].pc = pc]
Ends(c, k) == flight' = [flight EXCEPT ![c] = RemoveAt(@, k)]
SlotsHeld ==
  MapThenSumSet(LAMBDA c : Len(SelectSeq(flight[c], LAMBDA g : g.pc # "queued")), Cases)

(* RunTopupTrial and RunOneTrial refuse a trial that is recorded.          *)
\* Mutant: they do not.
IsDoneNever(c, s) == FALSE
IsDone(c, s) == s \in done[c]
Begin(c, k) ==
  /\ At(c, k, "queued") /\ SlotsHeld < Slots
  /\ IF IsDone(c, flight[c][k].seq) THEN Ends(c, k) ELSE Goto(c, k, "running")
  /\ UNCHANGED <<life, world, judged, pass, record, hf>>

(* The ship step publishes, or the rollout ends without: failed, dropped.  *)
(* Published trajectories are counted up to Target only: topup compares    *)
(* their number with it and nothing else.                                  *)
Ship(c, k) ==
  /\ At(c, k, "running")
  /\ \/ UNCHANGED hf
     \/ hf' = [hf EXCEPT ![c] = IF @ < Target THEN @ + 1 ELSE @]
  /\ Goto(c, k, "closing")
  /\ UNCHANGED <<life, world, judged, pass, record>>

(* append marks the trial done and then writes the line, and looks at no   *)
(* error of it: a row that could not be opened, marshalled (a NaN reward)  *)
(* or written is in memory alone; one that was written in part tears the   *)
(* file.                                                                   *)
RowLands(c, s) == rows' = [rows EXCEPT ![c][s] = @ + 1] /\ UNCHANGED <<torn, mishaps>>
RowIsLost ==
  /\ Mishap /\ torn' \in {torn, TRUE}
  /\ UNCHANGED rows
AppendRow(c, k) ==
  /\ At(c, k, "closing")
  /\ LET s == flight[c][k].seq
     IN /\ done' = [done EXCEPT ![c] = @ \union {s}]
        /\ RowLands(c, s) \/ RowIsLost
  /\ Ends(c, k)
  /\ UNCHANGED <<life, dir, judged, pass, hf>>

----------------------------------------------------------------------------
Main == Fetch \/ \E c \in Cases : Consider(c) \/ Enqueue(c) \/ Judge(c)
Trial(c) == \E k \in DOMAIN flight[c] : Begin(c, k) \/ Ship(c, k) \/ AppendRow(c, k)

Next ==
  \/ Start \/ Crash \/ Main
  \/ \E c \in Cases : Edit(c) \/ Trial(c)

(* The tickers tick; rollouts end by their timeouts at the latest and slots *)
(* are handed on.                                                          *)
Spec == Init /\ [][Next]_vars
Fairness == WF_vars(Main) /\ \A c \in Cases : WF_vars(Trial(c))
FairSpec == Spec /\ Fairness

----------------------------------------------------------------------------
(* Every variable has the values the code can give it.                     *)
TypeOK ==
  /\ phase \in {"down", "up"} /\ main \in {"idle", "pass", "enqueue"}
  /\ dir \in [Cases -> Content] /\ known \in [Cases -> Content]
  /\ admitted \in [Cases -> BOOLEAN]
  /\ left \subseteq Cases /\ enq \in [Cases -> Seqs]
  /\ main # "idle" <=> left # {}
  /\ flight \in [Cases -> Seq([seq : Seqs, pc : {"queued", "running", "closing"}, sha : Versions])]
  /\ done \in [Cases -> SUBSET Seqs] /\ rows \in [Cases -> [Seqs -> Nat]]
  /\ torn \in BOOLEAN /\ hf \in [Cases -> 0 .. Target]
  /\ verdicts \subseteq Cases \X Versions \X BOOLEAN
  /\ tried \in [Cases -> Nat]
  /\ starts \in 0 .. MaxStarts /\ mishaps \in 0 .. MaxMishaps

Rerolls(c) == {k \in DOMAIN flight[c] : flight[c][k].seq # 0}

(* No rollout, admission or reroll, is of a case that no gate has admitted *)
(* with those bytes ("this guard": a reroll was once fired one second      *)
(* after the rejection of its case).                                       *)
RolloutsOfAdmitted ==
  \A c \in Cases : \A k \in DOMAIN flight[c] : <<c, flight[c][k].sha, TRUE>> \in verdicts

(* A process records a reroll once, and over restarts it is recorded once  *)
(* as long as results.jsonl can be read: its number is not given again     *)
(* while it is under way nor after its row, for any names, and a row that  *)
(* was lost leaves a number that is recorded once when it is given again.  *)
(* After a tear every life counts from nothing and may record it anew.     *)
OneRowPerReroll ==
  \A c \in Cases, s \in Seqs \ {0} : rows[c][s] <= IF torn THEN starts ELSE 1

(* "One reroll per case at a time" (topup), for a name that begins no      *)
(* other name.                                                             *)
Alone(c) == Covers[c] = {c}
OneRerollAtATime == \A c \in Cases : Alone(c) => Cardinality(Rerolls(c)) <= 1

(* A process tries at most Extra rerolls past the target, for any names.   *)
TriesAreBounded == \A c \in Cases : tried[c] <= Tries

(* The number that is next is one that is recorded: a row below it was     *)
(* lost, and an earlier life recorded rerolls after it.                    *)
GapAbove(c) == RecordedTopups(c) + 1 \in done[c]

(* A case that stays admitted is brought to its target, or tried as often  *)
(* as the bound allows, whatever its rollouts do, unless a gap in its      *)
(* numbers makes RunTopupTrial refuse the next one: enq is then above the  *)
(* count for good, and this process gives the case up.                     *)
TargetIsPursued ==
  \A c \in Cases : Alone(c) =>
    (phase = "up" /\ admitted[c] /\ known[c] = dir[c] /\ dir[c] # Absent ~>
       \/ hf[c] >= Target \/ enq[c] >= Tries \/ GapAbove(c)
       \/ ~admitted[c] \/ known[c] # dir[c] \/ phase = "down")
=============================================================================
