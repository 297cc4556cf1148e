--------------------------- MODULE TrajTopupProof ---------------------------
(***************************************************************************)
(* Theorems about trajectory maintenance in TrajTopup, for every directory *)
(* of cases, every order and every kinship of their names, every width,    *)
(* target and number of edits and lives.                                   *)
(***************************************************************************)
EXTENDS TrajTopup, FiniteSetTheorems, TLAPS

(* What a pass has picked and a poll cannot change under it, and what is   *)
(* there of a process that is down.                                        *)
Typed ==
  /\ TypeOK
  /\ \A c \in left : admitted[c] /\ known[c] # Absent
  /\ IF phase = "down" THEN main = "idle" /\ flight = Idle ELSE starts > 0

(* The hash the state file has of an admitted case is an admitted one.     *)
AdmittedHash ==
  \A c \in Cases : admitted[c] /\ known[c] # Absent => <<c, known[c], TRUE>> \in verdicts

(* The tries of a life, and what the pass has tested of the names it still *)
(* holds.                                                                  *)
TryInv ==
  /\ \A c \in Cases : tried[c] <= enq[c] /\ tried[c] <= Tries
  /\ \A c \in left : enq[c] < Tries
  /\ main = "enqueue" => \A c \in Cases : First(c) => enq[c] <= RecordedTopups(c)

(* A row is of this life only if its reroll is known to be done, and there *)
(* is one of it in every life, at most, if the file is torn.               *)
RowInv ==
  \A c \in Cases, s \in Seqs \ {0} :
    /\ rows[c][s] <= IF torn THEN starts ELSE 1
    /\ phase = "up" /\ s \notin done[c] => rows[c][s] <= IF torn THEN starts - 1 ELSE 0

(* How rerolls are numbered: the number of a goroutine is not given twice, *)
(* and one that is past Begin is not known to be done.                     *)
FlightNumbers(c) ==
  \A k \in Rerolls(c) :
    /\ flight[c][k].seq <= enq[c]
    /\ flight[c][k].pc # "queued" => flight[c][k].seq \notin done[c]
    /\ \A l \in Rerolls(c) : flight[c][l].seq = flight[c][k].seq => l = k
NumberInv == \A c \in Cases : FlightNumbers(c)

(* For a name that begins no other, the reroll under way is the next one   *)
(* to be counted, and the last that was enqueued.                          *)
AloneInv ==
  \A c \in Cases : Alone(c) =>
    \A k \in Rerolls(c) :
      flight[c][k].seq = RecordedTopups(c) + 1 /\ flight[c][k].seq = enq[c]

TopupInv ==
  Typed /\ RolloutsOfAdmitted /\ AdmittedHash /\ TryInv /\ RowInv /\ NumberInv /\ AloneInv

----------------------------------------------------------------------------
Trials == [seq : Seqs, pc : {"queued", "running", "closing"}, sha : Versions]

(* Counting.                                                               *)
LEMMA SeqsFinite ==
  /\ Cardinality(Cases) * MaxStarts * Tries \in Nat
  /\ Seqs \subseteq Nat /\ 0 \in Seqs /\ IsFiniteSet(Seqs) /\ Tries \in Nat
<1>1. Cardinality(Cases) \in Nat /\ MaxStarts \in Nat /\ Tries \in Nat
  BY TopupAssumption, FS_CardinalityType DEF Tries
<1>2. \A m, n \in Nat : m * n \in Nat
  OBVIOUS
<1>3. Cardinality(Cases) * MaxStarts * Tries \in Nat
  BY <1>1, <1>2
<1>4. IsFiniteSet(Seqs)
  BY <1>3, FS_Interval DEF Seqs
<1>5. QED
  BY <1>1, <1>3, <1>4 DEF Seqs

(* The ids that RecordedTopups counts, if r is what is done.               *)
Ids(c, r) == {id \in Covers[c] \X (Seqs \ {0}) : id[2] \in r[id[1]]}

LEMMA CountIsOfIds ==
  ASSUME NEW c \in Cases
  PROVE  RecordedTopups(c) = Cardinality(Ids(c, done))
BY DEF RecordedTopups, Ids

LEMMA IdsFinite ==
  ASSUME NEW c \in Cases, NEW r
  PROVE  IsFiniteSet(Ids(c, r)) /\ Cardinality(Ids(c, r)) \in Nat
<1>1. IsFiniteSet(Covers[c])
  BY TopupAssumption, FS_Subset
<1>2. IsFiniteSet(Seqs \ {0})
  BY SeqsFinite, FS_Subset
<1>3. IsFiniteSet(Covers[c] \X (Seqs \ {0}))
  BY <1>1, <1>2, FS_Product
<1>4. Ids(c, r) \in SUBSET (Covers[c] \X (Seqs \ {0}))
  BY DEF Ids
<1>5. IsFiniteSet(Ids(c, r))
  BY <1>3, <1>4, FS_Subset
<1>6. QED
  BY <1>5, FS_CardinalityType

LEMMA CountType ==
  ASSUME NEW c \in Cases
  PROVE  RecordedTopups(c) \in Nat
BY CountIsOfIds, IdsFinite

(* What is done in a life stays done: the count does not sink.             *)
LEMMA CountGrows ==
  ASSUME NEW c \in Cases, NEW r, NEW q, \A d \in Covers[c] : r[d] \subseteq q[d]
  PROVE  Cardinality(Ids(c, r)) <= Cardinality(Ids(c, q))
<1>1. Ids(c, r) \in SUBSET Ids(c, q)
  BY DEF Ids
<1>2. QED
  BY <1>1, IdsFinite, FS_Subset

----------------------------------------------------------------------------
(* A goroutine that ends leaves the others in their order.                 *)
Before(k, i) == IF k < i THEN k ELSE k + 1

LEMMA Removing ==
  ASSUME NEW S, NEW q \in Seq(S), NEW i \in DOMAIN q
  PROVE  /\ RemoveAt(q, i) \in Seq(S)
         /\ \A k \in DOMAIN RemoveAt(q, i) :
              /\ Before(k, i) \in DOMAIN q \ {i}
              /\ RemoveAt(q, i)[k] = q[Before(k, i)]
         /\ \A k, l \in DOMAIN RemoveAt(q, i) : Before(k, i) = Before(l, i) => k = l
<1> DEFINE a == SubSeq(q, 1, i - 1)
           b == SubSeq(q, i + 1, Len(q))
<1>1. i \in 1 .. Len(q) /\ Len(q) \in Nat
  OBVIOUS
<1>2. a \in Seq(S) /\ Len(a) = i - 1 /\ \A k \in 1 .. i - 1 : a[k] = q[k]
  BY <1>1
<1>3. b \in Seq(S) /\ Len(b) = Len(q) - i /\ \A k \in 1 .. Len(q) - i : b[k] = q[k + i]
  BY <1>1
<1> HIDE DEF a, b
<1>4. /\ a \o b \in Seq(S) /\ Len(a \o b) = Len(q) - 1
      /\ \A k \in 1 .. Len(q) - 1 :
           (a \o b)[k] = IF k <= Len(a) THEN a[k] ELSE b[k - Len(a)]
  BY <1>1, <1>2, <1>3
<1>5. \A k \in 1 .. Len(q) - 1 : (a \o b)[k] = IF k < i THEN q[k] ELSE q[k + 1]
  <2>1. SUFFICES ASSUME NEW k \in 1 .. Len(q) - 1
                 PROVE  (a \o b)[k] = IF k < i THEN q[k] ELSE q[k + 1]
    OBVIOUS
  <2>2. CASE k < i
    <3>1. k \in 1 .. i - 1 /\ k <= Len(a)
      BY <1>1, <1>2, <2>1, <2>2
    <3>2. QED
      BY <1>2, <1>4, <2>2, <3>1
  <2>3. CASE ~(k < i)
    <3>1. k - Len(a) \in 1 .. Len(q) - i /\ ~(k <= Len(a)) /\ (k - Len(a)) + i = k + 1
      BY <1>1, <1>2, <2>1, <2>3
    <3>2. (a \o b)[k] = b[k - Len(a)]
      BY <1>4, <3>1
    <3>3. b[k - Len(a)] = q[(k - Len(a)) + i]
      BY <1>3, <3>1
    <3>4. QED
      BY <2>3, <3>1, <3>2, <3>3
  <2>4. QED
    BY <2>2, <2>3
<1>6. RemoveAt(q, i) = a \o b
  BY DEF RemoveAt, a, b
<1>7. DOMAIN (a \o b) = 1 .. Len(q) - 1
  BY <1>1, <1>4
<1>8. \A k \in 1 .. Len(q) - 1 : Before(k, i) \in DOMAIN q \ {i}
  BY <1>1 DEF Before
<1>9. \A k, l \in 1 .. Len(q) - 1 : Before(k, i) = Before(l, i) => k = l
  BY <1>1 DEF Before
<1>10. \A k \in 1 .. Len(q) - 1 : (a \o b)[k] = q[Before(k, i)]
  BY <1>5 DEF Before
<1>11. QED
  BY <1>4, <1>6, <1>7, <1>8, <1>9, <1>10

----------------------------------------------------------------------------
(* What becomes of the goroutines: one more, one further on, one less.     *)
LEMMA Launching ==
  ASSUME TypeOK, NEW c \in Cases, NEW g \in Trials, Launch(c, g)
  PROVE  /\ flight' \in [Cases -> Seq(Trials)]
         /\ \A d \in Cases \ {c} : flight'[d] = flight[d]
         /\ DOMAIN flight'[c] = DOMAIN flight[c] \union {Len(flight[c]) + 1}
         /\ Len(flight[c]) + 1 \notin DOMAIN flight[c]
         /\ flight'[c][Len(flight[c]) + 1] = g
         /\ \A k \in DOMAIN flight[c] : flight'[c][k] = flight[c][k]
<1>1. flight \in [Cases -> Seq(Trials)]
  BY DEF TypeOK, Trials
<1>2. flight[c] \in Seq(Trials) /\ Len(flight[c]) \in Nat
  BY <1>1
<1>3. flight' = [flight EXCEPT ![c] = Append(flight[c], g)]
  BY DEF Launch
<1>4. Append(flight[c], g) \in Seq(Trials)
  BY <1>2
<1>5. flight' \in [Cases -> Seq(Trials)] /\ flight'[c] = Append(flight[c], g)
  BY <1>1, <1>3, <1>4
<1>6. \A d \in Cases \ {c} : flight'[d] = flight[d]
  BY <1>1, <1>3
<1>7. QED
  BY <1>2, <1>5, <1>6

LEMMA Going ==
  ASSUME TypeOK, NEW c \in Cases, NEW k \in DOMAIN flight[c],
         NEW pc \in {"queued", "running", "closing"}, Goto(c, k, pc)
  PROVE  /\ flight' \in [Cases -> Seq(Trials)]
         /\ \A d \in Cases : DOMAIN flight'[d] = DOMAIN flight[d]
         /\ \A d \in Cases : \A j \in DOMAIN flight[d] :
              flight'[d][j].seq = flight[d][j].seq /\ flight'[d][j].sha = flight[d][j].sha
         /\ flight'[c][k].pc = pc
         /\ \A d \in Cases : \A j \in DOMAIN flight[d] :
              <<d, j>> # <<c, k>> => flight'[d][j] = flight[d][j]
<1>1. flight \in [Cases -> Seq(Trials)]
  BY DEF TypeOK, Trials
<1>2. flight[c] \in Seq(Trials) /\ flight[c][k] \in Trials
  BY <1>1
<1>3. flight' = [flight EXCEPT ![c] = [flight[c] EXCEPT ![k] = [flight[c][k] EXCEPT !.pc = pc]]]
  BY DEF Goto
<1>4. [flight[c][k] EXCEPT !.pc = pc] \in Trials
  BY <1>2 DEF Trials
<1>5. [flight[c] EXCEPT ![k] = [flight[c][k] EXCEPT !.pc = pc]] \in Seq(Trials)
  BY <1>2, <1>4
<1>6. flight' \in [Cases -> Seq(Trials)] /\ \A d \in Cases \ {c} : flight'[d] = flight[d]
  BY <1>1, <1>3, <1>5
<1>7. flight'[c] = [flight[c] EXCEPT ![k] = [flight[c][k] EXCEPT !.pc = pc]]
  BY <1>1, <1>3
<1>8. DOMAIN flight'[c] = DOMAIN flight[c]
  BY <1>7
<1>9. \A j \in DOMAIN flight[c] :
        flight'[c][j].seq = flight[c][j].seq /\ flight'[c][j].sha = flight[c][j].sha
  <2>1. SUFFICES ASSUME NEW j \in DOMAIN flight[c]
                 PROVE  /\ flight'[c][j].seq = flight[c][j].seq
                        /\ flight'[c][j].sha = flight[c][j].sha
    OBVIOUS
  <2>2. CASE j = k
    BY <1>2, <1>7, <2>2 DEF Trials
  <2>3. CASE j # k
    BY <1>7, <2>3
  <2>4. QED
    BY <2>2, <2>3
<1>10. flight'[c][k].pc = pc
  BY <1>2, <1>7 DEF Trials
<1>11. \A d \in Cases : \A j \in DOMAIN flight[d] :
         <<d, j>> # <<c, k>> => flight'[d][j] = flight[d][j]
  BY <1>6, <1>7
<1>12. QED
  BY <1>6, <1>8, <1>9, <1>10, <1>11

LEMMA Leaving ==
  ASSUME TypeOK, NEW c \in Cases, NEW k \in DOMAIN flight[c], Ends(c, k)
  PROVE  /\ flight' \in [Cases -> Seq(Trials)]
         /\ \A d \in Cases \ {c} : flight'[d] = flight[d]
         /\ \A j \in DOMAIN flight'[c] :
              /\ Before(j, k) \in DOMAIN flight[c] \ {k}
              /\ flight'[c][j] = flight[c][Before(j, k)]
         /\ \A j, l \in DOMAIN flight'[c] : Before(j, k) = Before(l, k) => j = l
<1>1. flight \in [Cases -> Seq(Trials)]
  BY DEF TypeOK, Trials
<1>2. flight' = [flight EXCEPT ![c] = RemoveAt(flight[c], k)]
  BY DEF Ends
<1>3. flight[c] \in Seq(Trials)
  BY <1>1
<1>4. RemoveAt(flight[c], k) \in Seq(Trials)
  BY <1>3, Removing
<1>5. /\ flight' \in [Cases -> Seq(Trials)] /\ flight'[c] = RemoveAt(flight[c], k)
      /\ \A d \in Cases \ {c} : flight'[d] = flight[d]
  BY <1>1, <1>2, <1>4
<1>6. QED
  BY <1>3, <1>5, Removing

----------------------------------------------------------------------------
(* Typing.                                                                 *)
LEMMA InitTyped == Init => Typed
<1>1. SUFFICES ASSUME Init PROVE Typed
  OBVIOUS
<1>2. flight \in [Cases -> Seq(Trials)] /\ 0 \in Seqs
  BY <1>1, SeqsFinite DEF Init, Idle
<1>3. rows \in [Cases -> [Seqs -> Nat]] /\ done \in [Cases -> SUBSET Seqs] /\ enq \in [Cases -> Seqs] /\ hf \in [Cases -> 0 .. Target]
  BY <1>1, <1>2, TopupAssumption DEF Init, Zero, Nothing
<1>4. mishaps \in 0 .. MaxMishaps /\ starts \in 0 .. MaxStarts /\ tried \in [Cases -> Nat]
  BY <1>1, TopupAssumption DEF Init, Zero
<1>5. QED
  BY <1>1, <1>2, <1>3, <1>4 DEF Init, Typed, TypeOK, Content, Trials

(* What a trial goroutine leaves alone.                                    *)
LEMMA TrialFrame ==
  ASSUME NEW c \in Cases, NEW k \in DOMAIN flight[c], Begin(c, k) \/ Ship(c, k) \/ AppendRow(c, k)
  PROVE  UNCHANGED <<phase, starts, dir, known, admitted, verdicts, main, left, enq, tried>>
BY DEF Begin, Ship, AppendRow, life, world, judged, pass

LEMMA TrialType ==
  ASSUME TypeOK, NEW c \in Cases, NEW k \in DOMAIN flight[c]
  PROVE  flight[c][k] \in Trials
<1>1. flight \in [Cases -> Seq(Trials)]
  BY DEF TypeOK, Trials
<1>2. flight[c] \in Seq(Trials)
  BY <1>1
<1>3. QED
  BY <1>2

LEMMA TrialTyped ==
  ASSUME TypeOK, NEW c \in Cases, NEW k \in DOMAIN flight[c],
         Begin(c, k) \/ Ship(c, k) \/ AppendRow(c, k)
  PROVE  /\ flight' \in [Cases -> Seq(Trials)] /\ rows' \in [Cases -> [Seqs -> Nat]]
         /\ done' \in [Cases -> SUBSET Seqs] /\ torn' \in BOOLEAN
         /\ mishaps' \in 0 .. MaxMishaps /\ hf' \in [Cases -> 0 .. Target]
<1>1. flight[c][k].seq \in Seqs
  BY TrialType DEF Trials
<1>2. CASE Begin(c, k)
  <2>1. flight' \in [Cases -> Seq(Trials)]
    BY <1>2, Leaving, Going DEF Begin
  <2>2. QED
    BY <1>2, <2>1 DEF Begin, record, world, TypeOK
<1>3. CASE Ship(c, k)
  <2>1. flight' \in [Cases -> Seq(Trials)]
    BY <1>3, Going DEF Ship
  <2>2. hf' \in [Cases -> 0 .. Target]
    <3>1. hf \in [Cases -> 0 .. Target] /\ hf[c] \in 0 .. Target /\ Target \in Nat
      BY TopupAssumption DEF TypeOK
    <3>2. (IF hf[c] < Target THEN hf[c] + 1 ELSE hf[c]) \in 0 .. Target
      BY <3>1
    <3>3. hf' = hf \/ hf' = [hf EXCEPT ![c] = IF hf[c] < Target THEN hf[c] + 1 ELSE hf[c]]
      BY <1>3 DEF Ship
    <3>4. QED
      BY <3>1, <3>2, <3>3
  <2>3. QED
    BY <1>3, <2>1, <2>2 DEF Ship, record, world, TypeOK
<1>4. CASE AppendRow(c, k)
  <2> DEFINE s == flight[c][k].seq
  <2>1. flight' \in [Cases -> Seq(Trials)] /\ hf' = hf
    BY <1>4, Leaving DEF AppendRow
  <2>2. done' = [done EXCEPT ![c] = done[c] \union {s}] /\ (RowLands(c, s) \/ RowIsLost)
    BY <1>4 DEF AppendRow
  <2> HIDE DEF s
  <2>3. done' \in [Cases -> SUBSET Seqs]
    BY <1>1, <2>2 DEF TypeOK, s
  <2>4. CASE RowLands(c, s)
    <3>1. rows' = [rows EXCEPT ![c] = [rows[c] EXCEPT ![s] = rows[c][s] + 1]]
      BY <2>4 DEF RowLands
    <3>2. rows \in [Cases -> [Seqs -> Nat]] /\ rows[c] \in [Seqs -> Nat]
      BY DEF TypeOK
    <3>3. rows[c][s] + 1 \in Nat
      BY <1>1, <3>2 DEF s
    <3>4. [rows[c] EXCEPT ![s] = rows[c][s] + 1] \in [Seqs -> Nat]
      BY <3>2, <3>3
    <3>5. rows' \in [Cases -> [Seqs -> Nat]]
      BY <3>1, <3>2, <3>4
    <3>6. QED
      BY <2>1, <2>3, <2>4, <3>5 DEF RowLands, TypeOK
  <2>5. CASE RowIsLost
    <3>1. mishaps' \in 0 .. MaxMishaps
      BY <2>5, TopupAssumption DEF RowIsLost, Mishap, TypeOK
    <3>2. QED
      BY <2>1, <2>3, <2>5, <3>1 DEF RowIsLost, TypeOK
  <2>6. QED
    BY <2>2, <2>4, <2>5
<1>5. QED
  BY <1>2, <1>3, <1>4

(* A goroutine is of a process that is up.                                 *)
LEMMA GoroutinesUp ==
  ASSUME Typed, NEW c \in Cases, NEW k \in DOMAIN flight[c]
  PROVE  phase = "up" /\ starts > 0
BY DEF Typed, TypeOK, Idle

LEMMA TypedStep == Typed /\ [Next]_vars => Typed'
<1>1. SUFFICES ASSUME Typed, [Next]_vars PROVE Typed'
  OBVIOUS
<1> USE <1>1 DEF Typed
<1>2. ASSUME NEW c \in Cases, NEW k \in DOMAIN flight[c],
             Begin(c, k) \/ Ship(c, k) \/ AppendRow(c, k)
      PROVE  Typed'
  BY <1>2, TrialFrame, TrialTyped, GoroutinesUp DEF TypeOK, Trials
<1>3. CASE Start
  <2>1. starts' \in 0 .. MaxStarts /\ starts' > 0
    BY <1>3, TopupAssumption DEF Start, TypeOK
  <2>2. done' \in [Cases -> SUBSET Seqs]
    BY <1>3 DEF Start, Loaded
  <2>3. QED
    BY <1>3, <2>1, <2>2 DEF Start, world, judged, pass, TypeOK
<1>4. CASE Crash
  <2>1. flight' \in [Cases -> Seq(Trials)]
    BY <1>4 DEF Crash, Idle
  <2>2. enq' \in [Cases -> Seqs] /\ tried' \in [Cases -> Nat]
    BY <1>4, SeqsFinite DEF Crash, Zero
  <2>3. done' \in [Cases -> SUBSET Seqs]
    BY <1>4 DEF Crash, Nothing
  <2>4. torn' \in BOOLEAN /\ mishaps' \in 0 .. MaxMishaps
    <3>1. CASE UNCHANGED <<torn, mishaps>>
      BY <3>1 DEF TypeOK
    <3>2. CASE Mishap /\ torn' = TRUE
      <4>1. mishaps' \in 0 .. MaxMishaps
        BY <3>2, TopupAssumption DEF Mishap, TypeOK
      <4>2. QED
        BY <3>2, <4>1
    <3>3. QED
      BY <1>4, <3>1, <3>2 DEF Crash
  <2>5. QED
    BY <1>4, <2>1, <2>2, <2>3, <2>4 DEF Crash, judged, TypeOK, Trials
<1>5. ASSUME NEW c \in Cases, Edit(c) PROVE Typed'
  <2>1. mishaps' \in 0 .. MaxMishaps
    BY <1>5, TopupAssumption DEF Edit, Mishap, TypeOK
  <2>2. dir' \in [Cases -> Content]
    BY <1>5 DEF Edit, TypeOK
  <2>3. QED
    BY <1>5, <2>1, <2>2 DEF Edit, life, judged, pass, record, TypeOK
<1>6. ASSUME NEW c \in Cases, Judge(c) PROVE Typed'
  <2>1. flight' \in [Cases -> Seq(Trials)]
    <3>1. CASE flight' = flight
      BY <3>1 DEF TypeOK, Trials
    <3>2. ASSUME dir[c] # Absent, Launch(c, Goroutine(0, dir[c]))
          PROVE  flight' \in [Cases -> Seq(Trials)]
      <4>1. Goroutine(0, dir[c]) \in Trials
        BY <3>2, SeqsFinite DEF Goroutine, Trials, TypeOK, Content
      <4>2. QED
        BY <3>2, <4>1, Launching
    <3>3. QED
      BY <1>6, <3>1, <3>2 DEF Judge
  <2>2. known' \in [Cases -> Content] /\ left' = left /\ left = {}
    BY <1>6 DEF Judge, pass, TypeOK
  <2>3. admitted' \in [Cases -> BOOLEAN] /\ verdicts' \subseteq Cases \X Versions \X BOOLEAN
    <3>1. CASE dir[c] = Absent
      BY <1>6, <3>1 DEF Judge, TypeOK
    <3>2. CASE dir[c] # Absent
      <4>1. PICK admit \in BOOLEAN : /\ admitted' = [admitted EXCEPT ![c] = admit]
                                     /\ verdicts' = verdicts \union {<<c, dir[c], admit>>}
        BY <1>6, <3>2 DEF Judge
      <4>2. dir[c] \in Versions
        BY <3>2 DEF TypeOK, Content
      <4>3. QED
        BY <4>1, <4>2 DEF TypeOK
    <3>3. QED
      BY <3>1, <3>2
  <2>4. QED
    BY <1>6, <2>1, <2>2, <2>3 DEF Judge, life, world, pass, record, TypeOK, Trials
<1>7. CASE Fetch
  BY <1>7 DEF Fetch, Wanted, Eligible, life, world, judged, record, TypeOK
<1>8. ASSUME NEW c \in Cases, Consider(c) PROVE Typed'
  BY <1>8 DEF Consider, Skip, life, world, judged, record, TypeOK
<1>9. ASSUME NEW c \in Cases, Enqueue(c) PROVE Typed'
  <2> DEFINE seq == RecordedTopups(c) + 1
  <2>1. seq \in Seqs /\ enq' = [enq EXCEPT ![c] = seq] /\ tried' = [tried EXCEPT ![c] = @ + 1]
        /\ Launch(c, Goroutine(seq, known[c])) /\ Skip(c) /\ c \in left
    BY <1>9 DEF Enqueue, HashRead, First
  <2> HIDE DEF seq
  <2>2. known[c] \in Versions
    BY <2>1 DEF TypeOK, Content
  <2>3. Goroutine(seq, known[c]) \in Trials
    BY <2>1, <2>2 DEF Goroutine, Trials
  <2>4. flight' \in [Cases -> Seq(Trials)]
    BY <2>1, <2>3, Launching
  <2>5. enq' \in [Cases -> Seqs] /\ tried' \in [Cases -> Nat]
    BY <2>1 DEF TypeOK
  <2>6. QED
    BY <1>9, <2>1, <2>4, <2>5 DEF Enqueue, Skip, life, world, judged, record, TypeOK, Trials
<1>10. CASE UNCHANGED vars
  BY <1>10 DEF vars, TypeOK
<1>11. QED
  BY <1>2, <1>3, <1>4, <1>5, <1>6, <1>7, <1>8, <1>9, <1>10 DEF Next, Main, Trial

----------------------------------------------------------------------------
(* The count after a step.                                                 *)
LEMMA CountKept ==
  ASSUME NEW d \in Cases, UNCHANGED done
  PROVE  RecordedTopups(d)' = RecordedTopups(d)
BY DEF RecordedTopups

LEMMA DoneCount ==
  ASSUME TypeOK, NEW c \in Cases, NEW k \in DOMAIN flight[c], AppendRow(c, k), NEW d \in Cases
  PROVE  /\ RecordedTopups(d)' \in Nat /\ RecordedTopups(d)' >= RecordedTopups(d)
         /\ flight[c][k].seq = 0 \/ c \notin Covers[d] => RecordedTopups(d)' = RecordedTopups(d)
<1> DEFINE s == flight[c][k].seq
<1>1. /\ done'[c] = done[c] \union {s}
      /\ \A e \in Cases \ {c} : done'[e] = done[e]
  BY DEF AppendRow, TypeOK
<1> HIDE DEF s
<1>2. Covers[d] \subseteq Cases
  BY TopupAssumption
<1>3. /\ RecordedTopups(d) = Cardinality(Ids(d, done))
      /\ RecordedTopups(d)' = Cardinality(Ids(d, done'))
  BY DEF RecordedTopups, Ids
<1>4. RecordedTopups(d)' \in Nat
  BY <1>3, IdsFinite
<1>5. RecordedTopups(d)' >= RecordedTopups(d)
  <2>1. \A e \in Covers[d] : done[e] \subseteq done'[e]
    BY <1>1, <1>2
  <2>2. Cardinality(Ids(d, done)) <= Cardinality(Ids(d, done'))
    BY <2>1, CountGrows
  <2>3. QED
    BY <1>3, <2>2, IdsFinite
<1>6. ASSUME s = 0 \/ c \notin Covers[d]
      PROVE  RecordedTopups(d)' = RecordedTopups(d)
  <2>1. \A e \in Covers[d], t \in Seqs \ {0} : t \in done'[e] <=> t \in done[e]
    BY <1>1, <1>2, <1>6
  <2>2. Ids(d, done') = Ids(d, done)
    BY <2>1 DEF Ids
  <2>3. QED
    BY <1>3, <2>2
<1>7. QED
  BY <1>4, <1>5, <1>6 DEF s

(* The kinds of steps, for the numbers of rerolls.                         *)
Quiet == UNCHANGED <<flight, done, enq>>
LEMMA Kinds ==
  ASSUME [Next]_vars
  PROVE  \/ Quiet
         \/ Start
         \/ Crash
         \/ \E c \in Cases : Launch(c, Goroutine(0, dir[c])) /\ dir[c] # Absent /\ UNCHANGED <<done, enq>>
         \/ \E c \in Cases : Enqueue(c)
         \/ \E c \in Cases : \E k \in DOMAIN flight[c] :
              /\ \/ Goto(c, k, "running") /\ flight[c][k].seq \notin done[c]
                 \/ Goto(c, k, "closing") /\ flight[c][k].pc = "running"
              /\ UNCHANGED <<done, enq>>
         \/ \E c \in Cases : \E k \in DOMAIN flight[c] : Ends(c, k) /\ UNCHANGED <<done, enq>>
         \/ \E c \in Cases : \E k \in DOMAIN flight[c] : AppendRow(c, k)
<1>1. CASE Fetch \/ UNCHANGED vars
  BY <1>1 DEF Quiet, Fetch, vars, pass, record
<1>2. ASSUME NEW c \in Cases, Edit(c) \/ Consider(c)
      PROVE  Quiet
  BY <1>2 DEF Quiet, Edit, Consider, pass, record
<1>3. ASSUME NEW c \in Cases, Judge(c)
      PROVE  \/ Quiet
             \/ Launch(c, Goroutine(0, dir[c])) /\ dir[c] # Absent /\ UNCHANGED <<done, enq>>
  BY <1>3 DEF Quiet, Judge, pass, record
<1>4. ASSUME NEW c \in Cases, NEW k \in DOMAIN flight[c], Begin(c, k) \/ Ship(c, k)
      PROVE  /\ \/ Goto(c, k, "running") /\ flight[c][k].seq \notin done[c]
                \/ Goto(c, k, "closing") /\ flight[c][k].pc = "running"
                \/ Ends(c, k)
             /\ UNCHANGED <<done, enq>>
  BY <1>4 DEF Begin, IsDone, Ship, At, pass, record
<1>5. QED
  BY <1>1, <1>2, <1>3, <1>4 DEF Next, Main, Trial

----------------------------------------------------------------------------
(* Who is rolled.                                                          *)
LEMMA JudgedHash ==
  ASSUME Typed, AdmittedHash, [Next]_vars
  PROVE  AdmittedHash' /\ verdicts \subseteq verdicts'
<1>1. ASSUME NEW c \in Cases, Judge(c)
      PROVE  AdmittedHash' /\ verdicts \subseteq verdicts'
  <2>1. known' = [known EXCEPT ![c] = dir[c]]
    BY <1>1 DEF Judge
  <2>2. CASE dir[c] = Absent
    BY <1>1, <2>1, <2>2 DEF Judge, AdmittedHash, Typed, TypeOK
  <2>3. CASE dir[c] # Absent
    <3>1. PICK admit \in BOOLEAN : /\ admitted' = [admitted EXCEPT ![c] = admit]
                                   /\ verdicts' = verdicts \union {<<c, dir[c], admit>>}
      BY <1>1, <2>3 DEF Judge
    <3>2. ASSUME NEW d \in Cases, admitted'[d], known'[d] # Absent
          PROVE  <<d, known'[d], TRUE>> \in verdicts'
      <4>1. CASE d = c
        <5>1. admit = TRUE
          BY <3>1, <3>2, <4>1 DEF Typed, TypeOK
        <5>2. QED
          BY <2>1, <3>1, <4>1, <5>1 DEF Typed, TypeOK
      <4>2. CASE d # c
        BY <2>1, <3>1, <3>2, <4>2 DEF AdmittedHash, Typed, TypeOK
      <4>3. QED
        BY <4>1, <4>2
    <3>3. QED
      BY <3>1, <3>2 DEF AdmittedHash
  <2>4. QED
    BY <2>2, <2>3
<1>2. ASSUME UNCHANGED judged
      PROVE  AdmittedHash' /\ verdicts \subseteq verdicts'
  BY <1>2 DEF judged, AdmittedHash
<1>3. \/ \E c \in Cases : Judge(c)
      \/ UNCHANGED judged
  <2>1. ASSUME NEW c \in Cases, NEW k \in DOMAIN flight[c],
               Begin(c, k) \/ Ship(c, k) \/ AppendRow(c, k)
        PROVE  UNCHANGED judged
    BY <2>1 DEF Begin, Ship, AppendRow
  <2>2. ASSUME NEW c \in Cases, Edit(c) \/ Consider(c) \/ Enqueue(c)
        PROVE  UNCHANGED judged
    BY <2>2 DEF Edit, Consider, Enqueue
  <2>3. CASE Start \/ Crash \/ Fetch \/ UNCHANGED vars
    BY <2>3 DEF Start, Crash, Fetch, vars, judged
  <2>4. QED
    BY <2>1, <2>2, <2>3 DEF Next, Main, Trial
<1>4. QED
  BY <1>1, <1>2, <1>3

(* A goroutine that is launched with an admitted hash joins those that     *)
(* were.                                                                   *)
LEMMA LaunchAdmitted ==
  ASSUME TypeOK, RolloutsOfAdmitted, verdicts \subseteq verdicts',
         NEW c \in Cases, NEW g \in Trials, Launch(c, g), <<c, g.sha, TRUE>> \in verdicts'
  PROVE  RolloutsOfAdmitted'
<1>1. SUFFICES ASSUME NEW d \in Cases, NEW k \in DOMAIN flight'[d]
               PROVE  <<d, flight'[d][k].sha, TRUE>> \in verdicts'
  BY DEF RolloutsOfAdmitted
<1> DEFINE n == Len(flight[c]) + 1
<1>2. /\ \A e \in Cases \ {c} : flight'[e] = flight[e]
      /\ DOMAIN flight'[c] = DOMAIN flight[c] \union {n}
      /\ flight'[c][n] = g
      /\ \A i \in DOMAIN flight[c] : flight'[c][i] = flight[c][i]
  BY Launching
<1> HIDE DEF n
<1>3. CASE d # c
  BY <1>1, <1>2, <1>3 DEF RolloutsOfAdmitted
<1>4. CASE d = c /\ k # n
  <2>1. k \in DOMAIN flight[c] /\ flight'[d][k] = flight[c][k]
    BY <1>1, <1>2, <1>4
  <2>2. QED
    BY <1>4, <2>1 DEF RolloutsOfAdmitted
<1>5. CASE d = c /\ k = n
  BY <1>2, <1>5
<1>6. QED
  BY <1>3, <1>4, <1>5

LEMMA RolloutStep ==
  ASSUME Typed, AdmittedHash, RolloutsOfAdmitted, [Next]_vars
  PROVE  RolloutsOfAdmitted'
<1>1. verdicts \subseteq verdicts'
  BY JudgedHash
<1>2. ASSUME NEW c \in Cases, Enqueue(c)
      PROVE  RolloutsOfAdmitted'
  <2>1. /\ Launch(c, Goroutine(RecordedTopups(c) + 1, known[c])) /\ RecordedTopups(c) + 1 \in Seqs
        /\ admitted[c] /\ known[c] # Absent
    BY <1>2 DEF Enqueue, HashRead, First, Typed
  <2>2. known[c] \in Versions /\ <<c, known[c], TRUE>> \in verdicts
    BY <2>1 DEF AdmittedHash, Typed, TypeOK, Content
  <2>3. /\ Goroutine(RecordedTopups(c) + 1, known[c]) \in Trials
        /\ Goroutine(RecordedTopups(c) + 1, known[c]).sha = known[c]
    BY <2>1, <2>2 DEF Goroutine, Trials
  <2>4. QED
    BY <1>1, <2>1, <2>2, <2>3, LaunchAdmitted DEF Typed
<1>3. ASSUME NEW c \in Cases, Judge(c), flight' # flight
      PROVE  RolloutsOfAdmitted'
  <2>1. Launch(c, Goroutine(0, dir[c])) /\ dir[c] # Absent /\ <<c, dir[c], TRUE>> \in verdicts'
    BY <1>3 DEF Judge
  <2>2. Goroutine(0, dir[c]) \in Trials /\ Goroutine(0, dir[c]).sha = dir[c]
    BY <2>1, SeqsFinite DEF Goroutine, Trials, Typed, TypeOK, Content
  <2>3. QED
    BY <1>1, <2>1, <2>2, LaunchAdmitted DEF Typed
<1>4. ASSUME NEW c \in Cases, NEW k \in DOMAIN flight[c],
             Begin(c, k) \/ Ship(c, k) \/ AppendRow(c, k)
      PROVE  RolloutsOfAdmitted'
  <2>1. CASE Goto(c, k, "running") \/ Goto(c, k, "closing")
    BY <1>1, <1>4, <2>1, Going DEF RolloutsOfAdmitted, Typed
  <2>2. CASE Ends(c, k)
    <3>1. SUFFICES ASSUME NEW d \in Cases, NEW j \in DOMAIN flight'[d]
                   PROVE  <<d, flight'[d][j].sha, TRUE>> \in verdicts
      BY <1>1 DEF RolloutsOfAdmitted
    <3>2. /\ \A e \in Cases \ {c} : flight'[e] = flight[e]
          /\ \A i \in DOMAIN flight'[c] :
               /\ Before(i, k) \in DOMAIN flight[c] \ {k}
               /\ flight'[c][i] = flight[c][Before(i, k)]
      BY <1>4, <2>2, Leaving DEF Typed
    <3>3. CASE d = c
      BY <3>1, <3>2, <3>3 DEF RolloutsOfAdmitted
    <3>4. CASE d # c
      BY <3>1, <3>2, <3>4 DEF RolloutsOfAdmitted
    <3>5. QED
      BY <3>3, <3>4
  <2>3. QED
    BY <1>4, <2>1, <2>2 DEF Begin, Ship, AppendRow
<1>5. CASE Crash
  BY <1>5 DEF Crash, Idle, RolloutsOfAdmitted
<1>6. CASE flight' = flight
  BY <1>1, <1>6 DEF RolloutsOfAdmitted
<1>7. ASSUME NEW c \in Cases, Edit(c) \/ Consider(c)
      PROVE  flight' = flight
  BY <1>7 DEF Edit, Consider
<1>8. CASE Start \/ Fetch \/ UNCHANGED vars
  BY <1>6, <1>8 DEF Start, Fetch, vars
<1>9. QED
  BY <1>2, <1>3, <1>4, <1>5, <1>6, <1>7, <1>8 DEF Next, Main, Trial

----------------------------------------------------------------------------
(* How often it is tried.                                                  *)
LEMMA CountStep ==
  ASSUME Typed, [Next]_vars, NEW d \in Cases
  PROVE  RecordedTopups(d) \in Nat /\ RecordedTopups(d)' \in Nat
         /\ (Start \/ Crash \/ RecordedTopups(d)' >= RecordedTopups(d))
<1>1. RecordedTopups(d) \in Nat
  BY CountType
<1>2. RecordedTopups(d)' \in Nat
  <2>1. RecordedTopups(d)' = Cardinality(Ids(d, done'))
    BY DEF RecordedTopups, Ids
  <2>2. QED
    BY <2>1, IdsFinite
<1>3. CASE UNCHANGED done
  BY <1>1, <1>3, CountKept
<1>4. ASSUME NEW c \in Cases, NEW k \in DOMAIN flight[c], AppendRow(c, k)
      PROVE  RecordedTopups(d)' >= RecordedTopups(d)
  BY <1>4, DoneCount DEF Typed
<1>5. \/ Start \/ Crash \/ UNCHANGED done
      \/ \E c \in Cases : \E k \in DOMAIN flight[c] : AppendRow(c, k)
  <2>1. ASSUME NEW c \in Cases, Enqueue(c)
        PROVE  UNCHANGED done
    BY <2>1 DEF Enqueue, record
  <2>2. QED
    BY <2>1, Kinds DEF Quiet
<1>6. QED
  BY <1>1, <1>2, <1>3, <1>4, <1>5

LEMMA TryStep ==
  ASSUME Typed, TryInv, [Next]_vars
  PROVE  TryInv'
<1> DEFINE R(c) == RecordedTopups(c)
<1>1. \A d \in Cases : R(d) \in Nat /\ R(d)' \in Nat /\ (Start \/ Crash \/ R(d)' >= R(d))
  BY CountStep
<1>2. /\ enq \in [Cases -> Nat] /\ tried \in [Cases -> Nat] /\ Tries \in Nat
      /\ left \subseteq Cases
  BY SeqsFinite DEF Typed, TypeOK
<1>3. CASE UNCHANGED pass
  <2>1. \A d \in Cases : First(d)' = First(d)
    BY <1>3 DEF pass, First
  <2>2. ASSUME NEW d \in Cases, main' = "enqueue", First(d)'
        PROVE  enq'[d] <= R(d)'
    <3>1. enq[d] <= R(d) /\ enq' = enq
      BY <1>3, <2>1, <2>2 DEF pass, TryInv
    <3>2. ~Start /\ ~Crash
      BY <1>3, <2>2 DEF Start, Crash, pass, Typed
    <3>3. QED
      BY <1>1, <1>2, <3>1, <3>2
  <2>3. QED
    BY <1>3, <2>2 DEF pass, TryInv
<1>4. CASE Crash
  BY <1>2, <1>4 DEF Crash, Zero, TryInv
<1>5. CASE Fetch
  BY <1>5 DEF Fetch, Wanted, TriesLeft, TryInv
<1>6. ASSUME NEW c \in Cases, Consider(c)
      PROVE  TryInv'
  <2>1. enq' = enq /\ tried' = tried /\ left' \subseteq left
    BY <1>6 DEF Consider, Skip
  <2>2. ASSUME NEW d \in Cases, main' = "enqueue", First(d)'
        PROVE  enq'[d] <= R(d)'
    <3>1. left' = left /\ Landed(c) /\ First(c)
      BY <1>6, <2>2 DEF Consider, Skip
    <3>2. First(d)
      BY <2>2, <3>1 DEF First
    <3>3. d = c
      <4>1. Rank[c] \in Nat /\ Rank[d] \in Nat
        BY <1>6, <2>2, TopupAssumption
      <4>2. d # c => Rank[c] < Rank[d] /\ Rank[d] < Rank[c]
        BY <3>1, <3>2, <1>2 DEF First
      <4>3. QED
        BY <4>1, <4>2
    <3>4. enq[c] <= R(c)
      BY <3>1 DEF Landed
    <3>5. ~Start /\ ~Crash
      BY <1>6 DEF Consider, Start, Crash, life
    <3>6. QED
      BY <1>1, <1>2, <2>1, <3>3, <3>4, <3>5
  <2>3. QED
    BY <2>1, <2>2 DEF TryInv
<1>7. ASSUME NEW c \in Cases, Enqueue(c)
      PROVE  TryInv'
  <2>1. /\ enq' = [enq EXCEPT ![c] = R(c) + 1] /\ tried' = [tried EXCEPT ![c] = tried[c] + 1]
        /\ left' = left \ {c} /\ main' # "enqueue" /\ c \in left /\ main = "enqueue" /\ First(c)
    BY <1>7 DEF Enqueue, Skip, First
  <2>2. enq[c] <= R(c) /\ enq[c] < Tries /\ tried[c] <= enq[c]
    BY <2>1 DEF TryInv
  <2>3. tried'[c] <= enq'[c] /\ tried'[c] <= Tries
    <3>1. enq'[c] = R(c) + 1 /\ tried'[c] = tried[c] + 1
      BY <1>2, <2>1
    <3>2. enq[c] \in Nat /\ tried[c] \in Nat /\ R(c) \in Nat
      BY <1>1, <1>2
    <3>3. QED
      BY <1>2, <2>2, <3>1, <3>2
  <2>4. \A d \in Cases \ {c} : enq'[d] = enq[d] /\ tried'[d] = tried[d]
    BY <1>2, <2>1
  <2>5. QED
    BY <1>2, <2>1, <2>3, <2>4 DEF TryInv
<1>8. ASSUME NEW c \in Cases, Edit(c) \/ Judge(c)
      PROVE  UNCHANGED pass
  BY <1>8 DEF Edit, Judge
<1>9. ASSUME NEW c \in Cases, NEW k \in DOMAIN flight[c],
             Begin(c, k) \/ Ship(c, k) \/ AppendRow(c, k)
      PROVE  UNCHANGED pass
  BY <1>9 DEF Begin, Ship, AppendRow
<1>10. CASE Start \/ UNCHANGED vars
  BY <1>3, <1>10 DEF Start, vars, pass
<1>11. QED
  BY <1>3, <1>4, <1>5, <1>6, <1>7, <1>8, <1>9, <1>10 DEF Next, Main, Trial

----------------------------------------------------------------------------
(* What is on file.                                                        *)
LEMMA RowsAppended ==
  ASSUME Typed, RowInv, NumberInv, NEW c \in Cases, NEW k \in DOMAIN flight[c], AppendRow(c, k)
  PROVE  RowInv'
<1> DEFINE s == flight[c][k].seq
<1>1. phase = "up" /\ starts \in Nat /\ starts > 0 /\ UNCHANGED <<phase, starts>>
  <2>1. phase = "up" /\ starts > 0
    BY GoroutinesUp
  <2>2. UNCHANGED <<phase, starts>>
    BY TrialFrame
  <2>3. starts \in Nat
    BY DEF Typed, TypeOK
  <2>4. QED
    BY <2>1, <2>2, <2>3
<1>2. s # 0 => s \notin done[c]
  BY DEF AppendRow, At, NumberInv, FlightNumbers, Rerolls
<1>3. s \in Seqs /\ rows \in [Cases -> [Seqs -> Nat]]
  BY TrialType DEF Typed, TypeOK, Trials
<1>4. /\ done' = [done EXCEPT ![c] = done[c] \union {s}]
      /\ RowLands(c, s) \/ RowIsLost
  BY DEF AppendRow
<1> HIDE DEF s
<1>5. \A d \in Cases : \A t \in Seqs : t \in done'[d] <=> t \in done[d] \/ <<d, t>> = <<c, s>>
  BY <1>4 DEF Typed, TypeOK
<1>6. SUFFICES ASSUME NEW d \in Cases, NEW t \in Seqs \ {0}
               PROVE  /\ rows'[d][t] <= IF torn' THEN starts ELSE 1
                      /\ t \notin done'[d] => rows'[d][t] <= IF torn' THEN starts - 1 ELSE 0
  BY <1>1 DEF RowInv
<1>7. /\ rows[d][t] \in Nat /\ rows[d][t] <= IF torn THEN starts ELSE 1
      /\ t \notin done[d] => rows[d][t] <= IF torn THEN starts - 1 ELSE 0
  BY <1>1, <1>3 DEF RowInv
<1>8. CASE RowIsLost
  <2>1. rows' = rows /\ torn' \in {torn, TRUE}
    BY <1>8 DEF RowIsLost
  <2>2. t \notin done'[d] => t \notin done[d]
    BY <1>5
  <2>3. CASE torn' = torn
    BY <1>7, <2>1, <2>2, <2>3
  <2>4. CASE torn' = TRUE /\ torn = FALSE
    BY <1>1, <1>7, <2>1, <2>2, <2>4
  <2>5. QED
    BY <2>1, <2>3, <2>4 DEF Typed, TypeOK
<1>9. CASE RowLands(c, s)
  <2>1. /\ torn' = torn
        /\ rows' = [rows EXCEPT ![c] = [rows[c] EXCEPT ![s] = rows[c][s] + 1]]
    BY <1>9 DEF RowLands
  <2>2. CASE <<d, t>> = <<c, s>>
    <3>1. rows'[d][t] = rows[d][t] + 1 /\ t \notin done[d] /\ t \in done'[d]
      BY <1>2, <1>3, <1>5, <2>1, <2>2
    <3>2. QED
      BY <1>1, <1>7, <2>1, <3>1
  <2>3. CASE <<d, t>> # <<c, s>>
    <3>1. rows'[d][t] = rows[d][t]
      BY <1>3, <2>1, <2>3
    <3>2. QED
      BY <1>5, <1>7, <2>1, <2>3, <3>1
  <2>4. QED
    BY <2>2, <2>3
<1>10. QED
  BY <1>4, <1>8, <1>9

LEMMA RowStep ==
  ASSUME Typed, RowInv, NumberInv, [Next]_vars
  PROVE  RowInv'
<1>1. starts \in Nat /\ \A c \in Cases, s \in Seqs : rows[c][s] \in Nat
  BY DEF Typed, TypeOK
<1>2. CASE Start
  <2>1. SUFFICES ASSUME NEW c \in Cases, NEW s \in Seqs \ {0}
                 PROVE  /\ rows[c][s] <= IF torn THEN starts + 1 ELSE 1
                        /\ s \notin Loaded(c) => rows[c][s] <= IF torn THEN starts ELSE 0
    BY <1>1, <1>2 DEF Start, RowInv
  <2>2. rows[c][s] <= IF torn THEN starts ELSE 1
    BY DEF RowInv
  <2>3. s \notin Loaded(c) => torn \/ ~(rows[c][s] > 0)
    BY DEF Loaded
  <2>4. QED
    BY <1>1, <2>2, <2>3
<1>3. CASE Crash
  <2>1. starts > 0 /\ UNCHANGED <<starts, rows>> /\ phase' = "down" /\ torn' \in {torn, TRUE}
    BY <1>3 DEF Crash, Typed
  <2>2. SUFFICES ASSUME NEW c \in Cases, NEW s \in Seqs \ {0}
                 PROVE  rows[c][s] <= IF torn' THEN starts ELSE 1
    BY <2>1 DEF RowInv
  <2>3. rows[c][s] \in Nat /\ rows[c][s] <= IF torn THEN starts ELSE 1
    BY <1>1 DEF RowInv
  <2>4. CASE torn' = torn
    BY <2>3, <2>4
  <2>5. CASE torn' = TRUE /\ torn = FALSE
    BY <1>1, <2>1, <2>3, <2>5
  <2>6. QED
    BY <2>1, <2>4, <2>5 DEF Typed, TypeOK
<1>4. ASSUME NEW c \in Cases, NEW k \in DOMAIN flight[c], AppendRow(c, k)
      PROVE  RowInv'
  BY <1>4, RowsAppended
<1>5. CASE UNCHANGED <<life, record>>
  BY <1>5 DEF RowInv, life, record
<1>6. ASSUME NEW c \in Cases, Edit(c) \/ Judge(c) \/ Consider(c) \/ Enqueue(c)
      PROVE  UNCHANGED <<life, record>>
  BY <1>6 DEF Edit, Judge, Consider, Enqueue
<1>7. ASSUME NEW c \in Cases, NEW k \in DOMAIN flight[c], Begin(c, k) \/ Ship(c, k)
      PROVE  UNCHANGED <<life, record>>
  BY <1>7 DEF Begin, Ship
<1>8. CASE Fetch \/ UNCHANGED vars
  BY <1>5, <1>8 DEF Fetch, vars, life, record
<1>9. QED
  BY <1>2, <1>3, <1>4, <1>5, <1>6, <1>7, <1>8 DEF Next, Main, Trial

----------------------------------------------------------------------------
(* How rerolls are numbered.                                               *)

(* A case is not disturbed by goroutines of its that end or move on.       *)
LEMMA StillNumbered ==
  ASSUME Typed, NEW d \in Cases, FlightNumbers(d), enq'[d] = enq[d],
         NEW Old \in [DOMAIN flight'[d] -> DOMAIN flight[d]], IsInjective(Old),
         \A j \in DOMAIN flight'[d] : flight'[d][j].seq = flight[d][Old[j]].seq,
         \A j \in Rerolls(d)' :
           flight'[d][j].pc # "queued" => flight'[d][j].seq \notin done'[d]
  PROVE  FlightNumbers(d)'
<1>1. \A j \in Rerolls(d)' : /\ Old[j] \in Rerolls(d) /\ j \in DOMAIN flight'[d]
                             /\ flight'[d][j].seq = flight[d][Old[j]].seq
  BY DEF Rerolls
<1>2. ASSUME NEW j \in Rerolls(d)'
      PROVE  /\ flight'[d][j].seq <= enq'[d]
             /\ \A l \in Rerolls(d)' : flight'[d][l].seq = flight'[d][j].seq => l = j
  <2>1. /\ flight[d][Old[j]].seq <= enq[d]
        /\ \A l \in Rerolls(d) : flight[d][l].seq = flight[d][Old[j]].seq => l = Old[j]
    BY <1>1 DEF FlightNumbers
  <2>2. \A l \in Rerolls(d)' : flight'[d][l].seq = flight'[d][j].seq => l = j
    BY <1>1, <2>1 DEF IsInjective
  <2>3. QED
    BY <1>1, <2>1, <2>2
<1>3. QED
  BY <1>2 DEF FlightNumbers

LEMMA NumberEnqueue ==
  ASSUME Typed, TryInv, NumberInv, NEW c \in Cases, Enqueue(c)
  PROVE  NumberInv'
<1> DEFINE R(d) == RecordedTopups(d)
           n == Len(flight[c]) + 1
           g == Goroutine(R(c) + 1, known[c])
<1>1. /\ Launch(c, g) /\ R(c) + 1 \in Seqs /\ done' = done
      /\ enq' = [enq EXCEPT ![c] = R(c) + 1] /\ known[c] # Absent /\ enq[c] <= R(c)
  BY DEF Enqueue, HashRead, First, Typed, TryInv, record
<1>2. g \in Trials /\ g.seq = R(c) + 1 /\ g.pc = "queued"
  BY <1>1 DEF Goroutine, Trials, Typed, TypeOK, Content
<1> HIDE DEF g
<1>3. /\ \A d \in Cases \ {c} : flight'[d] = flight[d]
      /\ DOMAIN flight'[c] = DOMAIN flight[c] \union {n} /\ n \notin DOMAIN flight[c]
      /\ flight'[c][n] = g
      /\ \A k \in DOMAIN flight[c] : flight'[c][k] = flight[c][k]
  BY <1>1, <1>2, Launching DEF Typed
<1> HIDE DEF n
<1>4. R(c) \in Nat /\ enq[c] \in Nat
  BY CountType, SeqsFinite DEF Typed, TypeOK
<1>5. enq'[c] = R(c) + 1 /\ \A d \in Cases \ {c} : enq'[d] = enq[d]
  BY <1>1 DEF Typed, TypeOK
<1>6. \A d \in Cases \ {c} : FlightNumbers(d)'
  <2>1. \A d \in Cases \ {c} : FlightNumbers(d) /\ Rerolls(d)' = Rerolls(d)
    BY <1>3 DEF NumberInv, Rerolls
  <2>2. QED
    BY <1>1, <1>3, <1>5, <2>1 DEF FlightNumbers
<1>7. Rerolls(c)' = Rerolls(c) \union {n} /\ n \notin Rerolls(c)
  BY <1>2, <1>3, <1>4 DEF Rerolls
<1>8. \A k \in Rerolls(c) :
        /\ flight'[c][k] = flight[c][k] /\ flight[c][k].seq \in Nat
        /\ flight[c][k].seq <= enq[c]
        /\ flight[c][k].pc # "queued" => flight[c][k].seq \notin done[c]
        /\ \A l \in Rerolls(c) : flight[c][l].seq = flight[c][k].seq => l = k
  <2>1. \A k \in Rerolls(c) : flight'[c][k] = flight[c][k] /\ flight[c][k].seq \in Nat
    BY <1>3, TrialType, SeqsFinite DEF Rerolls, Typed, Trials
  <2>2. QED
    BY <2>1 DEF NumberInv, FlightNumbers
<1>9. ASSUME NEW k \in Rerolls(c)'
      PROVE  /\ flight'[c][k].seq <= enq'[c]
             /\ flight'[c][k].pc # "queued" => flight'[c][k].seq \notin done'[c]
             /\ \A l \in Rerolls(c)' : flight'[c][l].seq = flight'[c][k].seq => l = k
  <2>1. \A l \in Rerolls(c) : flight'[c][l].seq <= R(c) /\ flight'[c][l].seq # R(c) + 1
    BY <1>1, <1>4, <1>8
  <2>2. CASE k = n
    <3>1. flight'[c][k].seq = R(c) + 1 /\ flight'[c][k].pc = "queued"
      BY <1>2, <1>3, <2>2
    <3>2. \A l \in Rerolls(c)' : flight'[c][l].seq = flight'[c][k].seq => l = k
      BY <1>7, <2>1, <2>2, <3>1
    <3>3. QED
      BY <1>4, <1>5, <3>1, <3>2
  <2>3. CASE k \in Rerolls(c)
    <3>1. /\ flight'[c][k].seq <= R(c) /\ flight'[c][k].seq \in Nat
          /\ flight'[c][k].pc # "queued" => flight'[c][k].seq \notin done[c]
      BY <1>8, <2>1, <2>3
    <3>2. flight'[c][n].seq = R(c) + 1
      BY <1>2, <1>3
    <3>3. \A l \in Rerolls(c)' : flight'[c][l].seq = flight'[c][k].seq => l = k
      BY <1>7, <1>8, <2>1, <2>3, <3>2
    <3>4. QED
      BY <1>1, <1>4, <1>5, <3>1, <3>3
  <2>4. QED
    BY <1>7, <2>2, <2>3
<1>10. FlightNumbers(c)'
  BY <1>9 DEF FlightNumbers
<1>11. QED
  BY <1>6, <1>10 DEF NumberInv

(* A goroutine that ends, and what it leaves done.                         *)
LEMMA NumberEnds ==
  ASSUME Typed, NumberInv, NEW c \in Cases, NEW k \in DOMAIN flight[c], Ends(c, k), enq' = enq,
         \/ UNCHANGED done
         \/ done' = [done EXCEPT ![c] = done[c] \union {flight[c][k].seq}]
  PROVE  NumberInv'
<1> DEFINE s == flight[c][k].seq
<1>1. /\ \A d \in Cases \ {c} : flight'[d] = flight[d]
      /\ \A j \in DOMAIN flight'[c] :
           /\ Before(j, k) \in DOMAIN flight[c] \ {k}
           /\ flight'[c][j] = flight[c][Before(j, k)]
      /\ \A j, l \in DOMAIN flight'[c] : Before(j, k) = Before(l, k) => j = l
  BY Leaving DEF Typed
<1>2. (\A d \in Cases \ {c} : done'[d] = done[d]) /\ done'[c] \subseteq done[c] \union {s}
  BY DEF Typed, TypeOK
<1>3. ASSUME NEW d \in Cases \ {c}
      PROVE  FlightNumbers(d)'
  <2>1. flight'[d] = flight[d] /\ done'[d] = done[d] /\ FlightNumbers(d) /\ Rerolls(d)' = Rerolls(d)
    BY <1>1, <1>2 DEF NumberInv, Rerolls
  <2>2. QED
    BY <2>1 DEF FlightNumbers
<1>4. FlightNumbers(c)'
  <2> DEFINE Old == [j \in DOMAIN flight'[c] |-> Before(j, k)]
  <2>1. Old \in [DOMAIN flight'[c] -> DOMAIN flight[c]]
    BY <1>1
  <2>2. IsInjective(Old)
    BY <1>1 DEF IsInjective
  <2>3. \A j \in DOMAIN flight'[c] : flight'[c][j].seq = flight[c][Old[j]].seq
    BY <1>1
  <2>4. ASSUME NEW j \in Rerolls(c)', flight'[c][j].pc # "queued"
        PROVE  flight'[c][j].seq \notin done'[c]
    <3> DEFINE i == Before(j, k)
    <3>1. i \in Rerolls(c) /\ i # k /\ flight'[c][j] = flight[c][i]
      BY <1>1 DEF Rerolls
    <3>2. /\ flight[c][i].seq \notin done[c]
          /\ \A l \in Rerolls(c) : flight[c][l].seq = flight[c][i].seq => l = i
      BY <2>4, <3>1 DEF NumberInv, FlightNumbers
    <3>3. flight[c][i].seq # s
      <4>1. s = 0 \/ k \in Rerolls(c)
        BY DEF Rerolls
      <4>2. flight[c][i].seq # 0
        BY <3>1 DEF Rerolls
      <4>3. QED
        BY <3>1, <3>2, <4>1, <4>2
    <3>4. QED
      BY <1>2, <3>1, <3>2, <3>3
  <2> HIDE DEF Old
  <2>5. FlightNumbers(c) /\ enq'[c] = enq[c]
    BY DEF NumberInv
  <2>6. QED
    BY <2>1, <2>2, <2>3, <2>4, <2>5, StillNumbered
<1>5. QED
  BY <1>3, <1>4 DEF NumberInv

LEMMA NumberStep ==
  ASSUME Typed, TryInv, NumberInv, [Next]_vars
  PROVE  NumberInv'
<1>1. CASE Quiet
  BY <1>1 DEF Quiet, NumberInv, FlightNumbers, Rerolls
<1>2. CASE Start \/ Crash
  <2>1. \A d \in Cases : Rerolls(d)' = {}
    BY <1>2 DEF Start, Crash, Idle, Rerolls, Typed
  <2>2. QED
    BY <2>1 DEF NumberInv, FlightNumbers
<1>3. ASSUME NEW c \in Cases, Launch(c, Goroutine(0, dir[c])), dir[c] # Absent,
             UNCHANGED <<done, enq>>
      PROVE  NumberInv'
  <2> DEFINE g == Goroutine(0, dir[c])
             n == Len(flight[c]) + 1
  <2>1. g \in Trials /\ g.seq = 0
    BY <1>3, SeqsFinite DEF Goroutine, Trials, Typed, TypeOK, Content
  <2> HIDE DEF g
  <2>2. /\ \A d \in Cases \ {c} : flight'[d] = flight[d]
        /\ DOMAIN flight'[c] = DOMAIN flight[c] \union {n}
        /\ flight'[c][n] = g
        /\ \A k \in DOMAIN flight[c] : flight'[c][k] = flight[c][k]
    BY <1>3, <2>1, Launching DEF Typed, g
  <2> HIDE DEF n
  <2>3. \A d \in Cases : Rerolls(d)' = Rerolls(d)
                         /\ \A k \in Rerolls(d) : flight'[d][k] = flight[d][k]
    BY <2>1, <2>2 DEF Rerolls
  <2>4. QED
    BY <1>3, <2>3 DEF NumberInv, FlightNumbers
<1>4. ASSUME NEW c \in Cases, Enqueue(c)
      PROVE  NumberInv'
  BY <1>4, NumberEnqueue
<1>5. ASSUME NEW c \in Cases, NEW k \in DOMAIN flight[c],
             \/ Goto(c, k, "running") /\ flight[c][k].seq \notin done[c]
             \/ Goto(c, k, "closing") /\ flight[c][k].pc = "running",
             UNCHANGED <<done, enq>>
      PROVE  NumberInv'
  <2>1. /\ \A d \in Cases : /\ DOMAIN flight'[d] = DOMAIN flight[d]
                            /\ \A j \in DOMAIN flight[d] : flight'[d][j].seq = flight[d][j].seq
        /\ \A d \in Cases : \A j \in DOMAIN flight[d] :
             <<d, j>> # <<c, k>> => flight'[d][j] = flight[d][j]
    BY <1>5, Going DEF Typed
  <2>2. \A d \in Cases : Rerolls(d)' = Rerolls(d)
    BY <2>1 DEF Rerolls
  <2>3. k \in Rerolls(c) => flight[c][k].seq \notin done[c]
    BY <1>5 DEF NumberInv, FlightNumbers
  <2>4. SUFFICES ASSUME NEW d \in Cases, NEW i \in Rerolls(d)
                 PROVE  /\ flight'[d][i].seq <= enq[d]
                        /\ flight'[d][i].pc # "queued" => flight'[d][i].seq \notin done[d]
                        /\ \A l \in Rerolls(d) : flight'[d][l].seq = flight'[d][i].seq => l = i
    BY <1>5, <2>2 DEF NumberInv, FlightNumbers
  <2>5. \A l \in Rerolls(d) : l \in DOMAIN flight[d] /\ flight'[d][l].seq = flight[d][l].seq
    BY <2>1 DEF Rerolls
  <2>6. /\ flight[d][i].seq <= enq[d]
        /\ flight[d][i].pc # "queued" => flight[d][i].seq \notin done[d]
        /\ \A l \in Rerolls(d) : flight[d][l].seq = flight[d][i].seq => l = i
    BY DEF NumberInv, FlightNumbers
  <2>7. CASE <<d, i>> = <<c, k>>
    BY <2>3, <2>5, <2>6, <2>7
  <2>8. CASE <<d, i>> # <<c, k>>
    BY <2>1, <2>5, <2>6, <2>8
  <2>9. QED
    BY <2>7, <2>8
<1>6. ASSUME NEW c \in Cases, NEW k \in DOMAIN flight[c], Ends(c, k), UNCHANGED <<done, enq>>
      PROVE  NumberInv'
  BY <1>6, NumberEnds
<1>7. ASSUME NEW c \in Cases, NEW k \in DOMAIN flight[c], AppendRow(c, k)
      PROVE  NumberInv'
  BY <1>7, NumberEnds DEF AppendRow, pass
<1>8. QED
  BY <1>1, <1>2, <1>3, <1>4, <1>5, <1>6, <1>7, Kinds

(* One reroll at a time.                                                   *)
LEMMA AloneStep ==
  ASSUME Typed, TryInv, NumberInv, AloneInv, [Next]_vars
  PROVE  AloneInv'
<1> DEFINE R(d) == RecordedTopups(d)
<1>1. SUFFICES ASSUME NEW d \in Cases, Alone(d), NEW j \in Rerolls(d)'
               PROVE  flight'[d][j].seq = R(d)' + 1 /\ flight'[d][j].seq = enq'[d]
  BY DEF AloneInv, Alone
<1>2. \A k \in Rerolls(d) : flight[d][k].seq = R(d) + 1 /\ flight[d][k].seq = enq[d]
  BY <1>1 DEF AloneInv
<1>3. ASSUME R(d)' = R(d), enq'[d] = enq[d],
             \E k \in Rerolls(d) : flight'[d][j].seq = flight[d][k].seq
      PROVE  flight'[d][j].seq = R(d)' + 1 /\ flight'[d][j].seq = enq'[d]
  BY <1>2, <1>3
<1>4. j \in DOMAIN flight'[d] /\ flight'[d][j].seq # 0
  BY <1>1 DEF Rerolls
<1>5. CASE Quiet
  BY <1>1, <1>2, <1>5, CountKept DEF Quiet, Rerolls
<1>6. CASE Start \/ Crash
  BY <1>4, <1>6 DEF Start, Crash, Idle, Typed
<1>7. ASSUME NEW c \in Cases, Launch(c, Goroutine(0, dir[c])), dir[c] # Absent,
             UNCHANGED <<done, enq>>
      PROVE  flight'[d][j].seq = R(d)' + 1 /\ flight'[d][j].seq = enq'[d]
  <2> DEFINE g == Goroutine(0, dir[c])
             n == Len(flight[c]) + 1
  <2>1. g \in Trials /\ g.seq = 0
    BY <1>7, SeqsFinite DEF Goroutine, Trials, Typed, TypeOK, Content
  <2> HIDE DEF g
  <2>2. /\ \A e \in Cases \ {c} : flight'[e] = flight[e]
        /\ DOMAIN flight'[c] = DOMAIN flight[c] \union {n}
        /\ flight'[c][n] = g
        /\ \A k \in DOMAIN flight[c] : flight'[c][k] = flight[c][k]
    BY <1>7, <2>1, Launching DEF Typed, g
  <2> HIDE DEF n
  <2>3. j \in Rerolls(d) /\ flight'[d][j].seq = flight[d][j].seq
    BY <1>4, <2>1, <2>2 DEF Rerolls
  <2>4. QED
    BY <1>3, <1>7, <2>3, CountKept
<1>8. ASSUME NEW c \in Cases, Enqueue(c)
      PROVE  flight'[d][j].seq = R(d)' + 1 /\ flight'[d][j].seq = enq'[d]
  <2> DEFINE n == Len(flight[c]) + 1
             g == Goroutine(R(c) + 1, known[c])
  <2>1. /\ Launch(c, g) /\ R(c) + 1 \in Seqs /\ done' = done
        /\ enq' = [enq EXCEPT ![c] = R(c) + 1] /\ known[c] # Absent /\ enq[c] <= R(c)
    BY <1>8 DEF Enqueue, HashRead, First, Typed, TryInv, record
  <2>2. g \in Trials /\ g.seq = R(c) + 1
    BY <2>1 DEF Goroutine, Trials, Typed, TypeOK, Content
  <2> HIDE DEF g
  <2>3. /\ \A e \in Cases \ {c} : flight'[e] = flight[e]
        /\ DOMAIN flight'[c] = DOMAIN flight[c] \union {n}
        /\ flight'[c][n] = g
        /\ \A k \in DOMAIN flight[c] : flight'[c][k] = flight[c][k]
    BY <2>1, <2>2, Launching DEF Typed
  <2> HIDE DEF n
  <2>4. R(d)' = R(d) /\ R(d) \in Nat
    BY <2>1, CountKept, CountType
  <2>5. CASE d # c
    <3>1. j \in Rerolls(d) /\ flight'[d][j].seq = flight[d][j].seq /\ enq'[d] = enq[d]
      BY <1>4, <2>1, <2>3, <2>5 DEF Rerolls, Typed, TypeOK
    <3>2. QED
      BY <1>3, <2>4, <3>1
  <2>6. CASE d = c
    <3>1. Rerolls(d) = {}
      <4>1. ASSUME NEW k \in Rerolls(d) PROVE FALSE
        <5>1. R(d) + 1 = enq[d] /\ enq[d] <= R(d)
          BY <1>2, <2>1, <2>6, <4>1
        <5>2. QED
          BY <2>4, <5>1
      <4>2. QED
        BY <4>1
    <3>2. j = n
      <4>1. j \in DOMAIN flight[d] => j \in Rerolls(d)
        BY <1>4, <2>3, <2>6 DEF Rerolls
      <4>2. QED
        BY <1>4, <2>3, <2>6, <3>1, <4>1
    <3>3. flight'[d][j].seq = R(d) + 1 /\ enq'[d] = R(d) + 1
      BY <2>1, <2>2, <2>3, <2>6, <3>2 DEF Typed, TypeOK
    <3>4. QED
      BY <2>4, <3>3
  <2>7. QED
    BY <2>5, <2>6
<1>9. ASSUME NEW c \in Cases, NEW k \in DOMAIN flight[c],
             Goto(c, k, "running") \/ Goto(c, k, "closing"), UNCHANGED <<done, enq>>
      PROVE  flight'[d][j].seq = R(d)' + 1 /\ flight'[d][j].seq = enq'[d]
  <2>1. j \in DOMAIN flight[d] /\ flight'[d][j].seq = flight[d][j].seq
    BY <1>4, <1>9, Going DEF Typed
  <2>2. j \in Rerolls(d)
    BY <1>4, <2>1 DEF Rerolls
  <2>3. QED
    BY <1>3, <1>9, <2>1, <2>2, CountKept
<1>10. ASSUME NEW c \in Cases, NEW k \in DOMAIN flight[c], Ends(c, k)
       PROVE  \E i \in Rerolls(d) : /\ flight'[d][j].seq = flight[d][i].seq
                                    /\ d = c => i # k
  <2>1. /\ \A e \in Cases \ {c} : flight'[e] = flight[e]
        /\ \A i \in DOMAIN flight'[c] :
             /\ Before(i, k) \in DOMAIN flight[c] \ {k}
             /\ flight'[c][i] = flight[c][Before(i, k)]
    BY <1>10, Leaving DEF Typed
  <2>2. CASE d = c
    <3>1. /\ Before(j, k) \in DOMAIN flight[d] \ {k}
          /\ flight'[d][j].seq = flight[d][Before(j, k)].seq
      BY <1>4, <2>1, <2>2
    <3>2. Before(j, k) \in Rerolls(d)
      BY <1>4, <3>1 DEF Rerolls
    <3>3. QED
      BY <3>1, <3>2
  <2>3. CASE d # c
    BY <1>4, <2>1, <2>3 DEF Rerolls
  <2>4. QED
    BY <2>2, <2>3
<1>11. ASSUME NEW c \in Cases, NEW k \in DOMAIN flight[c], Ends(c, k), UNCHANGED <<done, enq>>
       PROVE  flight'[d][j].seq = R(d)' + 1 /\ flight'[d][j].seq = enq'[d]
  BY <1>3, <1>10, <1>11, CountKept
<1>12. ASSUME NEW c \in Cases, NEW k \in DOMAIN flight[c], AppendRow(c, k)
       PROVE  flight'[d][j].seq = R(d)' + 1 /\ flight'[d][j].seq = enq'[d]
  <2>1. Ends(c, k) /\ enq' = enq
    BY <1>12 DEF AppendRow, pass
  <2>2. PICK i \in Rerolls(d) : flight'[d][j].seq = flight[d][i].seq /\ (d = c => i # k)
    BY <1>10, <2>1
  <2>3. d = c => flight[c][k].seq = 0
    <3>1. SUFFICES ASSUME d = c, flight[c][k].seq # 0 PROVE FALSE
      OBVIOUS
    <3>2. k \in Rerolls(d)
      BY <3>1 DEF Rerolls
    <3>3. flight[d][i].seq = flight[d][k].seq => i = k
      BY <2>2, <3>2 DEF NumberInv, FlightNumbers
    <3>4. QED
      BY <1>2, <2>2, <3>1, <3>2, <3>3
  <2>4. d # c => c \notin Covers[d]
    BY <1>1 DEF Alone
  <2>5. R(d)' = R(d)
    BY <1>12, <2>3, <2>4, DoneCount DEF Typed
  <2>6. QED
    BY <1>3, <2>1, <2>2, <2>5
<1>13. QED
  BY <1>5, <1>6, <1>7, <1>8, <1>9, <1>11, <1>12, Kinds

----------------------------------------------------------------------------
(* The numbers of rerolls, the tries and the rows on file keep to TopupInv *)
(* over any number of edits, lives, and rows that are lost or torn.        *)
THEOREM TopupCorrect == Spec => []TopupInv
<1>1. Init => TopupInv
  <2>1. SUFFICES ASSUME Init PROVE TopupInv
    OBVIOUS
  <2>2. Typed
    BY <2>1, InitTyped
  <2>3. /\ \A c \in Cases : DOMAIN flight[c] = {} /\ known[c] = Absent
        /\ \A c \in Cases : tried[c] = 0 /\ enq[c] = 0
        /\ \A c \in Cases, s \in Seqs : rows[c][s] = 0
        /\ left = {} /\ main = "idle" /\ Tries \in Nat /\ phase = "down" /\ ~torn
    BY <2>1, SeqsFinite DEF Init, Idle, Zero
  <2>4. \A c \in Cases : Rerolls(c) = {}
    BY <2>3 DEF Rerolls
  <2>5. RolloutsOfAdmitted /\ AdmittedHash
    BY <2>3 DEF RolloutsOfAdmitted, AdmittedHash
  <2>6. TryInv
    <3>1. main # "enqueue"
      BY <2>3
    <3>2. QED
      BY <2>3, <3>1 DEF TryInv
  <2>7. NumberInv
    BY <2>4 DEF NumberInv, FlightNumbers
  <2>8. AloneInv
    BY <2>4 DEF AloneInv
  <2>9. RowInv
    BY <2>3 DEF RowInv
  <2>10. QED
    BY <2>2, <2>5, <2>6, <2>7, <2>8, <2>9 DEF TopupInv
<1>2. TopupInv /\ [Next]_vars => TopupInv'
  BY TypedStep, JudgedHash, RolloutStep, TryStep, RowStep, NumberStep, AloneStep DEF TopupInv
<1>3. QED
  BY <1>1, <1>2, PTL DEF Spec

(* Every variable has the values the code can give it.                     *)
THEOREM Typing == Spec => []TypeOK
<1>1. TopupInv => TypeOK
  BY DEF TopupInv, Typed
<1>2. QED
  BY <1>1, TopupCorrect, PTL

(* No rollout is of a case that no gate has admitted with those bytes: the *)
(* guards of topup (Admitted, and the hash that it reads again).           *)
THEOREM Rolling == Spec => []RolloutsOfAdmitted
<1>1. TopupInv => RolloutsOfAdmitted
  BY DEF TopupInv
<1>2. QED
  BY <1>1, TopupCorrect, PTL

(* A process tries at most Extra rerolls of a case past the target: enq in *)
(* topup, whatever the prefixes count.                                     *)
THEOREM Bounding == Spec => []TriesAreBounded
<1>1. TopupInv => TriesAreBounded
  BY DEF TopupInv, TryInv, TriesAreBounded
<1>2. QED
  BY <1>1, TopupCorrect, PTL

(* A process records a reroll once, and over restarts, lost rows and for   *)
(* any names it is recorded once as long as results.jsonl can be read:     *)
(* IsDone is tested after the slot is taken, and no number is given twice. *)
(* After a tear, which Load answers with an empty record, it is recorded   *)
(* at most once in each life.                                              *)
THEOREM Recording == Spec => []OneRowPerReroll
<1>1. TopupInv => OneRowPerReroll
  BY DEF TopupInv, RowInv, OneRowPerReroll
<1>2. QED
  BY <1>1, TopupCorrect, PTL

(* A case whose name begins no other name has one reroll under way at most *)
(* (enq > RecordedTopups in topup).                                        *)
THEOREM Alternating == Spec => []OneRerollAtATime
<1>1. TopupInv => OneRerollAtATime
  <2>1. SUFFICES ASSUME TopupInv, NEW c \in Cases, Alone(c)
                 PROVE  Cardinality(Rerolls(c)) <= 1
    BY DEF OneRerollAtATime
  <2>2. \A k, l \in Rerolls(c) : k = l
    <3>1. \A k \in Rerolls(c) : flight[c][k].seq = enq[c]
      BY <2>1 DEF TopupInv, AloneInv
    <3>2. \A k, l \in Rerolls(c) : flight[c][l].seq = flight[c][k].seq => l = k
      BY <2>1 DEF TopupInv, NumberInv, FlightNumbers
    <3>3. QED
      BY <3>1, <3>2
  <2>3. CASE Rerolls(c) = {}
    BY <2>3, FS_EmptySet
  <2>4. ASSUME NEW k \in Rerolls(c)
        PROVE  Cardinality(Rerolls(c)) <= 1
    <3>1. Rerolls(c) = {k}
      BY <2>2, <2>4
    <3>2. QED
      BY <3>1, FS_Singleton
  <2>5. QED
    BY <2>3, <2>4
<1>2. QED
  BY <1>1, TopupCorrect, PTL
=============================================================================
