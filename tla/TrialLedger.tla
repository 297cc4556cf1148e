---------------------------- MODULE TrialLedger ----------------------------
(***************************************************************************)
(* What a run promises about its record, and nothing about how it gets     *)
(* there: every trial of the matrix has at most one row in results.jsonl,  *)
(* a row is written once and never changed or lost, and nothing of a trial *)
(* is published after its row is written.  TrialRun (the worker pool with  *)
(* its interrupts, crashes and resumes) is shown to implement it.          *)
(***************************************************************************)
EXTENDS Naturals

CONSTANTS
  Trials,    \* the trial ids of the matrix
  Row,       \* the rows that can be recorded
  NoRow      \* no row yet

VARIABLES
  ledger,    \* trial id -> its row, or NoRow
  uploads    \* trial id -> how many times its artifacts left the machine

ledgerVars == <<ledger, uploads>>

LedgerInit ==
  /\ ledger = [t \in Trials |-> NoRow]
  /\ uploads = [t \in Trials |-> 0]

(* The artifacts of a trial that has no row yet are published.             *)
Publish(t) ==
  /\ ledger[t] = NoRow
  /\ uploads' = [uploads EXCEPT ![t] = @ + 1]
  /\ UNCHANGED ledger

(* A trial gets its one row.                                               *)
Enter(t) ==
  /\ ledger[t] = NoRow
  /\ \E r \in Row : ledger' = [ledger EXCEPT ![t] = r]
  /\ UNCHANGED uploads

LedgerNext == \E t \in Trials : Publish(t) \/ Enter(t)

LedgerSpec == LedgerInit /\ [][LedgerNext]_ledgerVars

============================================================================
