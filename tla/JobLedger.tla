------------------------------ MODULE JobLedger ------------------------------
(***************************************************************************)
(* What a caller of the job queue may rely on, without tables, leases or   *)
(* instances: a job waits, is taken by one hand, and is given back or      *)
(* finished by that hand; a finished job stays finished.  The exception is *)
(* a disowned job: one taken back from a hand that may still be working,   *)
(* or finished by a hand that does not know it.  From then on an earlier   *)
(* hand may overwrite its status.                                          *)
(***************************************************************************)
CONSTANT JobId

VARIABLES
  status,     \* status[j]: where job j stands
  disowned    \* jobs that a hand may answer for although it does not hold them

ledgerVars == <<status, disowned>>

Status == {"none", "waiting", "taken", "over"}

LedgerTypeOK ==
  /\ status \in [JobId -> Status]
  /\ disowned \in SUBSET JobId

LedgerInit ==
  /\ status = [j \in JobId |-> "none"]
  /\ disowned = {}

Move(S, from, to) ==
  /\ \A j \in S : status[j] = from
  /\ status' = [j \in JobId |-> IF j \in S THEN to ELSE status[j]]

Enqueue(j)  == Move({j}, "none", "waiting") /\ UNCHANGED disowned
Take(S)     == Move(S, "waiting", "taken") /\ UNCHANGED disowned
GiveBack(j) == Move({j}, "taken", "waiting") /\ UNCHANGED disowned
Finish(j)   == Move({j}, "taken", "over") /\ UNCHANGED disowned
Reclaim(S)  == Move(S, "taken", "waiting") /\ disowned' = disowned \cup S

\* The hand is done with j and does not know that the ledger took note.
FinishUnheard(j) == Move({j}, "taken", "over") /\ disowned' = disowned \cup {j}

\* An earlier hand of a disowned job answers after all.
LateAnswer(j, to) ==
  /\ j \in disowned
  /\ status[j] # "none"
  /\ status' = [status EXCEPT ![j] = to]
  /\ UNCHANGED disowned

LedgerNext ==
  \/ \E j \in JobId : Enqueue(j) \/ GiveBack(j) \/ Finish(j) \/ FinishUnheard(j)
  \/ \E S \in SUBSET JobId : Take(S) \/ Reclaim(S)
  \/ \E j \in JobId, to \in {"waiting", "over"} : LateAnswer(j, to)

LedgerSpec == LedgerInit /\ [][LedgerNext]_ledgerVars

=============================================================================
