---------------------------- MODULE JobQueueProofs ----------------------------
(***************************************************************************)
(* What holds of the job queue for any number of instances, jobs and keys, *)
(* any retry limit and any number of failures.                             *)
(***************************************************************************)
EXTENDS JobQueue, FiniteSetTheorems, TLAPS

USE QueueAssumption DEF Pending, Waiting, Terminal

\* Initially there is no row and no execution.
LEMMA InitEstablishes == Init => IInv
  BY DEF Init, IInv, TypeOK, PendingKeysUnique, RunsNamed, CertainRowExact, RunsOf

\* Inserting a row: its key was free, and it has no execution yet.
LEMMA SendPreserves ==
  ASSUME IInv, NEW j \in JobId, NEW q \in Request, Send(j, q)
  PROVE  IInv'
<1> USE DEF IInv, Send, Insert
<1>1. TypeOK'
  BY DEF TypeOK
<1>2. PendingKeysUnique'
  BY DEF TypeOK, PendingKeysUnique, KeyFree
<1>3. RunsNamed'
  BY DEF TypeOK, RunsNamed, Run
<1>4. CertainRowExact'
  BY DEF TypeOK, CertainRowExact, RunsNamed, RunMatchesRow, RunsOf, Run
<1> QED BY <1>1, <1>2, <1>3, <1>4

\* The startup sweep: a row it touches is in doubt from then on, and moving it
\* from active to retry leaves it pending.
LEMMA StartPreserves ==
  ASSUME IInv, NEW p \in Instance, Start(p)
  PROVE  IInv'
<1> USE DEF IInv, Start, Stale
<1>1. TypeOK'
  BY DEF TypeOK
<1>2. PendingKeysUnique'
  BY DEF TypeOK, PendingKeysUnique
<1>3. RunsNamed'
  BY DEF TypeOK, RunsNamed, Run
<1>4. CertainRowExact'
  BY DEF TypeOK, CertainRowExact, RunMatchesRow, RunsOf, Run
<1> QED BY <1>1, <1>2, <1>3, <1>4

\* Steps that leave every row alone and only take executions away or change
\* the life of an instance.
LEMMA RowsAndFewerRunsPreserve ==
  ASSUME IInv,
         UNCHANGED <<row, claims, doubts>>,
         runs' \subseteq runs,
         instance' \in [Instance -> {"down", "up", "draining"}],
         mishaps' \in Nat
  PROVE  IInv'
<1> USE DEF IInv, row
<1>1. TypeOK'
  BY DEF TypeOK
<1>2. PendingKeysUnique'
  BY DEF PendingKeysUnique
<1>3. RunsNamed'
  BY DEF RunsNamed
<1>4. CertainRowExact'
  BY DEF CertainRowExact, RunMatchesRow, RunsOf
<1> QED BY <1>1, <1>2, <1>3, <1>4

\* A process that stops, exits, crashes, or is ended by the refused retry, and
\* an execution whose last write is lost.
LEMMA MishapsPreserve ==
  ASSUME IInv,
         \/ \E p \in Instance : Stop(p) \/ Exit(p) \/ Crash(p)
         \/ \E r \in runs : WriteRetryRefused(r) \/ WriteLost(r)
  PROVE  IInv'
<1>1. ASSUME NEW p \in Instance, Die(p) PROVE IInv'
  BY <1>1, RowsAndFewerRunsPreserve DEF IInv, TypeOK, Die
<1>2. CASE \E p \in Instance : Stop(p)
  BY <1>2, RowsAndFewerRunsPreserve DEF IInv, TypeOK, Stop
<1>3. CASE \E p \in Instance : Exit(p) \/ Crash(p)
  BY <1>1, <1>3 DEF Exit, Crash
<1>4. CASE \E r \in runs : WriteRetryRefused(r)
  BY <1>1, <1>4 DEF WriteRetryRefused, IInv, TypeOK, Run
<1>5. CASE \E r \in runs : WriteLost(r)
  BY <1>5, RowsAndFewerRunsPreserve DEF IInv, TypeOK, WriteLost
<1> QED BY <1>2, <1>3, <1>4, <1>5

\* Claiming marks the rows active; a waiting row never in doubt has no
\* execution, because its only one would need the row active.
LEMMA MarkClaimedPreserves ==
  ASSUME IInv, NEW S \in SUBSET Claimable, MarkClaimed(S)
  PROVE  /\ state' \in [JobId -> Pending \cup Terminal \cup {"absent"}]
         /\ leaseOver' \in [JobId -> BOOLEAN]
         /\ claims' \in [JobId -> Nat]
         /\ \A j \in JobId : state'[j] = "absent" <=> request'[j] = NoRequest
         /\ PendingKeysUnique'
         /\ \A j \in S : doubts[j] = 0 => RunsOf(j) = {}
<1> USE DEF IInv, MarkClaimed, Claimable
<1>1. PendingKeysUnique'
  BY DEF TypeOK, PendingKeysUnique
<1>2. \A j \in S : doubts[j] = 0 => RunsOf(j) = {}
  BY DEF TypeOK, CertainRowExact, RunMatchesRow, RunsOf
<1>3. /\ state' \in [JobId -> Pending \cup Terminal \cup {"absent"}]
      /\ leaseOver' \in [JobId -> BOOLEAN]
  BY DEF TypeOK
<1>4. claims' \in [JobId -> Nat]
  BY DEF TypeOK
<1>5. \A j \in JobId : state'[j] = "absent" <=> request'[j] = NoRequest
  BY DEF TypeOK
<1> QED BY <1>1, <1>2, <1>3, <1>4, <1>5

\* A claim whose reply is lost keeps the invariant.
LEMMA ClaimReplyLostPreserves ==
  ASSUME IInv, NEW p \in Instance, NEW S \in SUBSET Claimable, ClaimReplyLost(p, S)
  PROVE  IInv'
<1> USE DEF IInv, ClaimReplyLost
<1>1. TypeOK' /\ PendingKeysUnique'
  <2>1. mishaps' \in Nat
    BY DEF TypeOK
  <2> QED BY <2>1, MarkClaimedPreserves DEF TypeOK, MarkClaimed
<1>2. RunsNamed'
  BY DEF TypeOK, RunsNamed, Run, MarkClaimed, Claimable
<1>3. CertainRowExact'
  BY MarkClaimedPreserves
     DEF TypeOK, CertainRowExact, RunMatchesRow, RunsOf, Run, MarkClaimed, Claimable
<1> QED BY <1>1, <1>2, <1>3

\* So does a claim.
LEMMA ClaimPreserves ==
  ASSUME IInv, NEW p \in Instance, NEW S \in SUBSET Claimable, Claim(p, S)
  PROVE  IInv'
<1> USE DEF IInv, Claim
<1> DEFINE New == {NewRun(p, j) : j \in S}
<1>1. New \subseteq Run
  BY DEF TypeOK, Claimable, NewRun, Run, Phase
<1>2. ASSUME NEW r \in New
      PROVE  /\ r.job \in S
             /\ r.nth = claims'[r.job]
             /\ r.nth = claims[r.job] + 1
             /\ r = NewRun(p, r.job)
             /\ r.retrycount = retrycount[r.job]
  BY DEF NewRun, MarkClaimed, Claimable
<1>3. TypeOK' /\ PendingKeysUnique'
  BY <1>1, MarkClaimedPreserves DEF TypeOK, MarkClaimed
<1>4. ASSUME NEW r \in runs
      PROVE  /\ r.nth <= claims[r.job]
             /\ claims[r.job] <= claims'[r.job]
             /\ r.job \in S => claims'[r.job] = claims[r.job] + 1
             /\ r.nth \in Nat /\ claims[r.job] \in Nat /\ r.job \in JobId
  BY DEF TypeOK, RunsNamed, Run, MarkClaimed
<1>5. RunsNamed'
  <2>1. ASSUME NEW r \in runs'
        PROVE  r.nth <= claims'[r.job] /\ state'[r.job] # "absent"
    <3>1. CASE r \in runs
      BY <3>1, <1>4 DEF TypeOK, RunsNamed, MarkClaimed
    <3>2. CASE r \in New
      BY <3>2, <1>1, <1>2, <1>3 DEF TypeOK, MarkClaimed, Claimable, Run
    <3> QED BY <3>1, <3>2
  <2>2. ASSUME NEW r1 \in runs', NEW r2 \in runs', r1.job = r2.job, r1.nth = r2.nth
        PROVE  r1 = r2
    <3>1. CASE r1 \in runs /\ r2 \in runs
      BY <2>2, <3>1 DEF RunsNamed
    <3>2. CASE r1 \in runs /\ r2 \in New
      BY <2>2, <3>2, <1>2, <1>4
    <3>3. CASE r1 \in New /\ r2 \in runs
      BY <2>2, <3>3, <1>2, <1>4
    <3>4. CASE r1 \in New /\ r2 \in New
      BY <2>2, <3>4, <1>2
    <3> QED BY <3>1, <3>2, <3>3, <3>4
  <2> QED BY <2>1, <2>2 DEF RunsNamed
<1>6. CertainRowExact'
  <2> SUFFICES ASSUME NEW j \in JobId, doubts'[j] = 0
               PROVE  /\ retrycount'[j] <= RetryLimit
                      /\ claims'[j] <= retrycount'[j]
                           + (IF state'[j] \in Waiting \cup {"absent"} THEN 0 ELSE 1)
                      /\ \A r \in RunsOf(j)' : RunMatchesRow(r)'
    BY DEF CertainRowExact
  <2>1. doubts[j] = 0
    BY DEF MarkClaimed
  <2>2. CASE j \in S
    <3>1. RunsOf(j) = {}
      BY <2>1, <2>2, MarkClaimedPreserves
    <3>2. ASSUME NEW r \in RunsOf(j)' PROVE RunMatchesRow(r)'
      BY <2>2, <3>1, <1>2 DEF TypeOK, RunsOf, RunMatchesRow, MarkClaimed
    <3> QED BY <2>1, <2>2, <3>2 DEF TypeOK, CertainRowExact, MarkClaimed, Claimable
  <2>3. CASE j \notin S
    <3>1. ASSUME NEW r \in RunsOf(j)' PROVE RunMatchesRow(r)'
      BY <2>1, <2>3, <1>2 DEF TypeOK, CertainRowExact, RunsOf, RunMatchesRow, MarkClaimed
    <3> QED BY <2>1, <2>3, <3>1 DEF TypeOK, CertainRowExact, MarkClaimed
  <2> QED BY <2>2, <2>3
<1> QED BY <1>3, <1>5, <1>6

\* An execution that enters a new phase keeps its job, its number and its
\* snapshot, so executions stay told apart.
LEMMA RephasedRuns ==
  ASSUME IInv, NEW r \in runs, NEW ph \in Phase,
         runs' = Rephased(r, ph),
         UNCHANGED claims,
         \A j \in JobId : state'[j] = "absent" => state[j] = "absent"
  PROVE  /\ runs' \in SUBSET Run
         /\ RunsNamed'
         /\ \A x \in runs' : \E y \in runs :
              y.job = x.job /\ y.nth = x.nth /\ y.retrycount = x.retrycount
<1> USE DEF IInv, Rephased
<1> DEFINE moved == [r EXCEPT !.phase = ph]
<1> DEFINE before(x) == IF x = moved THEN r ELSE x
<1>1. moved \in Run /\ moved.job = r.job /\ moved.nth = r.nth
        /\ moved.retrycount = r.retrycount
  BY DEF TypeOK, Run
<1>2. ASSUME NEW x \in runs'
      PROVE  /\ before(x) \in runs
             /\ before(x).job = x.job /\ before(x).nth = x.nth
             /\ before(x).retrycount = x.retrycount
  BY <1>1
<1>3. runs' \in SUBSET Run
  BY <1>1 DEF TypeOK
<1>4. RunsNamed'
  <2>1. ASSUME NEW x \in runs'
        PROVE  x.nth <= claims'[x.job] /\ state'[x.job] # "absent"
    BY <1>2, <1>3 DEF RunsNamed, Run
  <2>2. ASSUME NEW x \in runs', NEW y \in runs', x.job = y.job, x.nth = y.nth
        PROVE  x = y
    <3>1. before(x) = before(y)
      BY <1>2, <2>2 DEF RunsNamed
    <3>2. x # moved => x # r /\ before(x) = x
      OBVIOUS
    <3>3. y # moved => y # r /\ before(y) = y
      OBVIOUS
    <3> QED BY <3>1, <3>2, <3>3
  <2> QED BY <2>1, <2>2 DEF RunsNamed
<1> QED BY <1>2, <1>3, <1>4

\* A handler that settles changes the phase of its execution only.
LEMMA MoveToPreserves ==
  ASSUME IInv, NEW r \in runs, NEW ph \in Phase, MoveTo(r, ph)
  PROVE  IInv'
<1> USE DEF IInv, MoveTo, row
<1>1. TypeOK' /\ PendingKeysUnique' /\ RunsNamed'
  BY RephasedRuns DEF TypeOK, PendingKeysUnique
<1>2. CertainRowExact'
  <2>1. ASSUME NEW x \in runs', doubts[x.job] = 0 PROVE RunMatchesRow(x)'
    <3>1. PICK y \in runs : y.job = x.job /\ y.nth = x.nth /\ y.retrycount = x.retrycount
      BY RephasedRuns
    <3>2. RunMatchesRow(y)
      BY <2>1, <3>1 DEF TypeOK, Run, CertainRowExact, RunsOf
    <3> QED BY <3>1, <3>2 DEF RunMatchesRow
  <2> QED BY <2>1 DEF CertainRowExact, RunsOf
<1> QED BY <1>1, <1>2

\* A completion whose reply is lost puts its row in doubt; no row becomes
\* pending, and the executions of the other rows are as they were.
LEMMA CompletedReplyLostPreserves ==
  ASSUME IInv, NEW r \in runs, CompletedReplyLost(r)
  PROVE  IInv'
<1> USE DEF IInv, CompletedReplyLost
<1> "threw" \in Phase
  BY DEF Phase
<1>1. runs' \in SUBSET Run /\ RunsNamed'
  BY RephasedRuns DEF TypeOK, Run
<1>2. TypeOK'
  BY <1>1 DEF TypeOK, Run, RunsNamed
<1>3. PendingKeysUnique'
  BY DEF TypeOK, PendingKeysUnique, Run
<1>4. CertainRowExact'
  <2>1. ASSUME NEW x \in runs', doubts'[x.job] = 0 PROVE RunMatchesRow(x)'
    <3>1. x.job # r.job /\ x \in runs /\ doubts[x.job] = 0
      BY <1>1, <2>1 DEF TypeOK, Run, Rephased
    <3>2. RunMatchesRow(x)
      BY <3>1 DEF TypeOK, Run, CertainRowExact, RunsOf
    <3> QED BY <3>1, <3>2 DEF RunMatchesRow, TypeOK, Run
  <2>2. ASSUME NEW j \in JobId, doubts'[j] = 0
        PROVE  j # r.job /\ doubts[j] = 0 /\ state'[j] = state[j]
    BY <2>2 DEF TypeOK, Run
  <2> QED BY <2>1, <2>2 DEF CertainRowExact, RunsOf
<1> QED BY <1>1, <1>2, <1>3, <1>4

\* The only execution of a row never in doubt settles it.
LEMMA SettlingCertain ==
  ASSUME IInv, NEW r \in runs, doubts[r.job] = 0
  PROVE  /\ RunsOf(r.job) = {r}
         /\ RunMatchesRow(r)
  BY DEF IInv, TypeOK, CertainRowExact, RunMatchesRow, RunsNamed, RunsOf, Run

\* So does the UPDATE that ends a job.
LEMMA WriteTerminalPreserves ==
  ASSUME IInv, NEW r \in runs, WriteCompleted(r) \/ WriteFailed(r)
  PROVE  IInv'
<1> PICK s \in Terminal : Settle(r, s) /\ UNCHANGED <<retrycount, delayed>>
  BY DEF WriteCompleted, WriteFailed
<1> USE DEF IInv, Settle
<1>1. TypeOK'
  BY DEF TypeOK, Run, RunsNamed
<1>2. PendingKeysUnique'
  BY DEF TypeOK, PendingKeysUnique, Run
<1>3. RunsNamed'
  BY DEF TypeOK, RunsNamed, Run
<1>4. CertainRowExact'
  BY SettlingCertain DEF TypeOK, CertainRowExact, RunMatchesRow, RunsOf, Run
<1> QED BY <1>1, <1>2, <1>3, <1>4

\* So does the UPDATE that lets it be tried again.
LEMMA WriteRetryPreserves ==
  ASSUME IInv, NEW r \in runs, WriteRetry(r)
  PROVE  IInv'
<1> USE DEF IInv, WriteRetry, Settle, MayRetry
<1>1. TypeOK'
  BY DEF TypeOK, Run, RunsNamed
<1>2. PendingKeysUnique'
  BY DEF TypeOK, PendingKeysUnique, KeyFree, Run
<1>3. RunsNamed'
  BY DEF TypeOK, RunsNamed, Run
<1>4. CertainRowExact'
  BY SettlingCertain DEF TypeOK, CertainRowExact, RunMatchesRow, RunsOf, Run
<1> QED BY <1>1, <1>2, <1>3, <1>4

\* So does the clock.
LEMMA ClockPreserves ==
  ASSUME IInv, NEW j \in JobId, LeaseRunsOut(j) \/ DelayElapses(j) \/ Expires(j)
  PROVE  IInv'
<1> USE DEF IInv, LeaseRunsOut, DelayElapses, Expires
<1>1. TypeOK'
  BY DEF TypeOK
<1>2. PendingKeysUnique' /\ RunsNamed' /\ CertainRowExact'
  BY DEF PendingKeysUnique, RunsNamed, CertainRowExact, RunMatchesRow, RunsOf
<1> QED BY <1>1, <1>2

\* Every step of the queue keeps the inductive invariant.
LEMMA NextPreserves == IInv /\ [Next]_vars => IInv'
<1> SUFFICES ASSUME IInv, [Next]_vars PROVE IInv'
  OBVIOUS
<1>1. CASE \E j \in JobId, q \in Request : Send(j, q)
  BY <1>1, SendPreserves
<1>2. CASE \E p \in Instance : Start(p)
  BY <1>2, StartPreserves
<1>3. CASE \/ \E p \in Instance : Stop(p) \/ Exit(p) \/ Crash(p)
           \/ \E r \in runs : WriteRetryRefused(r) \/ WriteLost(r)
  BY <1>3, MishapsPreserve
<1>4. CASE \E p \in Instance, S \in SUBSET Claimable : Claim(p, S) \/ ClaimReplyLost(p, S)
  BY <1>4, ClaimPreserves, ClaimReplyLostPreserves
<1>5. CASE \E r \in runs : Execute(r)
  <2> PICK r \in runs : Execute(r)
    BY <1>5
  <2>1. CASE HandlerResolves(r) \/ HandlerThrows(r)
    BY <2>1, MoveToPreserves DEF HandlerResolves, HandlerThrows, Phase
  <2>2. CASE WriteCompleted(r) \/ WriteFailed(r)
    BY <2>2, WriteTerminalPreserves
  <2>3. CASE WriteRetry(r)
    BY <2>3, WriteRetryPreserves
  <2> QED BY <2>1, <2>2, <2>3 DEF Execute
<1>6. CASE \E j \in JobId : LeaseRunsOut(j) \/ DelayElapses(j) \/ Expires(j)
  BY <1>6, ClockPreserves
<1>8. CASE \E r \in runs : CompletedReplyLost(r)
  BY <1>8, CompletedReplyLostPreserves
<1>7. CASE UNCHANGED vars
  BY <1>7 DEF vars, row, IInv, TypeOK, PendingKeysUnique, RunsNamed, CertainRowExact,
              RunMatchesRow, RunsOf
<1> QED BY <1>1, <1>2, <1>3, <1>4, <1>5, <1>6, <1>7, <1>8 DEF Next

\* The inductive invariant holds of every behaviour of the queue.
THEOREM Invariance == Spec => []IInv
  BY InitEstablishes, NextPreserves, PTL DEF Spec

\* Every column, execution and counter keeps its type.
THEOREM TypeCorrect == Spec => []TypeOK
  BY Invariance, PTL DEF IInv

\* At most one pending row per singleton key, whatever the late answers.
THEOREM SingletonKeys == Spec => []PendingKeysUnique
  BY Invariance, PTL DEF IInv

\* One execution and retrylimit + 1 attempts for a row never in doubt.
THEOREM ExclusiveExecution == Spec => []OneExecutionUntilDoubt
<1>1. IInv => OneExecutionUntilDoubt
  <2> SUFFICES ASSUME IInv, NEW j \in JobId, doubts[j] = 0
               PROVE  /\ \A r1, r2 \in RunsOf(j) : r1 = r2
                      /\ claims[j] <= RetryLimit + 1
    BY DEF OneExecutionUntilDoubt
  <2>1. ASSUME NEW r1 \in RunsOf(j), NEW r2 \in RunsOf(j) PROVE r1 = r2
    BY SettlingCertain DEF RunsOf
  <2>2. claims[j] <= RetryLimit + 1
    BY DEF IInv, TypeOK, CertainRowExact
  <2> QED BY <2>1, <2>2
<1> QED BY <1>1, Invariance, PTL

\* Executions under one singleton key never overlap without a doubt: each of
\* them makes its row active, hence pending, and pending keys are unique.
THEOREM ExclusiveKeys == Spec => []KeyedExecutionsExclusive
<1>1. IInv => KeyedExecutionsExclusive
  <2> SUFFICES ASSUME IInv, NEW r1 \in runs, NEW r2 \in runs,
                      request[r1.job].key = request[r2.job].key,
                      request[r1.job].key # NoKey,
                      doubts[r1.job] = 0, doubts[r2.job] = 0
               PROVE  r1 = r2
    BY DEF KeyedExecutionsExclusive
  <2>1. r1.job \in JobId /\ r2.job \in JobId
    BY DEF IInv, TypeOK, Run
  <2>2. state[r1.job] = "active" /\ state[r2.job] = "active"
    BY SettlingCertain DEF RunMatchesRow
  <2>3. r1.job = r2.job
    BY <2>1, <2>2 DEF IInv, PendingKeysUnique
  <2> QED BY <2>3, SettlingCertain DEF RunsOf
<1> QED BY <1>1, Invariance, PTL

\* An active row loses its last execution only by a mishap.
THEOREM NoSilentOrphans == Spec => OrphansOnlyByMishap
<1>1. ASSUME IInv, [Next]_vars, NEW j \in JobId, ~Orphan(j), Orphan(j)'
      PROVE  mishaps' > mishaps
  <2> USE DEF Orphan, RunsOf
  <2> mishaps \in Nat
    BY <1>1 DEF IInv, TypeOK
  <2>1. CASE \E i \in JobId, q \in Request : Send(i, q)
    BY <1>1, <2>1 DEF Send, Insert, IInv, TypeOK
  <2>2. CASE \E p \in Instance : Start(p)
    BY <1>1, <2>2 DEF Start, IInv, TypeOK
  <2>3. CASE \E p \in Instance : Stop(p) \/ Exit(p) \/ Crash(p)
    BY <1>1, <2>3 DEF Stop, Exit, Crash, Die
  <2>4. CASE \E p \in Instance, S \in SUBSET Claimable : Claim(p, S)
    <3> PICK p \in Instance, S \in SUBSET Claimable : Claim(p, S)
      BY <2>4
    <3>1. CASE j \in S
      <4>1. NewRun(p, j) \in runs' /\ NewRun(p, j).job = j
        BY <3>1 DEF Claim, NewRun
      <4> QED BY <1>1, <4>1
    <3>2. CASE j \notin S
      BY <1>1, <3>2 DEF Claim, MarkClaimed
    <3> QED BY <3>1, <3>2
  <2>5. CASE \E p \in Instance, S \in SUBSET Claimable : ClaimReplyLost(p, S)
    BY <2>5 DEF ClaimReplyLost
  <2>6. CASE \E r \in runs : CompletedReplyLost(r) \/ WriteRetryRefused(r) \/ WriteLost(r)
    BY <2>6 DEF CompletedReplyLost, WriteRetryRefused, WriteLost, Die
  <2>7. CASE \E r \in runs : Execute(r)
    <3> PICK r \in runs : Execute(r)
      BY <2>7
    <3>1. ASSUME NEW ph \in Phase, MoveTo(r, ph) PROVE FALSE
      <4>1. [r EXCEPT !.phase = ph].job = r.job
        BY <1>1 DEF IInv, TypeOK, Run
      <4> QED BY <1>1, <3>1, <4>1 DEF MoveTo, Rephased, row
    <3>2. ASSUME NEW s \in {"completed", "retry", "failed"}, Settle(r, s) PROVE FALSE
      BY <1>1, <3>2 DEF Settle, IInv, TypeOK, Run
    <3> QED BY <3>1, <3>2 DEF Execute, HandlerResolves, HandlerThrows, WriteCompleted,
                              WriteRetry, WriteFailed, Phase
  <2>8. CASE \E i \in JobId : LeaseRunsOut(i) \/ DelayElapses(i) \/ Expires(i)
    BY <1>1, <2>8 DEF LeaseRunsOut, DelayElapses, Expires
  <2>9. CASE UNCHANGED vars
    BY <1>1, <2>9 DEF vars, row
  <2> QED BY <1>1, <2>1, <2>2, <2>3, <2>4, <2>5, <2>6, <2>7, <2>8, <2>9 DEF Next
<1>2. IInv /\ [Next]_vars =>
        [(\E j \in JobId : ~Orphan(j) /\ Orphan(j)') => mishaps' > mishaps]_vars
  BY <1>1
<1> QED BY <1>2, Invariance, PTL DEF Spec, OrphansOnlyByMishap

-----------------------------------------------------------------------------
(* What doubts cost.                                                        *)

\* Retries that a snapshot of the retry count allows.
Rest(c) == IF c < RetryLimit THEN RetryLimit - c ELSE 0

\* Retries that executions may yet write: counted as sets, for no two
\* executions of a row have one number.
Chances(r) == {r.nth} \X ((r.retrycount + 1)..RetryLimit)
AllChances(A) == UNION {Chances(r) : r \in A}

\* What one doubt may add to the claims of a row.
Round == IF RetryLimit = 0 THEN 1 ELSE RetryLimit

\* A row that waits, or is not there yet, has a claim to come.
Open(s) == s \in {"created", "retry", "absent"}

\* A row in state s with executions A, retry count c, n claims and d doubts is
\* within its budget, whatever its executions may yet write.
Within(A, s, c, n, d) ==
  /\ IsFiniteSet(A) /\ IsFiniteSet(AllChances(A))
  /\ Cardinality(A) + (IF Open(s) THEN 1 ELSE 0) <= d + 1
  /\ n + Cardinality(AllChances(A)) + (IF Open(s) THEN 1 + Rest(c) ELSE 0)
       <= RetryLimit + 1 + d * Round

BudgetInv ==
  IInv /\ \A j \in JobId : Within(RunsOf(j), state[j], retrycount[j], claims[j], doubts[j])

\* Rounds are counted.
LEMMA Rounds ==
  ASSUME NEW d \in Nat
  PROVE  /\ Round \in Nat /\ Round >= 1 /\ Round >= RetryLimit
         /\ d * Round \in Nat /\ (d + 1) * Round = d * Round + Round
<1>1. Round \in Nat /\ Round >= 1 /\ Round >= RetryLimit
  BY DEF Round
<1> HIDE DEF Round
<1> QED BY <1>1

\* An execution may yet write as many retries as its snapshot allows.
LEMMA CountChances ==
  ASSUME NEW r \in Run
  PROVE  /\ IsFiniteSet(Chances(r)) /\ Cardinality(Chances(r)) = Rest(r.retrycount)
         /\ Rest(r.retrycount) \in Nat
<1> DEFINE tries == (r.retrycount + 1)..RetryLimit
<1>1. r.retrycount \in Nat
  BY DEF Run
<1>2. IsFiniteSet(tries) /\ Cardinality(tries) = Rest(r.retrycount) /\ Rest(r.retrycount) \in Nat
  <2> DEFINE low == r.retrycount + 1
  <2>1. low \in Int /\ RetryLimit \in Int
    BY <1>1
  <2>2. Rest(r.retrycount) = IF low > RetryLimit THEN 0 ELSE RetryLimit - low + 1
    BY <1>1 DEF Rest
  <2>3. Rest(r.retrycount) \in Nat
    BY <1>1 DEF Rest
  <2> HIDE DEF low
  <2>4. /\ IsFiniteSet(low..RetryLimit)
        /\ Cardinality(low..RetryLimit) = IF low > RetryLimit THEN 0 ELSE RetryLimit - low + 1
    BY <2>1, FS_Interval
  <2> QED BY <2>2, <2>3, <2>4 DEF low
<1>3. IsFiniteSet({r.nth}) /\ Cardinality({r.nth}) = 1
  BY FS_Singleton
<1> HIDE DEF tries
<1>4. IsFiniteSet({r.nth} \X tries) /\ Cardinality({r.nth} \X tries) = 1 * Cardinality(tries)
  BY <1>2, <1>3, FS_Product
<1> QED BY <1>2, <1>4 DEF Chances, tries

\* Fewer executions, no more retries.
LEMMA WithinFewer ==
  ASSUME NEW A, NEW B \in SUBSET A, NEW s, NEW c \in Nat, NEW n \in Nat, NEW d \in Nat,
         Within(A, s, c, n, d)
  PROVE  Within(B, s, c, n, d)
<1>1. AllChances(B) \in SUBSET AllChances(A)
  BY DEF AllChances
<1>2. /\ IsFiniteSet(B) /\ Cardinality(B) <= Cardinality(A)
      /\ IsFiniteSet(AllChances(B)) /\ Cardinality(AllChances(B)) <= Cardinality(AllChances(A))
  BY <1>1, FS_Subset DEF Within
<1>3. /\ Cardinality(B) \in Nat /\ Cardinality(AllChances(B)) \in Nat
      /\ Cardinality(A) \in Nat /\ Cardinality(AllChances(A)) \in Nat
  BY <1>2, FS_CardinalityType DEF Within
<1>4. Rest(c) \in Nat /\ d * Round \in Nat
  BY Rounds DEF Rest
<1> QED BY <1>2, <1>3, <1>4 DEF Within

\* A row that is over asks for less, whatever it was.
LEMMA WithinOver ==
  ASSUME NEW A, NEW s, NEW t, ~ Open(t), NEW c \in Nat, NEW n \in Nat, NEW d \in Nat,
         Within(A, s, c, n, d)
  PROVE  Within(A, t, c, n, d) /\ Within(A, t, c, n, d + 1)
<1>1. Cardinality(A) \in Nat /\ Cardinality(AllChances(A)) \in Nat
  BY FS_CardinalityType DEF Within
<1>2. /\ Rest(c) \in Nat /\ Round \in Nat /\ d * Round \in Nat
      /\ (d + 1) * Round = d * Round + Round
  BY Rounds DEF Rest
<1> HIDE DEF Round
<1> QED BY <1>1, <1>2 DEF Within

\* A sweep gives a row a claim, and a round of retries.
LEMMA WithinSwept ==
  ASSUME NEW A, NEW c \in Nat, NEW n \in Nat, NEW d \in Nat, Within(A, "active", c, n, d)
  PROVE  Within(A, "retry", c + 1, n, d + 1)
<1>1. Cardinality(A) \in Nat /\ Cardinality(AllChances(A)) \in Nat
  BY FS_CardinalityType DEF Within
<1>2. /\ Round \in Nat /\ d * Round \in Nat /\ (d + 1) * Round = d * Round + Round
      /\ Rest(c + 1) \in Nat /\ 1 + Rest(c + 1) <= Round
  BY Rounds DEF Rest, Round
<1> HIDE DEF Round
<1>3. ~ Open("active") /\ Open("retry")
  BY DEF Open
<1> QED BY <1>1, <1>2, <1>3 DEF Within

\* A claim takes a waiting row, and its execution the retries that are left.
LEMMA WithinTaken ==
  ASSUME NEW A, NEW s, Open(s), NEW r \in Run, NEW n \in Nat, NEW d \in Nat,
         Within(A, s, r.retrycount, n, d)
  PROVE  Within(A \cup {r}, "active", r.retrycount, n + 1, d)
<1> DEFINE B == A \cup {r}
<1>1. IsFiniteSet(B) /\ Cardinality(B) <= Cardinality(A) + 1 /\ Cardinality(A) \in Nat
  <2>1. IsFiniteSet(A) /\ Cardinality(A) \in Nat
    BY FS_CardinalityType DEF Within
  <2>2. /\ IsFiniteSet(A \cup {r})
        /\ Cardinality(A \cup {r}) = IF r \in A THEN Cardinality(A) ELSE Cardinality(A) + 1
    BY <2>1, FS_AddElement
  <2> QED BY <2>1, <2>2
<1>2. AllChances(B) = AllChances(A) \cup Chances(r)
  BY DEF AllChances
<1>3. /\ IsFiniteSet(Chances(r)) /\ Cardinality(Chances(r)) = Rest(r.retrycount)
      /\ Rest(r.retrycount) \in Nat
  BY CountChances
<1>4. /\ IsFiniteSet(AllChances(A)) /\ Cardinality(AllChances(A)) \in Nat
      /\ Cardinality(AllChances(A) \cap Chances(r)) \in Nat
  BY <1>3, FS_CardinalityType, FS_Subset DEF Within
<1>5. /\ IsFiniteSet(AllChances(B)) /\ Cardinality(AllChances(B)) \in Nat
      /\ Cardinality(AllChances(B)) <= Cardinality(AllChances(A)) + Rest(r.retrycount)
  <2> DEFINE old == AllChances(A)
             new == Chances(r)
  <2>1. /\ IsFiniteSet(old \cup new)
        /\ Cardinality(old \cup new)
             = Cardinality(old) + Cardinality(new) - Cardinality(old \cap new)
    BY <1>3, <1>4, FS_Union
  <2>2. Cardinality(old \cup new) \in Nat
    BY <2>1, FS_CardinalityType
  <2>3. /\ AllChances(B) = old \cup new /\ Cardinality(new) = Rest(r.retrycount)
        /\ Cardinality(old) \in Nat /\ Cardinality(old \cap new) \in Nat
        /\ Rest(r.retrycount) \in Nat
    BY <1>2, <1>3, <1>4
  <2> HIDE DEF B, old, new
  <2>4. Cardinality(old \cup new) <= Cardinality(old) + Rest(r.retrycount)
    BY <2>1, <2>3
  <2> QED BY <2>1, <2>2, <2>3, <2>4 DEF old
<1>6. d * Round \in Nat /\ ~ Open("active") /\ Cardinality(B) \in Nat
  BY <1>1, Rounds, FS_CardinalityType DEF Open
<1> HIDE DEF B
<1> QED BY <1>1, <1>3, <1>4, <1>5, <1>6 DEF Within, B

\* An execution that writes a retry is over, and its row has one retry less.
LEMMA WithinRetried ==
  ASSUME NEW A \in SUBSET Run, NEW r \in A, \A x \in A : x.nth = r.nth => x = r,
         r.retrycount < RetryLimit,
         NEW s, NEW c \in Nat, NEW n \in Nat, NEW d \in Nat, Within(A, s, c, n, d)
  PROVE  Within(A \ {r}, "retry", r.retrycount + 1, n, d)
<1> DEFINE B == A \ {r}
           rest == AllChances(B)
<1>1. /\ IsFiniteSet(B) /\ Cardinality(B) = Cardinality(A) - 1
      /\ Cardinality(A) \in Nat /\ Cardinality(B) \in Nat
  BY FS_RemoveElement, FS_CardinalityType DEF Within
<1>2. AllChances(A) = rest \cup Chances(r)
  BY DEF AllChances
<1>3. rest \cap Chances(r) = {}
  BY DEF AllChances, Chances
<1>4. IsFiniteSet(rest) /\ Cardinality(rest) \in Nat /\ IsFiniteSet(AllChances(A))
  BY <1>2, FS_Subset, FS_CardinalityType DEF Within
<1>5. Cardinality(AllChances(A)) = Cardinality(rest) + Rest(r.retrycount)
  <2>1. IsFiniteSet(Chances(r)) /\ Cardinality(Chances(r)) = Rest(r.retrycount)
    BY CountChances
  <2>2. Cardinality(rest \cap Chances(r)) = 0
    BY <1>3, FS_EmptySet
  <2> HIDE DEF rest
  <2>3. Cardinality(rest \cup Chances(r))
          = Cardinality(rest) + Cardinality(Chances(r)) - Cardinality(rest \cap Chances(r))
    BY <1>4, <2>1, FS_Union
  <2>4. Rest(r.retrycount) \in Nat
    BY CountChances
  <2> QED BY <1>2, <1>4, <2>1, <2>2, <2>3, <2>4
<1>6. /\ r.retrycount \in Nat /\ Rest(r.retrycount) \in Nat
      /\ 1 + Rest(r.retrycount + 1) = Rest(r.retrycount)
      /\ Rest(c) \in Nat /\ d * Round \in Nat /\ Open("retry")
  BY Rounds DEF Rest, Run, Open
<1> HIDE DEF B, rest
<1>7. Cardinality(B) + 1 <= d + 1
  BY <1>1 DEF Within
<1>8. n + Cardinality(rest) + (1 + Rest(r.retrycount + 1)) <= RetryLimit + 1 + d * Round
  BY <1>4, <1>5, <1>6 DEF Within
<1> QED BY <1>1, <1>4, <1>6, <1>7, <1>8 DEF Within, B, rest

\* The phase of an execution costs nothing.
LEMMA WithinRephased ==
  ASSUME NEW A, NEW r \in A, NEW q, q.nth = r.nth, q.retrycount = r.retrycount,
         NEW s, NEW c \in Nat, NEW n \in Nat, NEW d \in Nat, Within(A, s, c, n, d)
  PROVE  Within((A \ {r}) \cup {q}, s, c, n, d)
<1> DEFINE B == A \ {r}
           C == B \cup {q}
<1>1. IsFiniteSet(B) /\ Cardinality(B) = Cardinality(A) - 1 /\ Cardinality(A) \in Nat
  BY FS_RemoveElement, FS_CardinalityType DEF Within
<1>2. IsFiniteSet(C) /\ Cardinality(C) <= Cardinality(A) /\ Cardinality(C) \in Nat
  <2> HIDE DEF B
  <2>1. /\ IsFiniteSet(B \cup {q}) /\ Cardinality(B) \in Nat
        /\ Cardinality(B \cup {q}) = IF q \in B THEN Cardinality(B) ELSE Cardinality(B) + 1
    BY <1>1, FS_AddElement, FS_CardinalityType
  <2> QED BY <1>1, <2>1
<1>3. AllChances(C) = AllChances(A)
  <2>1. Chances(q) = Chances(r)
    BY DEF Chances
  <2> QED BY <2>1 DEF AllChances
<1> HIDE DEF B, C
<1> QED BY <1>1, <1>2, <1>3 DEF Within, B, C

\* Initially no row has been claimed.
LEMMA BudgetBegins ==
  ASSUME Init
  PROVE  BudgetInv
<1>1. IInv
  BY InitEstablishes
<1>2. ASSUME NEW j \in JobId
      PROVE  Within(RunsOf(j), state[j], retrycount[j], claims[j], doubts[j])
  <2>1. RunsOf(j) = {} /\ AllChances({}) = {}
    BY DEF Init, RunsOf, AllChances
  <2>2. IsFiniteSet({}) /\ Cardinality({}) = 0
    BY FS_EmptySet
  <2>3. /\ state[j] = "absent" /\ retrycount[j] = 0 /\ claims[j] = 0 /\ doubts[j] = 0
        /\ Open("absent") /\ Rest(0) = RetryLimit
    BY DEF Init, Open, Rest
  <2>4. Round \in Nat /\ 0 * Round = 0
    BY DEF Round
  <2> QED BY <2>1, <2>2, <2>3, <2>4 DEF Within
<1> QED BY <1>1, <1>2 DEF BudgetInv

\* Of a row: its columns, its counts and its executions.
LEMMA BudgetOf ==
  ASSUME BudgetInv, NEW j \in JobId
  PROVE  /\ IInv /\ Within(RunsOf(j), state[j], retrycount[j], claims[j], doubts[j])
         /\ retrycount[j] \in Nat /\ claims[j] \in Nat /\ doubts[j] \in Nat
         /\ RunsOf(j) \subseteq Run
         /\ \A x, y \in RunsOf(j) : x.nth = y.nth => x = y
BY DEF BudgetInv, IInv, TypeOK, RunsNamed, RunsOf

\* Steps that leave rows, claims and doubts alone, and add no execution.
LEMMA BudgetQuiet ==
  ASSUME BudgetInv, IInv', runs' \subseteq runs, UNCHANGED <<retrycount, claims, doubts>>,
         \A j \in JobId : state'[j] = state[j] \/ (state[j] = "absent" /\ state'[j] = "created")
  PROVE  BudgetInv'
<1> SUFFICES ASSUME NEW j \in JobId
             PROVE  Within(RunsOf(j)', state'[j], retrycount[j], claims[j], doubts[j])
  BY DEF BudgetInv
<1>1. RunsOf(j)' \in SUBSET RunsOf(j)
  BY DEF RunsOf
<1>2. Within(RunsOf(j)', state[j], retrycount[j], claims[j], doubts[j])
  BY <1>1, BudgetOf, WithinFewer
<1>3. Open("absent") /\ Open("created")
  BY DEF Open
<1> QED BY <1>2, <1>3 DEF Within

\* A sweep.
LEMMA BudgetSwept ==
  ASSUME BudgetInv, IInv', NEW p \in Instance, Start(p)
  PROVE  BudgetInv'
<1> SUFFICES ASSUME NEW j \in JobId
             PROVE  Within(RunsOf(j), state'[j], retrycount'[j], claims[j], doubts'[j])
  BY DEF BudgetInv, Start, RunsOf
<1>1. CASE j \in Stale
  <2>1. state[j] = "active" /\ state'[j] = "retry"
        /\ retrycount'[j] = retrycount[j] + 1 /\ doubts'[j] = doubts[j] + 1
    BY <1>1 DEF Start, Stale
  <2> QED BY <2>1, BudgetOf, WithinSwept
<1>2. CASE j \notin Stale
  BY <1>2, BudgetOf DEF Start
<1> QED BY <1>1, <1>2

\* Claims, whether or not anyone hears of them.
LEMMA BudgetClaimed ==
  ASSUME BudgetInv, IInv', NEW p \in Instance, NEW S \in SUBSET Claimable,
         Claim(p, S) \/ ClaimReplyLost(p, S)
  PROVE  BudgetInv'
<1>1. MarkClaimed(S) /\ runs' \subseteq runs \cup {NewRun(p, j) : j \in S}
  BY DEF Claim, ClaimReplyLost
<1> SUFFICES ASSUME NEW j \in JobId
             PROVE  Within(RunsOf(j)', state'[j], retrycount[j], claims'[j], doubts[j])
  BY <1>1 DEF BudgetInv, MarkClaimed
<1>2. \A i \in S : NewRun(p, i).job = i
  BY DEF NewRun
<1>3. CASE j \notin S
  <2>1. RunsOf(j)' \in SUBSET RunsOf(j)
    BY <1>1, <1>2, <1>3 DEF RunsOf
  <2>2. state'[j] = state[j] /\ claims'[j] = claims[j]
    BY <1>1, <1>3 DEF MarkClaimed
  <2> QED BY <2>1, <2>2, BudgetOf, WithinFewer
<1>4. CASE j \in S
  <2> DEFINE r == NewRun(p, j)
  <2>1. RunsOf(j)' \in SUBSET (RunsOf(j) \cup {r})
    BY <1>1, <1>2 DEF RunsOf
  <2>2. state'[j] = "active" /\ claims'[j] = claims[j] + 1 /\ Open(state[j])
    BY <1>1, <1>4 DEF MarkClaimed, Claimable, Open
  <2>3. r \in Run /\ r.retrycount = retrycount[j]
    BY BudgetOf DEF NewRun, Run, Phase
  <2> HIDE DEF r
  <2>4. Within(RunsOf(j) \cup {r}, "active", retrycount[j], claims[j] + 1, doubts[j])
    BY <2>2, <2>3, BudgetOf, WithinTaken
  <2> QED BY <2>1, <2>2, <2>4, BudgetOf, WithinFewer
<1> QED BY <1>3, <1>4

\* A handler that settles, and a completion whose reply is lost.
LEMMA BudgetRephased ==
  ASSUME BudgetInv, IInv', NEW r \in runs, NEW phase, runs' = Rephased(r, phase),
         UNCHANGED <<retrycount, claims>>,
         \A j \in JobId : \/ state'[j] = state[j] /\ doubts'[j] = doubts[j]
                          \/ state'[j] = "completed" /\ doubts'[j] = doubts[j] + 1
  PROVE  BudgetInv'
<1> SUFFICES ASSUME NEW j \in JobId
             PROVE  Within(RunsOf(j)', state'[j], retrycount[j], claims[j], doubts'[j])
  BY DEF BudgetInv
<1> DEFINE moved == [r EXCEPT !.phase = phase]
<1>1. r \in Run
  BY DEF BudgetInv, IInv, TypeOK
<1>2. moved.job = r.job /\ moved.nth = r.nth /\ moved.retrycount = r.retrycount
  BY <1>1 DEF Run
<1>3. runs' = (runs \ {r}) \cup {moved}
  BY DEF Rephased
<1> HIDE DEF moved
<1>4. Within(RunsOf(j)', state[j], retrycount[j], claims[j], doubts[j])
  <2>1. CASE r.job = j
    <3>1. RunsOf(j)' = (RunsOf(j) \ {r}) \cup {moved} /\ r \in RunsOf(j)
      BY <1>2, <1>3, <2>1 DEF RunsOf
    <3> QED BY <1>2, <3>1, BudgetOf, WithinRephased
  <2>2. CASE r.job # j
    <3>1. RunsOf(j)' = RunsOf(j)
      BY <1>2, <1>3, <2>2 DEF RunsOf
    <3> QED BY <3>1, BudgetOf
  <2> QED BY <2>1, <2>2
<1>5. ~ Open("completed")
  BY DEF Open
<1>6. CASE state'[j] = state[j] /\ doubts'[j] = doubts[j]
  BY <1>4, <1>6
<1>7. CASE state'[j] = "completed" /\ doubts'[j] = doubts[j] + 1
  BY <1>4, <1>5, <1>7, BudgetOf, WithinOver
<1> QED BY <1>6, <1>7

\* The last UPDATE of an execution.
LEMMA BudgetSettled ==
  ASSUME BudgetInv, IInv', NEW r \in runs, WriteCompleted(r) \/ WriteFailed(r) \/ WriteRetry(r)
  PROVE  BudgetInv'
<1>1. /\ runs' = runs \ {r} /\ UNCHANGED <<claims, doubts>>
      /\ \/ /\ state' = [state EXCEPT ![r.job] = "retry"] /\ r.retrycount < RetryLimit
            /\ retrycount' = [retrycount EXCEPT ![r.job] = r.retrycount + 1]
         \/ \E s \in Terminal : state' = [state EXCEPT ![r.job] = s] /\ UNCHANGED retrycount
  BY DEF WriteCompleted, WriteFailed, WriteRetry, MayRetry, Settle
<1>2. r \in Run /\ state \in [JobId -> Pending \cup Terminal \cup {"absent"}]
      /\ retrycount \in [JobId -> Nat]
  BY DEF BudgetInv, IInv, TypeOK
<1> SUFFICES ASSUME NEW j \in JobId
             PROVE  Within(RunsOf(j)', state'[j], retrycount'[j], claims[j], doubts[j])
  BY <1>1 DEF BudgetInv
<1>3. RunsOf(j)' \in SUBSET RunsOf(j)
  BY <1>1 DEF RunsOf
<1>4. Within(RunsOf(j)', state[j], retrycount[j], claims[j], doubts[j])
  BY <1>3, BudgetOf, WithinFewer
<1>5. CASE r.job # j
  BY <1>1, <1>2, <1>4, <1>5
<1>6. CASE r.job = j /\ \E s \in Terminal : state'[j] = s /\ UNCHANGED retrycount
  <2>1. ~ Open(state'[j]) /\ retrycount'[j] = retrycount[j]
    BY <1>6 DEF Open
  <2> QED BY <1>4, <2>1, BudgetOf, WithinOver
<1>7. CASE /\ r.job = j /\ state'[j] = "retry" /\ r.retrycount < RetryLimit
           /\ retrycount'[j] = r.retrycount + 1
  <2>1. RunsOf(j)' = RunsOf(j) \ {r} /\ r \in RunsOf(j)
    BY <1>1, <1>7 DEF RunsOf
  <2>2. \A x \in RunsOf(j) : x.nth = r.nth => x = r
    BY <2>1, BudgetOf
  <2> QED BY <1>7, <2>1, <2>2, BudgetOf, WithinRetried
<1>8. r.job = j => \/ /\ state'[j] = "retry" /\ r.retrycount < RetryLimit
                      /\ retrycount'[j] = r.retrycount + 1
                   \/ \E s \in Terminal : state'[j] = s /\ UNCHANGED retrycount
  BY <1>1, <1>2
<1> QED BY <1>5, <1>6, <1>7, <1>8

\* Every step stays within the budget.
LEMMA BudgetStep == BudgetInv /\ [Next]_vars => BudgetInv'
<1> SUFFICES ASSUME BudgetInv, [Next]_vars PROVE BudgetInv'
  OBVIOUS
<1>0. IInv'
  BY NextPreserves DEF BudgetInv
<1>1. CASE \E j \in JobId, q \in Request : Send(j, q)
  <2>1. state \in [JobId -> Pending \cup Terminal \cup {"absent"}]
    BY DEF BudgetInv, IInv, TypeOK
  <2> QED BY <1>0, <1>1, <2>1, BudgetQuiet DEF Send, Insert
<1>2. CASE \E p \in Instance : Start(p)
  BY <1>0, <1>2, BudgetSwept
<1>3. CASE \/ \E p \in Instance : Stop(p) \/ Exit(p) \/ Crash(p)
           \/ \E r \in runs : WriteRetryRefused(r) \/ WriteLost(r)
  <2>1. runs' \subseteq runs /\ UNCHANGED <<state, retrycount, claims, doubts>>
    BY <1>3 DEF Stop, Exit, Crash, WriteRetryRefused, WriteLost, Die, row
  <2> QED BY <1>0, <2>1, BudgetQuiet
<1>4. CASE \E p \in Instance, S \in SUBSET Claimable : Claim(p, S) \/ ClaimReplyLost(p, S)
  BY <1>0, <1>4, BudgetClaimed
<1>5. CASE \E r \in runs : HandlerResolves(r) \/ HandlerThrows(r)
  <2>1. PICK r \in runs, phase \in Phase : MoveTo(r, phase)
    BY <1>5 DEF HandlerResolves, HandlerThrows, Phase
  <2> QED BY <1>0, <2>1, BudgetRephased DEF MoveTo, row
<1>6. CASE \E r \in runs : CompletedReplyLost(r)
  <2>1. PICK r \in runs : CompletedReplyLost(r)
    BY <1>6
  <2>2. /\ state \in [JobId -> Pending \cup Terminal \cup {"absent"}]
        /\ doubts \in [JobId -> Nat]
    BY DEF BudgetInv, IInv, TypeOK
  <2>3. \A j \in JobId : \/ state'[j] = state[j] /\ doubts'[j] = doubts[j]
                         \/ state'[j] = "completed" /\ doubts'[j] = doubts[j] + 1
    BY <2>1, <2>2 DEF CompletedReplyLost
  <2> QED BY <1>0, <2>1, <2>3, BudgetRephased DEF CompletedReplyLost
<1>7. CASE \E r \in runs : WriteCompleted(r) \/ WriteFailed(r) \/ WriteRetry(r)
  BY <1>0, <1>7, BudgetSettled
<1>8. CASE \E j \in JobId : LeaseRunsOut(j) \/ DelayElapses(j) \/ Expires(j)
  <2>1. UNCHANGED <<state, retrycount, claims, doubts, runs>>
    BY <1>8 DEF LeaseRunsOut, DelayElapses, Expires
  <2> QED BY <1>0, <2>1, BudgetQuiet
<1>9. CASE UNCHANGED vars
  <2>1. UNCHANGED <<state, retrycount, claims, doubts, runs>>
    BY <1>9 DEF vars, row
  <2> QED BY <1>0, <2>1, BudgetQuiet
<1> QED BY <1>1, <1>2, <1>3, <1>4, <1>5, <1>6, <1>7, <1>8, <1>9 DEF Next, Execute

\* Each doubt of a row costs at most one execution beside those under way, and
\* one round of retries, for any limit and however stale the snapshots are.
THEOREM DoubtsAreBudgeted == Spec => []WorkBudget
<1>1. BudgetInv => WorkBudget
  <2> SUFFICES ASSUME BudgetInv, NEW j \in JobId
               PROVE  /\ Cardinality(RunsOf(j)) <= doubts[j] + 1
                      /\ claims[j] <= RetryLimit + 1 + doubts[j] * Round
    BY DEF WorkBudget, Round
  <2>1. /\ Within(RunsOf(j), state[j], retrycount[j], claims[j], doubts[j])
        /\ retrycount[j] \in Nat /\ claims[j] \in Nat /\ doubts[j] \in Nat
    BY BudgetOf
  <2>2. Cardinality(RunsOf(j)) \in Nat /\ Cardinality(AllChances(RunsOf(j))) \in Nat
    BY <2>1, FS_CardinalityType DEF Within
  <2>3. Rest(retrycount[j]) \in Nat /\ doubts[j] * Round \in Nat
    BY <2>1, Rounds DEF Rest
  <2> QED BY <2>1, <2>2, <2>3 DEF Within
<1>2. Init => BudgetInv
  BY BudgetBegins
<1> QED BY <1>1, <1>2, BudgetStep, PTL DEF Spec

-----------------------------------------------------------------------------
(* The queue implements the ledger.                                         *)

\* A settling write is the answer of the only hand of a job, or a late answer.
LEMMA SettleIsAnAnswer ==
  ASSUME IInv, NEW r \in runs, NEW s \in {"completed", "retry", "failed"}, Settle(r, s)
  PROVE  Ledger!LedgerNext
<1> USE DEF IInv, Settle, LedgerStatus
<1> DEFINE to == IF s = "retry" THEN "waiting" ELSE "over"
<1>1. r.job \in JobId /\ state[r.job] # "absent"
  BY DEF TypeOK, Run, RunsNamed
<1>2. CASE doubts[r.job] = 0
  <2>1. state[r.job] = "active"
    BY <1>2, SettlingCertain DEF RunMatchesRow
  <2>2. Ledger!Move({r.job}, "taken", to)
    BY <1>1, <2>1 DEF TypeOK, Ledger!Move
  <2> QED BY <1>1, <2>2 DEF Ledger!LedgerNext, Ledger!GiveBack, Ledger!Finish
<1>3. CASE doubts[r.job] > 0
  <2>1. Ledger!LateAnswer(r.job, to)
    BY <1>1, <1>3 DEF TypeOK, Ledger!LateAnswer
  <2> QED BY <1>1, <2>1 DEF Ledger!LedgerNext
<1> QED BY <1>1, <1>2, <1>3 DEF TypeOK

\* A completion whose reply is lost finishes the job unheard, or is a late
\* answer for a row that was in doubt already.
LEMMA UnheardIsAnAnswer ==
  ASSUME IInv, NEW r \in runs, CompletedReplyLost(r)
  PROVE  Ledger!LedgerNext
<1> USE DEF IInv, CompletedReplyLost, LedgerStatus
<1>1. r.job \in JobId /\ state[r.job] # "absent"
  BY DEF TypeOK, Run, RunsNamed
<1>2. CASE doubts[r.job] = 0
  <2>1. state[r.job] = "active"
    BY <1>2, SettlingCertain DEF RunMatchesRow
  <2>2. Ledger!Move({r.job}, "taken", "over")
    BY <1>1, <2>1 DEF TypeOK, Ledger!Move
  <2>3. {j \in JobId : doubts'[j] > 0} = {j \in JobId : doubts[j] > 0} \cup {r.job}
    BY <1>1, <1>2 DEF TypeOK
  <2>4. Ledger!FinishUnheard(r.job)
    BY <2>2, <2>3 DEF Ledger!FinishUnheard
  <2> QED BY <1>1, <2>4 DEF Ledger!LedgerNext
<1>3. CASE doubts[r.job] > 0
  <2>1. {j \in JobId : doubts'[j] > 0} = {j \in JobId : doubts[j] > 0}
    BY <1>1, <1>3 DEF TypeOK
  <2>2. Ledger!LateAnswer(r.job, "over")
    BY <1>1, <1>3, <2>1 DEF TypeOK, Ledger!LateAnswer
  <2> QED BY <1>1, <2>2 DEF Ledger!LedgerNext
<1> QED BY <1>1, <1>2, <1>3 DEF TypeOK

\* Every step of the queue is a step of the ledger or leaves it unchanged.
LEMMA StepImplementsLedger ==
  IInv /\ [Next]_vars => [Ledger!LedgerNext]_(Ledger!ledgerVars)
<1> SUFFICES ASSUME IInv, [Next]_vars
             PROVE  Ledger!LedgerNext \/ UNCHANGED Ledger!ledgerVars
  OBVIOUS
<1> USE DEF IInv, LedgerStatus
<1>0. ASSUME UNCHANGED <<state, doubts>> PROVE UNCHANGED Ledger!ledgerVars
  BY <1>0 DEF Ledger!ledgerVars
<1>1. CASE \E j \in JobId, q \in Request : Send(j, q)
  <2> PICK j \in JobId, q \in Request : Send(j, q)
    BY <1>1
  <2>1. Ledger!Enqueue(j)
    BY DEF Send, Insert, TypeOK, Ledger!Enqueue, Ledger!Move
  <2> QED BY <2>1 DEF Ledger!LedgerNext
<1>2. CASE \E p \in Instance : Start(p)
  <2> PICK S \in SUBSET JobId : S = Stale
    BY DEF Stale
  <2>1. Ledger!Move(S, "taken", "waiting")
    BY <1>2 DEF Start, Stale, TypeOK, Ledger!Move
  <2>2. {j \in JobId : doubts'[j] > 0} = {j \in JobId : doubts[j] > 0} \cup S
    BY <1>2 DEF Start, TypeOK
  <2>3. Ledger!Reclaim(S)
    BY <2>1, <2>2 DEF Ledger!Reclaim
  <2> QED BY <2>3 DEF Ledger!LedgerNext
<1>3. CASE \E p \in Instance, S \in SUBSET Claimable : Claim(p, S) \/ ClaimReplyLost(p, S)
  <2> PICK S \in SUBSET Claimable : MarkClaimed(S)
    BY <1>3 DEF Claim, ClaimReplyLost
  <2>1. S \in SUBSET JobId
    BY DEF Claimable
  <2>2. Ledger!Take(S)
    BY DEF MarkClaimed, Claimable, TypeOK, Ledger!Take, Ledger!Move
  <2> QED BY <2>1, <2>2 DEF Ledger!LedgerNext
<1>4. CASE \E r \in runs : Execute(r)
  <2> PICK r \in runs : Execute(r)
    BY <1>4
  <2>1. CASE HandlerResolves(r) \/ HandlerThrows(r)
    BY <1>0, <2>1 DEF HandlerResolves, HandlerThrows, MoveTo, row
  <2>2. CASE WriteCompleted(r) \/ WriteRetry(r) \/ WriteFailed(r)
    BY <2>2, SettleIsAnAnswer DEF WriteCompleted, WriteRetry, WriteFailed
  <2> QED BY <2>1, <2>2 DEF Execute
<1>5. CASE \/ \E p \in Instance : Stop(p) \/ Exit(p) \/ Crash(p)
           \/ \E r \in runs : WriteRetryRefused(r) \/ WriteLost(r)
  BY <1>0, <1>5 DEF Stop, Exit, Crash, WriteRetryRefused, WriteLost, Die, row
<1>6. CASE \E j \in JobId : LeaseRunsOut(j) \/ DelayElapses(j) \/ Expires(j)
  BY <1>0, <1>6 DEF LeaseRunsOut, DelayElapses, Expires
<1>7. CASE UNCHANGED vars
  BY <1>0, <1>7 DEF vars, row
<1>8. CASE \E r \in runs : CompletedReplyLost(r)
  BY <1>8, UnheardIsAnAnswer
<1> QED BY <1>1, <1>2, <1>3, <1>4, <1>5, <1>6, <1>7, <1>8 DEF Next

\* A finished job stays finished, in one hand at a time, unless disowned.
THEOREM ImplementsLedger == Spec => RefinesLedger
<1>1. Init => Ledger!LedgerInit
  BY DEF Init, Ledger!LedgerInit, LedgerStatus
<1> QED BY <1>1, StepImplementsLedger, Invariance, PTL
        DEF Spec, RefinesLedger, Ledger!LedgerSpec

=============================================================================
