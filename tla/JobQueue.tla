------------------------------- MODULE JobQueue ------------------------------
(***************************************************************************)
(* The SQL Server job queue (MssqlJobQueueService): one job_queue table    *)
(* shared by every instance of the API, each instance polling it, claiming *)
(* rows under a lease and running their handlers side by side.             *)
(*                                                                         *)
(* Every SQL statement is one step; what happens in JavaScript between two *)
(* statements (a handler that runs for minutes) is an execution in `runs'. *)
(* Time is abstract: a lease, a retry delay and an expiry are ahead until  *)
(* a step of the clock puts them in the past, in any order.                *)
(***************************************************************************)
EXTENDS Naturals, FiniteSets

CONSTANTS
  Instance,    \* processes of the API that share the database
  JobId,       \* the ids randomUUID() hands out: bounds the jobs ever sent
  Key, NoKey,  \* singleton keys, and the NULL of a job sent without one
  Queue,       \* queue names
  Worker,      \* the queues that have a handler registered with work()
  Request,     \* what callers pass to send()
  NoRequest,   \* request of an id that was not inserted
  RetryLimit,  \* the retrylimit column (no caller overrides its default)
  ClaimLimit,  \* UPDATE TOP (ClaimLimit)
  MaxMishaps   \* bounds crashes, shutdowns and lost database replies

ASSUME QueueAssumption ==
  /\ RetryLimit \in Nat
  /\ MaxMishaps \in Nat
  /\ NoKey \notin Key
  /\ NoRequest \notin Request
  /\ \A q \in Request :
       /\ q.name \in Queue
       /\ q.key \in Key \cup {NoKey}
       /\ q.expires \in BOOLEAN

VARIABLES
  state,       \* column state; "absent": no such row
  request,     \* columns name, singletonKey, data
  retrycount,  \* column retrycount
  delayed,     \* availableAt > GETUTCDATE()
  expiry,      \* column expirein: "never" is NULL
  leaseOver,   \* leaseUntil < GETUTCDATE(), read of active rows only
  instance,    \* life of each process
  runs,        \* executions of executeJob() in progress
  claims,      \* history: times each row was claimed, names its executions
  doubts,      \* history: times each row was requeued by a startup sweep, or
               \* completed unknown to its execution: its status is in doubt
  mishaps      \* history: failures so far, bounded by MaxMishaps

row  == <<state, request, retrycount, delayed, expiry, leaseOver>>
vars == <<row, instance, runs, claims, doubts, mishaps>>

Waiting  == {"created", "retry"}
Pending  == Waiting \cup {"active"}
Terminal == {"completed", "failed"}

\* A run holds the row as it was when claimed (OUTPUT INSERTED.*).  Phases:
\* the handler is at work; it resolved; it threw; there is no handler.
Phase == {"handling", "resolved", "threw", "unhandled"}
Run   == [job : JobId, nth : Nat, by : Instance, retrycount : Nat, phase : Phase]

TypeOK ==
  /\ state \in [JobId -> Pending \cup Terminal \cup {"absent"}]
  /\ request \in [JobId -> Request \cup {NoRequest}]
  /\ retrycount \in [JobId -> Nat]
  /\ delayed \in [JobId -> BOOLEAN]
  /\ expiry \in [JobId -> {"never", "ahead", "past"}]
  /\ leaseOver \in [JobId -> BOOLEAN]
  /\ instance \in [Instance -> {"down", "up", "draining"}]
  /\ runs \in SUBSET Run
  /\ claims \in [JobId -> Nat]
  /\ doubts \in [JobId -> Nat]
  /\ mishaps \in Nat
  /\ \A j \in JobId : state[j] = "absent" <=> request[j] = NoRequest

Init ==
  /\ state = [j \in JobId |-> "absent"]
  /\ request = [j \in JobId |-> NoRequest]
  /\ retrycount = [j \in JobId |-> 0]
  /\ delayed = [j \in JobId |-> FALSE]
  /\ expiry = [j \in JobId |-> "never"]
  /\ leaseOver = [j \in JobId |-> FALSE]
  /\ instance = [p \in Instance |-> "down"]
  /\ runs = {}
  /\ claims = [j \in JobId |-> 0]
  /\ doubts = [j \in JobId |-> 0]
  /\ mishaps = 0

-----------------------------------------------------------------------------
(* The unique index UX_job_queue_singletonKey_active: row j may be pending  *)
(* under key k.  The index covers the key alone, whatever the queue.        *)

\* Mutant: the index filter forgets the active rows.
KeyFreeOfWaiting(j, k) ==
  \/ k = NoKey
  \/ \A i \in JobId \ {j} : state[i] \in Waiting => request[i].key # k

KeyFree(j, k) ==
  \/ k = NoKey
  \/ \A i \in JobId \ {j} : state[i] \in Pending => request[i].key # k

\* Mutants: the INSERT meets no unique index; it leaves name and key out.
SendUnchecked(j, q) ==
  /\ state[j] = "absent"
  /\ state' = [state EXCEPT ![j] = "created"]
  /\ request' = [request EXCEPT ![j] = q]
  /\ UNCHANGED <<retrycount, delayed, expiry, leaseOver, instance, runs, claims, doubts, mishaps>>

SendBlank(j, q) ==
  /\ state[j] = "absent"
  /\ state' = [state EXCEPT ![j] = "created"]
  /\ UNCHANGED <<request, retrycount, delayed, expiry, leaseOver, instance, runs, claims,
                 doubts, mishaps>>

\* The INSERT of send().  A refused one changes no row.
Insert(j, q) ==
  /\ state[j] = "absent"
  /\ KeyFree(j, q.key)
  /\ state' = [state EXCEPT ![j] = "created"]
  /\ request' = [request EXCEPT ![j] = q]
  /\ expiry' = [expiry EXCEPT ![j] = IF q.expires THEN "ahead" ELSE "never"]
  /\ UNCHANGED <<retrycount, delayed, leaseOver, instance, runs, claims, doubts>>

Send(j, q) == Insert(j, q) /\ UNCHANGED mishaps

-----------------------------------------------------------------------------
(* Life of an instance.                                                     *)

Stale == {j \in JobId : state[j] = "active" /\ leaseOver[j]}

\* start(): recoverStaleJobs() is awaited before either loop begins.
Start(p) ==
  /\ instance[p] = "down"
  /\ instance' = [instance EXCEPT ![p] = "up"]
  /\ state' = [j \in JobId |-> IF j \in Stale THEN "retry" ELSE state[j]]
  /\ retrycount' = [j \in JobId |-> IF j \in Stale THEN retrycount[j] + 1 ELSE retrycount[j]]
  /\ doubts' = [j \in JobId |-> IF j \in Stale THEN doubts[j] + 1 ELSE doubts[j]]
  /\ UNCHANGED <<request, delayed, expiry, leaseOver, runs, claims, mishaps>>

\* stop(): no more claims; the executions under way go on.
Stop(p) ==
  /\ instance[p] = "up"
  /\ mishaps < MaxMishaps
  /\ mishaps' = mishaps + 1
  /\ instance' = [instance EXCEPT ![p] = "draining"]
  /\ UNCHANGED <<row, runs, claims, doubts>>

\* A process ends: its executions end with it, their rows stay as they are.
Die(p) ==
  /\ mishaps' = mishaps + 1
  /\ instance' = [instance EXCEPT ![p] = "down"]
  /\ runs' = {r \in runs : r.by # p}
  /\ UNCHANGED <<row, claims, doubts>>

\* The graceful wait ends when no row is active or after 30 seconds.
Exit(p) == instance[p] = "draining" /\ Die(p)

Crash(p) == instance[p] # "down" /\ mishaps < MaxMishaps /\ Die(p)

-----------------------------------------------------------------------------
(* processJobs(): one UPDATE TOP (10) ... READPAST claims eligible rows.    *)

\* Mutants: the claim also takes active rows whose lease is over; it takes
\* failed rows; it forgets the rows waiting for a retry.
ClaimableOrStale ==
  {j \in JobId : \/ state[j] \in Waiting /\ ~delayed[j] /\ expiry[j] # "past"
                 \/ state[j] = "active" /\ leaseOver[j]}
ClaimableOrFailed ==
  {j \in JobId : state[j] \in Waiting \cup {"failed"} /\ ~delayed[j] /\ expiry[j] # "past"}
ClaimableCreated == {j \in JobId : state[j] = "created" /\ expiry[j] # "past"}

Claimable == {j \in JobId : state[j] \in Waiting /\ ~delayed[j] /\ expiry[j] # "past"}

NewRun(p, j) ==
  [job |-> j, nth |-> claims[j] + 1, by |-> p, retrycount |-> retrycount[j],
   phase |-> IF request[j].name \in Worker THEN "handling" ELSE "unhandled"]

MarkClaimed(S) ==
  /\ state' = [j \in JobId |-> IF j \in S THEN "active" ELSE state[j]]
  /\ leaseOver' = [j \in JobId |-> IF j \in S THEN FALSE ELSE leaseOver[j]]
  /\ claims' = [j \in JobId |-> IF j \in S THEN claims[j] + 1 ELSE claims[j]]
  /\ UNCHANGED <<request, retrycount, delayed, expiry, instance, doubts>>

CanClaim(p, S) ==
  /\ instance[p] = "up"
  /\ S # {}
  /\ Cardinality(S) <= ClaimLimit

Claim(p, S) ==
  /\ CanClaim(p, S)
  /\ MarkClaimed(S)
  /\ runs' = runs \cup {NewRun(p, j) : j \in S}
  /\ UNCHANGED mishaps

\* The UPDATE commits but its reply is lost: the loop logs the error and the
\* rows stay active with nobody executing them.
ClaimReplyLost(p, S) ==
  /\ CanClaim(p, S)
  /\ mishaps < MaxMishaps
  /\ mishaps' = mishaps + 1
  /\ MarkClaimed(S)
  /\ UNCHANGED runs

-----------------------------------------------------------------------------
(* executeJob(): the handler settles, then one UPDATE ... WHERE id = @0     *)
(* whatever the row has become in the meantime.                             *)

Rephased(r, phase) == (runs \ {r}) \cup {[r EXCEPT !.phase = phase]}

MoveTo(r, phase) ==
  /\ runs' = Rephased(r, phase)
  /\ UNCHANGED <<row, instance, claims, doubts, mishaps>>

HandlerResolves(r) == r.phase = "handling" /\ MoveTo(r, "resolved")

\* A throwing handler and a failing "completed" UPDATE reach the same catch.
HandlerThrows(r) == r.phase \in {"handling", "resolved"} /\ MoveTo(r, "threw")

Settle(r, s) ==
  /\ state' = [state EXCEPT ![r.job] = s]
  /\ runs' = runs \ {r}
  /\ UNCHANGED <<request, expiry, leaseOver, instance, claims, doubts, mishaps>>

WriteCompleted(r) ==
  /\ r.phase = "resolved"
  /\ Settle(r, "completed")
  /\ UNCHANGED <<retrycount, delayed>>

\* The "completed" UPDATE commits but its reply is lost: the catch of
\* executeJob() takes the job for a failed one.
CompletedReplyLost(r) ==
  /\ r.phase = "resolved"
  /\ mishaps < MaxMishaps
  /\ mishaps' = mishaps + 1
  /\ state' = [state EXCEPT ![r.job] = "completed"]
  /\ doubts' = [doubts EXCEPT ![r.job] = @ + 1]
  /\ runs' = Rephased(r, "threw")
  /\ UNCHANGED <<request, retrycount, delayed, expiry, leaseOver, instance, claims>>

\* Mutant: retrycount <= retrylimit.
MayRetryOnceMore(r) == r.phase = "threw" /\ r.retrycount <= RetryLimit

MayRetry(r) == r.phase = "threw" /\ r.retrycount < RetryLimit

WriteRetry(r) ==
  /\ MayRetry(r)
  /\ KeyFree(r.job, request[r.job].key)
  /\ Settle(r, "retry")
  /\ retrycount' = [retrycount EXCEPT ![r.job] = r.retrycount + 1]
  /\ delayed' = [delayed EXCEPT ![r.job] = TRUE]

\* Mutant: a job without a handler is logged and left alone.
WriteFailedUnlessUnhandled(r) ==
  \/ r.phase = "threw" /\ r.retrycount >= RetryLimit /\ Settle(r, "failed")
       /\ UNCHANGED <<retrycount, delayed>>
  \/ r.phase = "unhandled" /\ runs' = runs \ {r}
       /\ UNCHANGED <<row, instance, claims, doubts, mishaps>>

WriteFailed(r) ==
  /\ \/ r.phase = "unhandled"
     \/ r.phase = "threw" /\ r.retrycount >= RetryLimit
  /\ Settle(r, "failed")
  /\ UNCHANGED <<retrycount, delayed>>

\* The index refuses to make the row pending again because its key was taken
\* meanwhile: nothing catches the rejection and main.ts exits the process.
WriteRetryRefused(r) ==
  /\ MayRetry(r)
  /\ ~KeyFree(r.job, request[r.job].key)
  /\ mishaps < MaxMishaps
  /\ Die(r.by)

\* The last UPDATE fails on the connection: main.ts logs it and goes on.
WriteLost(r) ==
  /\ r.phase \in {"threw", "unhandled"}
  /\ mishaps < MaxMishaps
  /\ mishaps' = mishaps + 1
  /\ runs' = runs \ {r}
  /\ UNCHANGED <<row, instance, claims, doubts>>

-----------------------------------------------------------------------------
(* The database clock.                                                      *)

LeaseRunsOut(j) ==
  /\ state[j] = "active" /\ ~leaseOver[j]
  /\ leaseOver' = [leaseOver EXCEPT ![j] = TRUE]
  /\ UNCHANGED <<state, request, retrycount, delayed, expiry, instance, runs, claims,
                 doubts, mishaps>>

DelayElapses(j) ==
  /\ delayed[j]
  /\ delayed' = [delayed EXCEPT ![j] = FALSE]
  /\ UNCHANGED <<state, request, retrycount, expiry, leaseOver, instance, runs, claims,
                 doubts, mishaps>>

Expires(j) ==
  /\ state[j] \in Waiting /\ expiry[j] = "ahead"
  /\ expiry' = [expiry EXCEPT ![j] = "past"]
  /\ UNCHANGED <<state, request, retrycount, delayed, leaseOver, instance, runs, claims,
                 doubts, mishaps>>

-----------------------------------------------------------------------------
Execute(r) ==
  \/ HandlerResolves(r) \/ HandlerThrows(r)
  \/ WriteCompleted(r) \/ WriteRetry(r) \/ WriteFailed(r)

Next ==
  \/ \E j \in JobId, q \in Request : Send(j, q)
  \/ \E p \in Instance : Start(p) \/ Stop(p) \/ Exit(p) \/ Crash(p)
  \/ \E p \in Instance, S \in SUBSET Claimable : Claim(p, S) \/ ClaimReplyLost(p, S)
  \/ \E r \in runs : Execute(r) \/ CompletedReplyLost(r) \/ WriteRetryRefused(r) \/ WriteLost(r)
  \/ \E j \in JobId : LeaseRunsOut(j) \/ DelayElapses(j) \/ Expires(j)

Spec == Init /\ [][Next]_vars

(***************************************************************************)
(* The loops poll for as long as the process is up, a process that went    *)
(* down is started again, handlers settle, and time passes.  Nothing       *)
(* obliges a caller to send, or a failure to happen.                       *)
(***************************************************************************)
Fairness ==
  /\ \A p \in Instance : WF_vars(Start(p)) /\ WF_vars(Exit(p))
  /\ WF_vars(\E p \in Instance, S \in SUBSET Claimable : Claim(p, S))
  /\ WF_vars(\E r \in runs : Execute(r))
  /\ \A j \in JobId : WF_vars(LeaseRunsOut(j)) /\ WF_vars(DelayElapses(j)) /\ WF_vars(Expires(j))

FairSpec == Spec /\ Fairness

-----------------------------------------------------------------------------
(* Properties.                                                              *)

RunsOf(j) == {r \in runs : r.job = j}

\* Two pending rows never share a singleton key, although late answers of
\* swept executions make rows pending again: the filtered unique index and
\* the way send() and executeJob() meet its refusal.
PendingKeysUnique ==
  \A i, j \in JobId :
    (i # j /\ state[i] \in Pending /\ state[j] \in Pending) =>
      (request[i].key = NoKey \/ request[i].key # request[j].key)

\* A row never in doubt (no startup sweep touched it and the answer to its
\* completion was not lost) has at most one execution in the whole
\* deployment, and is attempted at most retrylimit + 1 times: the atomic claim
\* of processJobs() and the retry count that executeJob() snapshots.
OneExecutionUntilDoubt ==
  \A j \in JobId : doubts[j] = 0 =>
    /\ \A r1, r2 \in RunsOf(j) : r1 = r2
    /\ claims[j] <= RetryLimit + 1

\* Two executions under the same singleton key never overlap, whichever jobs
\* and instances they belong to, as long as neither row is in doubt: what the
\* singleton key of a scheduled sync really buys.
KeyedExecutionsExclusive ==
  \A r1, r2 \in runs :
    /\ request[r1.job].key = request[r2.job].key
    /\ request[r1.job].key # NoKey
    /\ doubts[r1.job] = 0 /\ doubts[r2.job] = 0
    => r1 = r2

\* What doubts cost: each of a row's adds at most one execution beside
\* those under way, and at most a fresh round of retries.  The retry count is
\* written from a snapshot, so it may go back: the budget is not the column.
WorkBudget ==
  \A j \in JobId :
    /\ Cardinality(RunsOf(j)) <= doubts[j] + 1
    /\ claims[j] <= RetryLimit + 1 + doubts[j] * (IF RetryLimit = 0 THEN 1 ELSE RetryLimit)

\* An active row that nobody executes.
Orphan(j) == state[j] = "active" /\ RunsOf(j) = {}

\* An active row loses its last execution only when a process ends or a
\* database reply is lost: every path through executeJob() settles the row.
OrphansOnlyByMishap ==
  [][(\E j \in JobId : ~Orphan(j) /\ Orphan(j)') => mishaps' > mishaps]_vars

\* The queue implements the ledger: a finished job stays finished and a job
\* is in one hand at a time, unless its status is in doubt.
LedgerStatus(s) ==
  CASE s = "absent" -> "none"
    [] s \in Waiting -> "waiting"
    [] s = "active" -> "taken"
    [] s \in Terminal -> "over"

Ledger == INSTANCE JobLedger WITH
  status <- [j \in JobId |-> LedgerStatus(state[j])],
  disowned <- {j \in JobId : doubts[j] > 0}

RefinesLedger == Ledger!LedgerSpec

\* The inductive strengthening: executions are told apart by (job, nth), and
\* a row never in doubt and its only execution agree.
RunsNamed ==
  \A r1 \in runs :
    /\ r1.nth <= claims[r1.job]
    /\ state[r1.job] # "absent"
    /\ \A r2 \in runs : r1.job = r2.job /\ r1.nth = r2.nth => r1 = r2

RunMatchesRow(r) ==
  /\ state[r.job] = "active"
  /\ r.nth = claims[r.job]
  /\ r.retrycount = retrycount[r.job]

CertainRowExact ==
  \A j \in JobId : doubts[j] = 0 =>
    /\ retrycount[j] <= RetryLimit
    /\ claims[j] <= retrycount[j] + (IF state[j] \in Waiting \cup {"absent"} THEN 0 ELSE 1)
    /\ \A r \in RunsOf(j) : RunMatchesRow(r)

IInv == TypeOK /\ PendingKeysUnique /\ RunsNamed /\ CertainRowExact

\* A job sent is eventually completed or failed, unless it expires unclaimed
\* or is orphaned: the poll loop, the retries and their delays make progress.
EveryJobSettles ==
  \A j \in JobId :
    state[j] \in Pending ~>
      \/ state[j] \in Terminal
      \/ state[j] \in Waiting /\ expiry[j] = "past"
      \/ Orphan(j)

=============================================================================
