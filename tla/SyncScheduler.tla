---------------------------- MODULE SyncScheduler -----------------------------
(***************************************************************************)
(* Who puts synchronisation jobs on the queue: the scheduler worker of     *)
(* SbSyncConsumer turns a tick into one keyed job per environment, and     *)
(* users ask for a tick or for the refresh of one environment without a    *)
(* key.  The queue is module JobQueue; when the cron inserts a tick is     *)
(* module Cron, so that ticks may arrive here at any time.                 *)
(***************************************************************************)
EXTENDS JobQueue

CONSTANTS
  LambdaEnv,   \* environments with an sbEnvironmentMetaArn
  ApiEnv,      \* environments with an adminApiUrl and no ARN
  NoEnv        \* env of a tick

Env == LambdaEnv \cup ApiEnv

\* The channels of sb-sync.module.ts and what is sent to them.
SchedulerChannel == "sbe-sync-scheduler"
EnvChannel       == "sbe-sync"

Tick         == [name |-> SchedulerChannel, key |-> NoKey, expires |-> FALSE, env |-> NoEnv]
Scheduled(e) == [name |-> EnvChannel, key |-> e, expires |-> TRUE, env |-> e]
Refresh(e)   == [name |-> EnvChannel, key |-> NoKey, expires |-> TRUE, env |-> e]

Channels     == {SchedulerChannel, EnvChannel}
SyncRequests == {Tick} \cup {Scheduled(e) : e \in Env} \cup {Refresh(e) : e \in Env}

ASSUME SchedulerAssumption ==
  /\ Key = Env /\ Queue = Channels /\ Worker = Channels /\ Request = SyncRequests
  /\ LambdaEnv \cap ApiEnv = {}

VARIABLE offered  \* sends that scheduler executions have made: [job, nth, env]

allVars == <<vars, offered>>

SchedulerTypeOK ==
  /\ TypeOK
  /\ offered \in SUBSET [job : JobId, nth : Nat, env : Env]
  /\ \A o \in offered : \E r \in runs : r.job = o.job /\ r.nth = o.nth

SchedulerInit == Init /\ offered = {}

-----------------------------------------------------------------------------
(* The scheduler worker.                                                    *)

OfferedBy(r) == {o.env : o \in {x \in offered : x.job = r.job /\ x.nth = r.nth}}

KeyPending(k) == \E i \in JobId : state[i] \in Pending /\ request[i].key = k

Ticking(r) == r.phase = "handling" /\ request[r.job].name = SchedulerChannel

\* One send of a Promise.all: the environments with an ARN come first.  The
\* send inserts a keyed row, or is refused because the key is pending.
Offer(r, e) ==
  /\ Ticking(r)
  /\ e \notin OfferedBy(r)
  /\ e \in LambdaEnv \/ LambdaEnv \subseteq OfferedBy(r)
  /\ offered' = offered \cup {[job |-> r.job, nth |-> r.nth, env |-> e]}
  /\ \/ \E j \in JobId : Send(j, Scheduled(e))
     \/ KeyPending(e) /\ UNCHANGED vars

\* The cron or POST /sb-sync-queues sends a tick; the refresh of an environment
\* (also after its creation, or that of an ODS) is sent without a key.
TickSent    == \E j \in JobId : Send(j, Tick) /\ UNCHANGED offered
RefreshSent == \E j \in JobId, e \in Env : Send(j, Refresh(e)) /\ UNCHANGED offered

-----------------------------------------------------------------------------
(* Steps of the queue: what an execution has offered ends with it.          *)

Forget == offered' = {o \in offered : \E r \in runs' : r.job = o.job /\ r.nth = o.nth}

\* Mutant: the second Promise.all is not awaited.
FannedOutLambda(r) == LambdaEnv \subseteq OfferedBy(r)

\* The scheduler worker resolves when every environment was offered.
FannedOut(r) == OfferedBy(r) = Env

Executes ==
  \E r \in runs :
    /\ \/ HandlerResolves(r) /\ (Ticking(r) => FannedOut(r))
       \/ HandlerThrows(r)
       \/ WriteCompleted(r) \/ WriteRetry(r) \/ WriteFailed(r)
    /\ Forget

QueueStep ==
  \/ \E p \in Instance : Start(p) \/ Stop(p) \/ Exit(p) \/ Crash(p)
  \/ \E p \in Instance, S \in SUBSET Claimable : Claim(p, S) \/ ClaimReplyLost(p, S)
  \/ \E r \in runs : CompletedReplyLost(r) \/ WriteRetryRefused(r) \/ WriteLost(r)
  \/ \E j \in JobId : LeaseRunsOut(j) \/ DelayElapses(j) \/ Expires(j)

SchedulerNext ==
  \/ \E r \in runs, e \in Env : Offer(r, e)
  \/ TickSent \/ RefreshSent
  \/ Executes
  \/ QueueStep /\ Forget

SchedulerSpec == SchedulerInit /\ [][SchedulerNext]_allVars

-----------------------------------------------------------------------------
(* Properties.                                                              *)

\* A tick is completed only when every environment, of both kinds, has had a
\* keyed job, whatever retries and crashes cut the fan-out short before.
CompletedTickFannedOut ==
  \A j \in JobId : (request[j] = Tick /\ state[j] = "completed") =>
    \A e \in Env : \E i \in JobId : request[i] = Scheduled(e)

=============================================================================
