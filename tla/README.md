# Ed-Fi Admin App: verification project

TLA+ models of the synchronisation core of the Ed-Fi Admin App (the NestJS API
under `src/packages/api`), TLC configurations that check them on small
instances, and TLAPS proofs for any instance. Abbreviations: `queue.ts` is
`src/packages/api/src/sb-sync/job-queue/mssql-job-queue.service.ts`,
`sync-ods.ts` and `sb-sync.consumer.ts` are in `src/packages/api/src/sb-sync/`.

1. The system
2. Modules, and how they correspond to the code
3. Runs, bounds, fairness
4. Proofs
5. What the checks found
6. What is left out
7. Plan

## 1. The system

The Admin App manages Ed-Fi environments. An environment has tenants, a tenant
has ODSs (databases), an ODS has education organisations (edorgs). The truth
about them is in the environment itself: behind an AWS lambda (Starting Blocks)
or behind the Ed-Fi Admin API. The application keeps a copy in its own database,
hangs ownerships and integrations on the rows of the copy, and refreshes it by
jobs of a queue. Several instances of the API may share one database.

| Component | State | Operations | Interacts with |
|---|---|---|---|
| SQL Server job queue (`queue.ts`, `job-queue.entity.ts`, migration `1764929283532`) | table `job_queue` with a filtered unique index on `singletonKey`; handlers and two timers per process | `send`, `processJobs`, `executeJob`, `recoverStaleJobs`, `start`, `stop` | every sender below; handlers |
| In-process cron (`queue.ts` 332-402) | `scheduleRegistry`, `lastScheduleFire` (memory), application lock (database) | `schedule`, `processSchedules`, `withSchedulerLock` | inserts into the queue |
| Scheduler worker (`sb-sync.consumer.ts`) | none of its own | a tick becomes one keyed job per environment | reads `sb_environment`, sends |
| Delta sync (`sync-ods.ts`) | tables `ods`, `edorg`, with ownerships below them | `persistSyncTenant`, `persistSyncOds`, `persistSyncDeleteOds` | called by the services below in a transaction |
| Admin API synchronisation (`adminapi-sync.service.ts`, version strategies, `admin-api.v2.service.ts`) | tenants; credentials in the configuration of the environment; a cache of tokens | discover tenants, provision credentials, sync each tenant, drop orphans | delta sync, Admin API over HTTP, ownership cache |
| Starting Blocks services | metadata of the environment | sync environment, tenant, ODS; create and delete ODSs | lambdas, delta sync, ownership cache |
| Environment management (`sb-environments-edfi.services.ts`) | `sb_environment` with its configuration | create, update, update tenants | writes the row that the synchronisation writes too; sends refreshes |
| Team ownership cache (`auth.service.ts`, `auth/helpers/`) | per-process cache of promises | construct, get, reload, clear | reads ownerships, roles and organisations; flushed by syncs, reloaded by ownership changes; read by every authorised request |
| Applications and API clients (`admin-api.v2.controller.ts`, `admin-api.v3.controller.ts`, `integration-apps-team.service.ts`) | table `integration_app`; the applications are the Admin API's | post, put, delete of both | ownership cache (who may), edorg table, Admin API over HTTP |
| Login, certification runner, global administration, other proxies, front end, deployment | sessions, or none | CRUD, forwarding, process I/O | |

What is hard about it:

* **Interleaving.** Instances poll one table and claim from it; jobs of one
  process run side by side (`executeJob` is not awaited); handlers take minutes;
  syncs of one tenant overlap, each with several reads before its writes.
* **Crashes and lost answers.** A process may end at any await. A lease says
  when its rows may be taken back, but only a starting process looks. A
  statement may commit although its answer is an error.
* **Ordering.** The last UPDATE of an execution names the row by id only, and may
  come after the row was given to another execution.
* **Stale state.** The retry decision, the cron's record of fires, the rows a
  delta is computed from, the cached ownerships, the row of an environment
  written back after minutes of HTTP calls, what a handler has checked of an
  application before it writes.
* **Partial failure.** A fan-out half sent, a tenant failing among others,
  credentials provisioned for some tenants, an application created and its row not.

What makes each component correct:

* Queue: pending keys are unique; one execution of a row and of a key; bounded
  attempts; final states final; no row lost; every job settles.
* Cron: fires exclude each other; no process fires an instant twice; no instant
  is skipped because of a failure.
* Scheduler worker: a completed tick has reached every environment.
* Delta sync: tables show the metadata after a sync; rows that did not vanish
  keep their ids (ownerships hang on them, and go with them by cascade);
  constraints hold under overlap; `hasChanges` is truthful.
* Admin API sync and environment management: credentials stay with the address
  they were registered at; no tenant that the Admin API still names loses its
  rows; when changes and failures end, every tenant has credentials, a row and
  the data of the right Admin API.
* Ownership cache: what a load computes is what the ownerships give, no more and
  no less; a load that does not come to its end has a reason; no request is decided by a load that is older than a change the cache
  was told of; an untold change, or a failed load, is over when the entry expires.
* Applications: a request gives the organisations it was asked for, by a user who
  controls them; an application keeps a credential; its integration row
  describes it.

## 2. Modules, and how they correspond to the code

| Module | Models | Extends / instantiates |
|---|---|---|
| `JobLedger` | what a caller may rely on: a job waits, is taken, given back or finished (abstract) | |
| `JobQueue` | the queue, all instances, one SQL statement per step | `INSTANCE JobLedger` |
| `Cron` | the schedule loop of all instances | |
| `SyncScheduler` | the scheduler worker and the senders, on the queue | `EXTENDS JobQueue` |
| `SyncOds` | the delta sync of one tenant as overlapping transactions | |
| `EnvironmentSync` | the synchronisation of one environment with its Admin API, overlapping, beside updates of the environment | |
| `TeamOwnerships` | what ownerships give, as a function of the rows a load reads | |
| `TeamAccess` | the cache of it in every instance, and whoever changes the rows | `EXTENDS TeamOwnerships` |
| `Applications` | applications, API clients and integration rows under interleaved requests | |
| `MC*` | constants and symmetry for TLC | |
| `JobQueueProofs`, `CronProofs`, `SyncSchedulerProofs`, `SyncOdsProofs`, `EnvironmentSyncProofs`, `TeamAccessProofs`, `ApplicationsProofs`, `ApplicationsRowsProofs` (on the one before) | theorems | the module, `TLAPS` |

A definition whose comment begins with *Mutant* is a wrong version of the one
that follows it: no specification uses it. Put in place of its neighbour it makes
a property fail, which is how each property is known to say something of the code.

**JobQueue.** `state`, `request`, `retrycount`, `delayed`, `expiry`, `leaseOver`
are the columns of `job_queue` (`delayed` and `leaseOver` are the comparisons of
`availableAt` and `leaseUntil` with the database clock, `expiry` that of
`expirein`); `runs` holds the executions of `executeJob` with the row as it was
claimed. `Send` is the INSERT of `send()`; `Start` is `start()` with its awaited
sweep; `Claim` is the `UPDATE TOP (10) ... READPAST`; `HandlerResolves`,
`HandlerThrows`, `WriteCompleted`, `WriteRetry`, `WriteFailed` are the ways
through `executeJob`. Failures are actions of their own: `Crash`, `Stop`/`Exit`,
`ClaimReplyLost` (the claim commits, the loop only logs the error),
`CompletedReplyLost` (the completed UPDATE is inside the `try`, so that its
`catch` writes `retry` over it), `WriteRetryRefused` (the unique index refuses
`active -> retry` or `completed -> retry`; the rejection is unhandled and
`main.ts` exits), `WriteLost` (a connection error is logged and survived).
`claims` and `doubts` are history: a row is *in doubt* once a sweep requeued it
or its completion was not acknowledged; the properties say what holds without
doubt, and what doubt costs.

**Cron.** Instants of the cron expression are numbered; `now` is what
`processSchedules` read, `lastFire` the entry of `lastScheduleFire`, `appLock` the
holder of `sp_getapplock`. The tick is inserted on another connection than the
lock's, so `InsertReplyLost` rolls back the lock and not the tick, and the lock's
session may break (`LockLost`) while the insertion goes on.

**SyncScheduler.** `Offer` is one `send` of the two `Promise.all`: lambda
environments first, Admin API environments after. A send inserts or meets a
pending key. `offered` remembers what an execution has sent and ends with it.
`RefreshSent` is every keyless send of `ENV_SYNC_CHNL`.

**SyncOds.** `meta` is what the environment answers, `odss` and `edorgs` are the
tables, `seen` what a transaction has fetched and read. A synchronisation fetches
the metadata, reads the ODSs, (of a whole tenant) the ODSs again, reads the
edorgs, computes both deltas and writes; each read sees what is committed when
it is made. `PersistTenant` is the rest of `persistSyncTenant` (two deltas, the
`odsEdorgsMap`, writes, foreign keys, `hasChanges`), `PersistOds` that of
`persistSyncOds`, `DeleteOds` is `persistSyncDeleteOds`. `Accepted` are the
constraints of the tables, tested after each group of writes; a violated one
rolls the transaction back. `disturbed` is history: another transaction
committed since the first read.

**EnvironmentSync.** `env` is the row of `sb_environment`: its address, and the
credentials of its configuration, of which the Admin API they were registered at
is kept. `rows` counts the EdfiTenant rows of a name, `shown` says which Admin
API the ODSs below it show, `token` is the token cache of
`admin-api.v2.service.ts`, `api` the tenants of each Admin API. `job` holds the
local variables of `syncEnvironmentData()`, one execution per element of `Sync`:
`Begin`, `Bootstrap`, `SaveBootstrap` are `bootstrapCredentials()`; `Reload`,
`Discover` the reading of the row and of the tenants; `Provision`,
`SaveProvisioned` are `provisionCredentialsForNewTenants()`; `FindTenant` to
`PersistTenant` one turn of the loop, `TenantFails` its `catch`; `RemoveOrphans`
its end, `Abort` an error outside the loop. `copy` is the entity read before the
HTTP calls and saved whole after them. `BeginUpdate` and `SaveUpdate` are
`updateEnvironment()`, with its validation between them. `steady` is history.

**TeamOwnerships.** `Construct` is `constructTeamOwnerships()`: the rows with
their privileges in the order the database returns them, the organisations of
the second read, the closure rows of the third. `Cached`, `EnvBlanket`,
`TenantBlanket`, `Downward`, `UpFromEdorg` are the helpers of the same purpose in
`auth/helpers/`; `Allows` is `checkId()` on the ability. `Held` are the rows
whose role has privileges, `FromEnvs`, `FromTenants` and `FromOdss` what rows of
each kind give, and `Throws` says where the construction throws. `Above` is the
least set that has an organisation and the parents of what it has, so that it is
defined on every table. `Binds` is how ids get into a placeholder: PostgreSQL has
an array, SQL Server the ids joined by commas, one string that it converts to a
number, which fails when there are two (`auth.service.ts` 302-338, 488-500);
`BindsOwned` and `Entries` are the ids of the second and of the third read.

**TeamAccess.** `cache` is, per instance, the load whose promise is stored;
`load` the loads, each of which reads ownerships, then organisations, then the
closure (`ReadOwnerships`, `ReadEdorgs`, `ReadClosure`), while `Create`,
`Update`, `Remove` (ownerships), `UpdateRole` and `Synchronise` commit. `engine` is
the database the application is deployed on, and `Refuse` its answer to ids it
cannot bind, at every attempt. `owed` is
what an instance has committed and not yet told its own cache: a `Reload`, not
awaited, or a `Flush`. `Throw` is the exception of the construction: an answer
for a request, the end of the process for a reload. `missed` and `told` are
history: changes committed since a load began, and changes a cache was told of.

**Applications.** `apps` and `clients` are the Admin API's, `rows` the table
`integration_app`, `edorgs` the table `edorg` with the rows told apart by a
stamp: a re-created organisation has another id, and an `odsInstanceId` may have
an organisation twice. The key of the table is of `odsId` (`edorg.entity.ts` 32), and
`ods` may hold two rows of one `odsInstanceId`, which overlapping syncs leave behind
(`SyncOds`). `EdorgsChange` therefore inserts a row whether or not there is one, and
deletes any rows at an ODS, with the integration rows that go by cascade when an
ODS goes. The credentials of v3 name sets of stores (`Stored`), which an
application has through them (`Stores`). A request is a `job` with what
it has read; every await of a handler that precedes or follows a read or write
of shared state ends a step: `LookV2`, `CheckV2` or `CheckV3`, `LookV3`, then
`FindRow`, `SaveRow`, `PutApplication` are PUT, `CheckNew`, `PostApplication`,
`SaveRow` POST, `CheckGone`, `RemoveRow`, `DeleteApplication` DELETE, and so on
for API clients. The removal of DELETE is not awaited: it goes on when the deletion
at the Admin API fails (`Fails`, which ends every other request), and may fail with
nobody hearing of it (`RemovalFails`). `shaky` is history: applications that two requests worked on at
a time, that a failing request had half written, or that were being put when the
organisations changed.

Abstractions, each of them a choice of data and not of control:

* A claim takes any set of at most `ClaimLimit` eligible rows: READPAST skips
  locked rows, so no order can be relied on.
* A refused keyed `send` changes no row; the id that `send()` answers with is not
  modelled (after a refusal it may be an id that was never inserted, line 105).
* The columns `output` and `data` hold nothing the properties tell apart.
* The cron reads the clock and tests dueness in one step (no await in between).
* `Cron` and `SyncScheduler` are composed by their interface only: ticks arrive
  in `SyncScheduler` at any time and in any number, which includes what `Cron` does.
* When a send of a `Promise.all` rejects, the others are not awaited any more;
  their INSERTs may still come. `SyncScheduler` ends the execution instead, and
  `RefreshSent` and later ticks stand for late sends.
* `SyncOds` merges the writes of a transaction into one step. The columns compared
  in an ODS are one `Label`; an ODS is matched by one `Key` (odsInstanceId, or
  dbName if it has none). Of an edorg only the parent is kept: the compared
  names are updated by the same statement. A map built from rows that share a
  key keeps the last of them; the model takes the last id. A database does not
  reuse ids; the model reuses one that no table and no transaction mentions.
* `EnvironmentSync`: a tenant's transaction is one step that shows the Admin API it
  was fetched from (`SyncOds` is about what is inside). `RemoveOrphans` merges the
  find and the delete of the orphans. The tenants of a loop are taken in any
  order. Registration of several tenants is one step with any subset failing.
  The refresh of organisations is left out: its outcome is only logged. Local
  variables that are not read any more are reset.
* `TeamOwnerships`: privileges of claimsets, vendors and profiles follow one rule
  and are one privilege; so are those of applications. Integration providers
  stand alone and are left out.
* `TeamAccess`: one team. A cached promise nobody awaits keeps its slot while it
  runs, for its failure may end the process; a settled promise that is not cached
  any more has no effect and is dropped.
* `Applications`: names, claimsets, vendors and secrets are left out. The removal
  of an integration row merges `findOne` and `remove`. Of two ODSs that share an
  `odsInstanceId`, `findOneBy` may find either: the comparison with the row that
  is kept may then refuse (`FindRow`). On SQL Server the column `edorgIds` is a
  `varchar` without a length, hence of one character (migration
  `1744933017953-CreateIntegrationApps.ts` 8), and most rows cannot be saved: a
  call that fails, as `Fails` has it.

## 3. Runs, bounds, fairness

| Run | Instance | Shows |
|---|---|---|
| `queue_safety` | 2 processes, 2 jobs, keyed or without a handler, 1 retry, 1 mishap (619,256 states up to symmetry) | keys, executions, attempts, orphans; refinement of `JobLedger` |
| `queue_live` | 2 processes, 1 job | every job settles |
| `cron` | 2 processes, 3 instants, 2 mishaps (126,656) | fires exclude each other, are not repeated, none is skipped |
| `scheduler` | 1 process, 3 jobs, one environment of each kind, 1 mishap (2,607,532 up to symmetry) | a completed tick fanned out |
| `sync_ods_overlap` | 2 overlapping syncs, 2 ODSs, 2 labels, 1 edorg, 2 changes of the metadata (676,043 up to symmetry) | constraints, deletion of absent rows and duplicates only, healing, truthful `hasChanges` |
| `sync_ods_trees` | 1 sync, 2 ODSs, 2 edorgs in any hierarchy, single-ODS syncs and deletions, 3 changes, 1 failure (763,162) | a committed sync shows what it fetched, whatever came before; the same metadata again writes nothing; why a sync is refused |
| `sync_ods_spares` | 1 sync, single-ODS syncs | **violated**: only absent rows are deleted |
| `sync_ods_converges` | 1 sync, 3 changes | **violated**: the tables come to show the metadata |
| `access` | 1 instance, 2 loads, an environment with a tenant, an ODS and 2 organisations in 4 hierarchies, 3 sets of privileges, 2 changes (1 on SQL Server), 1 outage (486,856) | a load computes what the ownerships give; none is served that is older than a change the cache was told of; an entry becomes current; why a load is refused or throws |
| `access_sum` | the same, no outage | **violated**: ownerships add up |
| `environment` | 2 tenants, 2 addresses; one execution with a change of the tenants, an update and a failure, or two that overlap with one of the three (896,782) | credentials fit the address, failures remove nothing, the tables come to mirror the Admin API |
| `applications` | v2 and v3, 2 ODSs, 2 organisations, 1 application, 2 credentials; two requests that interleave, or one with two failures or changes of the organisations; 3 bodies, with and without a provider; credentials of one store or of both (3,129,879 up to symmetry) | what is given is asked for and controlled, a credential stays, the row describes its application |

Why the bounds are enough. Every conflict in the queue is between two rows (a
key), two executions of a row, or two processes; one retry separates the first
attempt, a retry and the exhausted count; one mishap followed by the sweep of
the other process reaches every doubtful row, and a doubtful row is where
executions overlap. In the cron, two processes make every conflict over the
lock, and the third instant lets a record be older than the last one. One
environment of each kind separates the two `Promise.all`. In the delta sync two
transactions and two ODSs reach duplicates, stale deletions and the lost ODS of
an edorg; a third change of the metadata lets an ODS appear while another,
synchronised before, changes. In `access`, a load in flight, the one that takes its
place, and two changes make every order of reads, commits and reloads that a
cache can meet; one instance is enough for what it is told, since instances share
the tables only, and what the others change is a change it is not told of (a
change of a role, or a flush that is lost). The four hierarchies let an
organisation be above, below, beside (an ODS with two roots, which SQL Server
cannot load) or gone. The engines differ only in what ids they can bind: one change
is enough to make them too many for SQL Server, from an organisation owned or
from an ODS owned, and PostgreSQL has two changes. In `environment`, a second address with
other tenants, or none, makes stale credentials and tokens differ from fresh
ones; mishaps are dealt out at the start so that one execution meets all kinds
together, and two that overlap each kind by itself. In `applications`, an
organisation that is at both ODSs and one that is not make the checks of v2 and
v3 differ, and the second credential makes the last one; bodies that ask for both
organisations, or for the one that is at both ODSs, let a PUT find fewer rows
than it asks for, and other rows than the application has. Two changes of the
organisations make one be there twice while another is missing, and credentials
of both stores give an application a store that nobody checked.

Symmetry: processes and jobs of the queue, synchronisations, and requests, are
interchangeable where only safety is checked (nothing is chosen by them, and no
temporal property is in those configurations but action properties and the
refinement's safety part); the liveness runs have none.

Mishaps, ids, instants and changes are bounded, and a system whose callers send
nothing rests: in the runs of the queue, the cron, the scheduler, the delta sync
and the applications, behaviours end in states where nothing is left to do, so
deadlock is not checked there (`CHECK_DEADLOCK FALSE`). It is checked in
`access` and `environment`, where requests and the hourly job always come again.

Fairness. `Fairness` (queue): a process that is down is started again (the
orchestrator), a draining one exits (after 30 s), polling goes on (`runJobLoop`
re-arms its timer in `finally`), handlers settle (their HTTP calls time out) and
their last UPDATE is tried, time passes. Sending, crashing and lost replies have none.
Claims are fair together and not for every row: with more jobs than claims a
row might starve, which the code, having an ORDER-less UPDATE TOP, does not rule
out; the instance of `queue_live` has one job. `CronFairness`: `runScheduleLoop`
re-arms its timer; processes restart. `FairSyncSpec`: the scheduler asks for
syncs again and again; nothing obliges the metadata to change. `AccessFairSpec`:
an entry expires thirty seconds after it was stored, by a timer; requests, loads
and changes have no fairness. `EnvFairSpec`: the hourly tick starts the job of the
environment again, and an execution or an update that runs goes on (HTTP calls
time out); a token need not ever expire, and none of the mishaps is obliged to happen.

## 4. Proofs

For any instances, jobs, keys, requests, tenants, addresses, hierarchies and
limits that satisfy `QueueAssumption`, `CronAssumption`, `SchedulerAssumption`,
`SyncAssumption`, `EnvironmentAssumption`, `AccessAssumption` and
`ApplicationsAssumption`, `ResourceAssumption` and `HierarchyAssumption` (limits
are naturals, keys and organisations are finitely many, hierarchies are closed
under parents, and no organisation is its own parent, the NULLs are not values,
what is there to begin with is finite, and it and what is asked for are of the right kind; TLC
evaluates them in every run). `ResourceAssumption` keeps the kinds of resources
apart, which have tables of their own. `HierarchyAssumption` is about the
organisations that `TeamAccess` starts from: a parent is a row of the same ODS
(`parentId` is taken from a map of one ODS when a tenant is synchronised,
`sync-ods.ts` 198-232; a synchronisation of one ODS can do otherwise, section 5),
and above every organisation is a root. The second part leaves cycles aside: an organisation
that trades places with its parent can make one (section 5), on which
`buildDescendants` (`auth.service.ts` 538) does not end.

| Theorem | States |
|---|---|
| `Invariance`, `TypeCorrect` | `Spec => []IInv`, `[]TypeOK` |
| `SingletonKeys` | `PendingKeysUnique` |
| `ExclusiveExecution` | `OneExecutionUntilDoubt` |
| `ExclusiveKeys` | `KeyedExecutionsExclusive` |
| `NoSilentOrphans` | `OrphansOnlyByMishap` |
| `DoubtsAreBudgeted` | `WorkBudget` |
| `ImplementsLedger` | `Spec => Ledger!LedgerSpec` |
| `CronInvariance`, `CronTypeCorrect` | `CronSpec => []CronIInv`, `[]CronTypeOK` |
| `FiresOnce`, `FiresExcludeEachOther` | `OneFirePerLife`, `FiresSerialised` |
| `SchedulerImplementsQueue` | `SchedulerSpec => Spec`: the theorems above hold of the scheduler |
| `TicksFanOut` | `CompletedTickFannedOut` |
| `SchedulerTyped` | `SchedulerTypeOK` |
| `SyncInvariance`, `SyncTyped` | `SyncSpec => []SyncInv`, `[]SyncTypeOK` |
| `SyncReports` | `ChangesReported` |
| `SoloMirrors` | `SoloSyncMirrors` |
| `SameMetadataSameTables` | `SameAgain` |
| `RefusalsExplained` | `RefusedForAReason` |
| `RowsInvariance` (of `SyncOdsProofs`) | `SyncSpec => []SyncRowsInv` |
| `OdssSpared` | every synchronisation that commits: `SparesOdss` |
| `TenantSpares` | one of the tenant: `SparesOdss` and `SparesEdorgs` |
| `OnlyAbsentDeleted` | `OnlyAbsentRowsDeleted` where `~ OneOdsSyncs` |
| `EnvInvariance`, `EnvTyped` | `EnvSpec => []EnvInv`, `[]EnvTypeOK` |
| `CredentialsAreForTheirAddress` | `CredentialsFitAddress` |
| `NothingRemovedByFailure` | `FailuresRemoveNothing` |
| `AccessInvariance`, `AccessTyped` | `AccessSpec => []AccessInv`, `[]AccessTypeOK` |
| `NothingOlderServed` | `ToldMeansReloaded` |
| `ReadsInvariance` | `AccessSpec => []ReadsOK` |
| `NoMoreThanOwned` | `NeverMoreThanOwned` |
| `AllThatIsOwned` | `AsMuchAsOwned` |
| `ThrowsExplained` | `ThrowsForAReason` |
| `ApplicationsInvariance`, `ApplicationsTyped` | `ApplicationsSpec => []AppsInv`, `[]ApplicationsTypeOK` |
| `CredentialKept` | `LastCredentialStays` |
| `AllThatWasAsked` | `GivenAsAsked` |
| `ControlledChanges` | `ChangedUnderControl` |
| `RowsInvariance` (of `ApplicationsRowsProofs`) | `ApplicationsSpec => []RowsInv` |
| `RowsAreTrue` | `RowsDescribeApplications` |

*Queue.* None of the properties is inductive. That a row without doubt has one
execution needs that the execution and the row agree: the row is active, the
execution is the latest claim, and its snapshot of the retry count is the
column (`CertainRowExact`); then any UPDATE by id of such an execution is the
answer the row waits for. `RunsNamed` tells executions apart so that claims
count them. The attempts follow from the retry count: `claims <= retrycount + 1`.
`KeyedExecutionsExclusive` follows from both: two executions without doubt have
active rows, and active rows have different keys. The refinement maps a claim
to `Take`, a sweep to `Reclaim`, a lost completion to `FinishUnheard`, and an
answer to a row in doubt to `LateAnswer`.

That doubts are budgeted (`BudgetInv`) needs to know what may yet be written: the
retries that the snapshots of all executions of a row allow, and the claim that a
waiting row has to come. They are counted as a set of numbered chances
(`AllChances`), since a sum over executions would be an induction. A claim turns
what its row has left into chances of its execution, a retry turns them back, and
a sweep adds one round (`Within`).

*Cron.* `Account` says, of a life, instant by instant, what it may have fired:
once if the instant is recorded or is being recorded, and else only what it was
not told of; `Holding` that a firing process holds the lock unless it broke.

*Scheduler.* `SchedulerImplementsQueue` gives the queue's invariant; the fan-out
needs `FanOutInv`: what an execution has offered was sent, and an execution that
resolved, or a row that is completed, has offered everything.

*Delta sync.* The tables stay in order because ids are the rows' own: an id names
one ODS for whoever mentions it, a table or a transaction (`OdsNamed`), so that a
`save()` of a row read long ago meets that row, or brings it back, and never
another; the foreign keys hold because a transaction whose writes break them is
rolled back. `SoloMirrors` needs that who was not disturbed has read the tables
as they are (`ReadAsTheyAre`). Then the rows saved and the rows kept are one of
each key (`SavedRows`, `KeptRows`), the entities whose trees are compared are
just the ODSs that remain (`SoloLeavesEntities`), and under each of them an
organisation has a row if, and only if, it is in the tree (`SoloHas`,
`SoloLeaves`), with the id by which its children were given their parent. That a
later synchronisation heals duplicates is part of it: nothing is assumed of the
keys of the rows it finds.

The same metadata again gives empty differences (`SameOdss`, `SameEdorgs`): the one
row of each key is the one that is kept, and the parent a tree asks for is the row
that the organisation names. Why a synchronisation can be refused
(`RefusedForAReason`) is proved the other way round: where neither reason is met,
every constraint holds after each batch of writes. An organisation of a tree has a
row that no batch deletes (`IdStays`), so whatever is inserted or updated names an
ODS and a parent that stay (`WrittenRefers`); insertions and updates meet no row of
the same organisation (`WrittenNatural`); what is left are rows that nobody writes,
and a parent of theirs goes only in the two ways that `LosesParent` names: with its
ODS, or because the child has become a root and keeps its `parentId`. The other
reason, `LosesOds`, is the finding of `sync_ods_converges` (section 5). Both are
needed, as TLC shows when either is dropped.

That a synchronisation which others disturb deletes too much nowhere
(`OnlyAbsentRowsDeleted`) rests on names again. An ODS is deleted because a row of
its id was read and not kept, and a row of a key that the metadata shows is not
kept only if a later one was read (`LaterKept`). For organisations ids must name
them, too: `EdorgsNamed` says that an id is of one organisation of one ODS in the
table and in whatever was read, and is kept because insertions take new ids and
updates write back the ODS and the organisation that were read; `ReadNatural`
that no organisation was read twice, so that none is deleted as a duplicate.
`OdssSpared` holds of single-ODS synchronisations too, which delete no ODS. For
their organisations the property is false, hence `~ OneOdsSyncs` in
`OnlyAbsentDeleted` and the run `sync_ods_spares`.

*Environment.* `CredentialsFitAddress` is inductive only because it speaks of
every copy of the row that may yet be saved: the copies of all executions and of
the update in progress; whoever registers uses the address of its own copy, and
an update that changes the address drops the credentials. That is why writing
back a stale copy may lose an address but cannot mix two. `FailuresRemoveNothing`
needs that an execution past its discovery has listed every steady tenant
(`steady \subseteq listed` in the phases `Late`): rows go by the list and by
nothing else.

*Ownership cache.* `ToldMeansReloaded` relates a cached load to changes of which
only the numbers are left. What a load has missed, an instance owes, or a cache
was told, are changes that were made; a change is given a number no one has
seen, so no cache was told of it yet and no running load that began after it
misses it; a load that a reload or a flush puts in the place of another has
missed nothing.

What a load computes is a function of three reads with commits in between, so
the invariant `ReadsOK` says of a load in flight what its reads are worth. A load
that missed no change has read the rows, and the organisations, as they are now;
one that no synchronisation came between (`torn`) has the organisations of its
ownerships, though roles may have changed. Both are kept because who commits
marks every load under way. It remains to say what the construction gives on
reads that are the tables: a resource is allowed if, and only if, some grant
names it or stands for all of its scope (`CanByGrant`, `Fits`), and each part of
`Construct` is compared with the ownerships. No more: each grant comes from a row
on the resource, above it or, for what is inherited upward, below it. No less:
the organisations a load gathers have with each the ones between it and what is
owned, so that the walks down and up see the hierarchy as it is. That is also
why nothing that a walk needs is missing, and the construction throws only where
a role has less than the minimum. That SQL Server refuses a load is another
matter: with one ODS or organisation owned, and one root in it, each placeholder
has one id at most (`RefusedForTooMany`); otherwise `TooMany` admits it. `AllThatIsOwned`
is about loads that come to their end, of which such a team has none. The order in which the database returns the
rows matters in one place, the tenant under an owned environment, which
`AsMuchAsOwned` leaves aside (`Rivalled`).

*Applications.* That a credential stays needs two facts of all the requests at
once: two at one application leave it shaky (`Alone`), so that whoever deletes a
credential is alone, and has seen another that is there still (`Spares`). The
organisations are a matter of counting: as many rows as organisations asked for,
all of one ODS, are all of them where none was found twice (`CountedAll`). Nothing
in the tables excludes that one is, so that every statement about what was found
says so (`Twice`): without it a request still gives no organisation that it was
not asked for. What a request may give is fixed when it is checked (`Given`), and
who controls it is what the request arrived with. The stores of the application
after the step are those it was checked at, or, for a credential posted in v3,
those and the ones of the body (`StoresMove`), which nobody checks (`Unchecked`).
`RowsDescribeApplications` says nothing while a request is at work, which is when
the row and the Admin API differ: `RowsInv` says instead what a request that is
alone at its application knows (`Knows`: that there is no row, that the row has the
organisations it found, that the application it posted has them, but for those
found twice), that it writes in the order of its handler (`InOrder`), and that as
long as it has not begun to write the row is true (`RowsAgree`). That a row may be
kept only if it has the organisations that were found is counting again
(`KeptSame`), and needs that they are in the table still: hence the application is
left aside when the organisations change under its PUT.

Only model-checked: `EveryJobSettles`, `EveryInstantTicks`, `EventuallyCurrent`,
`EventuallyMirrors` (liveness under fairness is out of the prover's reach), and
the violations. Every invariant and every action property of a passing run has
its theorem.

## 5. What the checks found

With a run that shows it:

* **Synchronising one ODS deletes the edorgs of the others.** `persistSyncOds`
  compares one tree with the rows of the tenant (`sync_ods_spares`); ownerships of
  the deleted edorgs go by cascade.
* **A sync can fail for ever.** When one ODS is inserted or updated, a new edorg of
  an ODS that is not loses its ODS; `odsId` is NOT NULL (`sync_ods_converges`).
* **Ownerships do not add up.** The row of an owned environment overwrites what the
  row of one of its tenants gave, if the database returns it later
  (`auth.service.ts` 255 against 262-265; `access_sum`). `AsMuchAsOwned` holds
  because it leaves such tenants aside.

Seen while modelling, without a run of its own:

* The startup sweep takes rows whose lease is over, and nothing looks at leases
  later: a process that is back within five minutes of its crash leaves its rows
  active (`queue.ts` 363; `job-queue.entity.ts` 60-61 says they are requeued). The
  model has the behaviour; `EveryJobSettles` leaves orphans aside, and
  `OrphansOnlyByMishap` says where they come from.
* `sp_getapplock` excludes fires that overlap, not two fires of one instant one
  after another, since the record of fires is in each process's memory
  (`queue.ts` 333-340). Keys of the environment jobs soften it.
* A refresh has no singleton key (`v2-admin-api-version.strategy.ts` 112), so that
  syncs of one environment overlap; `docs/design/sb-sync-functionality.md` 74 says
  otherwise. `EnvironmentSync` has the overlap and shows what it cannot break.
* An Admin API that names no tenants is taken for a single-tenant one, and the
  rows of its former tenants are removed as orphans (`api-metadata-utils.ts` 254).
  `EventuallyMirrors` asks for a mirror only where tenants are named.
* PUT of an application in v2 counts the organisations it found against
  themselves (`admin-api.v2.controller.ts` 379), so that missing ones are dropped
  silently; v3 corrects it and says so (`admin-api.v3.controller.ts` 399-404).
* An ODS that the metadata shows can lose its row: one synchronisation deletes the
  row it takes for a duplicate, while another, whose metadata was fetched when the
  ODS was gone, has deleted the row the first one keeps (`sync-ods.ts` 160, 410).
  It takes duplicates to begin with, hence three synchronisations that overlap (TLC
  finds it with three and one ODS). A later one inserts the ODS under a new id, and
  the ownerships of the old one are gone. `SparesOdss` therefore promises the
  remaining row only to a synchronisation that was not disturbed.
* On SQL Server a team that owns two ODSs, two organisations, or an ODS with two
  root organisations never gets a cache: the ids are bound as one string, `'1,2'`,
  which the database cannot convert (`auth.service.ts` 310-331, 488-499). Every
  request of the team is refused, and a reload nobody awaits is rejected. TLC
  refutes `ThrowsForAReason` without `TooMany`.
* Handlers of applications count the rows they find. Two ODS rows of one
  `odsInstanceId`, which overlapping syncs leave until the next one, make an
  organisation be found twice, and the count is right although another is
  missing. A PUT of v3 then gives the application fewer than asked for
  (`admin-api.v3.controller.ts` 408-421); a POST of either version gives it all, one
  of them unknown, and writes a row that has fewer (551-562,
  `admin-api.v2.controller.ts` 512-522). Neither is an error. `GivenAsAsked` and
  `RowsDescribeApplications` except it (`Twice`); TLC refutes both without.
* `postApiClient` of v3 checks the application at the stores it has, and hands the
  Admin API the stores of the body unchecked (`admin-api.v3.controller.ts` 743-757).
  The application has them from then on (366-372): a user can bring it to a store
  where they control none of its organisations. `ChangedUnderControl` excepts
  those stores (`Unchecked`); TLC refutes it without.
* The row of an integration application is removed by a call that is not awaited
  (`admin-api.v2.controller.ts` 601, `admin-api.v3.controller.ts` 644): when the
  deletion at the Admin API fails the application stays and its row goes.
  `RowsDescribeApplications` does not ask for a row to be there.
* The rows that an integration row refers to may be deleted and made again by a
  synchronisation; the row keeps the old ids and later PUTs of that application
  are refused (`admin-api.v2.controller.ts` 436).
* A PUT, in v2 and v3, reads the organisations twice, and gives what it read first. One
  that a synchronisation deletes in between is not missed by the comparison with
  the integration row (`admin-api.v2.controller.ts` 428-436), so that the
  organisations of an integration application can change although its PUT is
  "only allowed to update: name, vendor, profile, and claimset" (403).
  `RowsDescribeApplications` leaves aside applications under whose PUT the
  organisations changed.
* An edorg whose parent becomes a plain sibling keeps its `parentId` (`sync-ods.ts`
  253-262), and if that parent disappears later its deletion violates the
  foreign key, again for ever: one of the reasons in `RefusedForAReason`. Edorgs of the Admin API come as a flat list whose
  `parent` is overwritten when it is flattened (183-187), so that hierarchies are
  not stored on that path.
* `persistSyncOds` looks parents up among the rows of the whole tenant (`sync-ods.ts`
  527-533, 232), so that an edorg of a new ODS may become the child of a row of
  another. If that other ODS is removed before the tenant is synchronised, which
  would give the child a parent of its own ODS, the deletion of the ODS meets the
  foreign key first, and every synchronisation of the tenant is refused as long as
  the child's ODS stays. `LosesParent` was found to need this case: TLC refuted the
  property without it.

Hazards that happen, so that no property forbids them (PROJECT.json lists them
without one): the lost last UPDATE of an execution (`queue.ts` 212), pending rows
that expired (205), the cron's memory of its own process only (340), two deletions
of the last two credentials (`admin-api.v2.controller.ts` 839), and the writes of a
row and of its application, one of which fails (448, 601). The models have all of
them, and the properties about their neighbourhood leave them aside by name:
`OrphansOnlyByMishap`, `EveryJobSettles`, `OneFirePerLife`, and `shaky`.

## 6. What is left out

* pg-boss (`pg-boss-adapter.service.ts`): an adapter of a library whose semantics
  are not in the repository.
* The composition of queue and jobs: what an environment's job does is
  `HandlerResolves` or `HandlerThrows` in the queue, and what it writes is
  `EnvironmentSync`, for executions that begin at any time; what it writes for
  one tenant is `SyncOds`.
* Starting Blocks: AWS lambdas, which are not in the repository, around the delta
  sync, which is `SyncOds`.
* Admin API v1 environments, vendors, claimsets, profiles and instances: requests
  that are forwarded, with no state of the application's own.
* Refresh polling (`admin-api-refresh-poll.util.ts`): its outcome is logged and
  decides nothing.
* Login, certification, the rest of the administration, front end, deployment:
  stateless, process I/O, or protocols of libraries. They are most of the lines
  of the repository.
* Cascades from `ods` and `edorg` to ownerships are in `TeamAccess`; `SyncOds` is
  about the ids that ownerships refer to.

## 7. Plan

Done: `JobLedger`, `JobQueue`, `Cron`, `SyncScheduler`, `SyncOds`,
`EnvironmentSync`, `TeamOwnerships`, `TeamAccess`, `Applications`; of each that is
checked by itself, type correctness and the properties section 4 lists are proved.

Left: `updateEnvironmentTenants` beside the synchronisation.
