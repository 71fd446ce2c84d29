---------------------------- MODULE EnvironmentSync ----------------------------
(***************************************************************************)
(* The synchronisation of one multi-tenant environment with its Admin API: *)
(* AdminApiSyncService.syncEnvironmentData() with the strategy that        *)
(* registers credentials, run by overlapping jobs, while an administrator  *)
(* changes the address of the Admin API and tenants come and go there.     *)
(* A row of the environment is written back whole from a copy that was     *)
(* read before the HTTP calls in between.                                  *)
(***************************************************************************)
EXTENDS Naturals, FiniteSets

CONSTANTS
  Tenant,     \* names of tenants
  Default,    \* the name that stands for a single-tenant Admin API
  Url,        \* addresses of Admin APIs
  NoUrl,      \* no address
  InitUrl,    \* address to begin with
  InitApis,   \* tenants of the Admin APIs to begin with
  Sync,       \* executions of the environment's job
  Budgets     \* what may happen: bounds the changes of tenants at the Admin
              \* APIs, the updates by an administrator, the requests and
              \* writes that fail, and names the executions that may overlap

Budget == [changes : Nat, updates : Nat, outages : Nat, syncs : SUBSET Sync]

ASSUME EnvironmentAssumption ==
  /\ Default \notin Tenant
  /\ NoUrl \notin Url
  /\ InitUrl \in Url
  /\ InitApis \subseteq [Url -> SUBSET Tenant]
  /\ Budgets \subseteq Budget

Name == Tenant \cup {Default}

VARIABLES
  api,     \* the tenants each Admin API names; none when it names no tenants
  env,     \* the row of the environment: address, credentials by tenant
  rows,    \* the number of EdfiTenant rows of a name
  shown,   \* the Admin API whose ODSs the rows of a name show
  token,   \* the cached token of a tenant: the Admin API that issued it
  job,     \* the executions and their local variables
  update,  \* the update in progress: the row it read, the address it was given
  steady,  \* history: the tenants every Admin API has had all along
  left     \* what may still happen

world   == <<api, steady>>
tables  == <<rows, shown>>
vars    == <<api, env, rows, shown, token, job, update, steady, left>>

\* Credentials are the Admin API they were registered at, by tenant.
Keys == UNION {[N -> Url] : N \in SUBSET Name}
Row  == [url : Url, keys : Keys]

Phase == {"idle", "bootstrap", "registered", "reload", "discover", "provision", "provisioned",
          "tenants", "insert", "read", "fetch", "persist"}

NewRow == [url |-> InitUrl, keys |-> [n \in {} |-> InitUrl]]

\* Local variables that are not read any more have the values of this record.
Idle == [phase |-> "idle", copy |-> NewRow, listed |-> {}, todo |-> {}, at |-> Default]

Job == [phase : Phase, copy : Row, listed : SUBSET Name, todo : SUBSET Name, at : Name]

NoUpdate == [on |-> FALSE, copy |-> NewRow, to |-> InitUrl]

Update == [on : BOOLEAN, copy : Row, to : Url]

EnvTypeOK ==
  /\ api \in [Url -> SUBSET Tenant]
  /\ env \in Row
  /\ rows \in [Name -> Nat]
  /\ shown \in [Name -> Url \cup {NoUrl}]
  /\ \A n \in Name : rows[n] = 0 => shown[n] = NoUrl
  /\ token \in [Name -> Url \cup {NoUrl}]
  /\ job \in [Sync -> Job]
  /\ \A s \in Sync : job[s].todo \subseteq job[s].listed
  /\ update \in Update
  /\ steady \subseteq {n \in Tenant : \A u \in Url : n \in api[u]}
  /\ left \in Budget

EnvInit ==
  /\ api \in InitApis
  /\ env = NewRow
  /\ rows = [n \in Name |-> 0]
  /\ shown = [n \in Name |-> NoUrl]
  /\ token = [n \in Name |-> NoUrl]
  /\ job = [s \in Sync |-> Idle]
  /\ update = NoUpdate
  /\ steady = {n \in Tenant : \A u \in Url : n \in api[u]}
  /\ left \in Budgets

-----------------------------------------------------------------------------
(* What the Admin API answers.                                              *)

\* resolveTenantNames(): an Admin API that names no tenants is single-tenant,
\* and knows that tenant.
Listed(u) == IF api[u] = {} THEN {Default} ELSE api[u]

Outage == left.outages > 0 /\ left' = [left EXCEPT !.outages = @ - 1]

\* One of the requests of a step may fail.
Mishap(failed) == IF failed THEN Outage ELSE UNCHANGED left

\* Credentials registered at u for names it knows, less those whose
\* registration fails, added to keys.
Registers(keys, u, names) ==
  {[n \in DOMAIN keys \cup done |-> IF n \in done THEN u ELSE keys[n]] :
     done \in SUBSET (names \cap Listed(u))}

-----------------------------------------------------------------------------
(* syncEnvironmentData().                                                   *)

Goes(s, to) == job' = [job EXCEPT ![s] = to]

Continues(s, phase) == Goes(s, [job[s] EXCEPT !.phase = phase])

\* To the next tenant of the loop.
NextTenant(s) == Goes(s, [job[s] EXCEPT !.phase = "tenants", !.copy = NewRow, !.at = Default])

\* The job finds its environment; bootstrapCredentials() has nothing to do when
\* there are credentials.
Begin(s) ==
  /\ s \in left.syncs
  /\ job[s].phase = "idle"
  /\ Goes(s, IF DOMAIN env.keys = {}
             THEN [Idle EXCEPT !.phase = "bootstrap", !.copy = env]
             ELSE [Idle EXCEPT !.phase = "reload"])
  /\ UNCHANGED <<world, env, tables, token, update, left>>

\* bootstrapCredentials(): refuses an Admin API that names no tenants.
Bootstrap(s) ==
  LET u == job[s].copy.url IN
  /\ job[s].phase = "bootstrap"
  /\ api[u] # {}
  /\ \E keys \in Registers(job[s].copy.keys, u, api[u]) :
       /\ Mishap(DOMAIN keys # api[u])
       /\ Goes(s, [job[s] EXCEPT !.phase = "registered", !.copy.keys = keys])
  /\ UNCHANGED <<world, env, tables, token, update>>

\* The whole row goes back.
SaveBootstrap(s) ==
  /\ job[s].phase = "registered"
  /\ env' = job[s].copy
  /\ Goes(s, [Idle EXCEPT !.phase = "reload"])
  /\ UNCHANGED <<world, tables, token, update, left>>

Reload(s) ==
  /\ job[s].phase = "reload"
  /\ Goes(s, [job[s] EXCEPT !.phase = "discover", !.copy = env])
  /\ UNCHANGED <<world, env, tables, token, update, left>>

\* getTenants(): the names, and a new token for every tenant with credentials.
Discover(s) ==
  LET u == job[s].copy.url
      names == Listed(u)
      able  == names \cap DOMAIN job[s].copy.keys
  IN
  /\ job[s].phase = "discover"
  /\ \E in \in SUBSET able :
       /\ Mishap(in # able)
       /\ token' = [n \in Name |-> IF n \in in THEN u ELSE token[n]]
  /\ Goes(s, [job[s] EXCEPT
       !.phase = IF names \subseteq DOMAIN job[s].copy.keys THEN "tenants" ELSE "provision",
       !.copy  = IF names \subseteq DOMAIN @.keys THEN NewRow ELSE @,
       !.listed = names, !.todo = names])
  /\ UNCHANGED <<world, env, tables, update>>

\* provisionCredentialsForNewTenants()
Provision(s) ==
  LET u   == job[s].copy.url
      new == job[s].listed \ DOMAIN job[s].copy.keys
  IN
  /\ job[s].phase = "provision"
  /\ \E keys \in Registers(job[s].copy.keys, u, new) :
       /\ Mishap(~ (new \cap Listed(u) \subseteq DOMAIN keys))
       /\ Goes(s, [job[s] EXCEPT !.phase = "provisioned", !.copy.keys = keys])
  /\ UNCHANGED <<world, env, tables, token, update>>

SaveProvisioned(s) ==
  /\ job[s].phase = "provisioned"
  /\ env' = job[s].copy
  /\ NextTenant(s)
  /\ UNCHANGED <<world, tables, token, update, left>>

-----------------------------------------------------------------------------
(* The loop over the tenants: what fails for one is logged, and the next is *)
(* taken.                                                                   *)

FindTenant(s) ==
  /\ job[s].phase = "tenants"
  /\ \E n \in job[s].todo :
       Goes(s, [job[s] EXCEPT !.phase = IF rows[n] = 0 THEN "insert" ELSE "read",
                              !.at = n, !.todo = @ \ {n}])
  /\ UNCHANGED <<world, env, tables, token, update, left>>

InsertTenant(s) ==
  /\ job[s].phase = "insert"
  /\ rows' = [rows EXCEPT ![job[s].at] = @ + 1]
  /\ Continues(s, "read")
  /\ UNCHANGED <<world, env, shown, token, update, left>>

\* syncTenantData(): the row with its environment, and credentials for it.
ReadTenant(s) ==
  LET n == job[s].at IN
  /\ job[s].phase = "read"
  /\ IF rows[n] > 0 /\ n \in DOMAIN env.keys
     THEN Goes(s, [job[s] EXCEPT !.phase = "fetch", !.copy = [NewRow EXCEPT !.url = env.url]])
     ELSE NextTenant(s)
  /\ UNCHANGED <<world, env, tables, token, update, left>>

\* Mutant: a token that is cached already is waited for, not used.
FetchOnce(s) ==
  LET n == job[s].at
      u == job[s].copy.url
  IN
  /\ job[s].phase = "fetch"
  /\ token[n] = NoUrl
  /\ token' = [token EXCEPT ![n] = u]
  /\ IF n \in Listed(u) THEN Continues(s, "persist") ELSE NextTenant(s)
  /\ UNCHANGED <<world, env, tables, update, left>>

\* getAdminApiClient(): the cached token, or one from a login; an Admin API
\* answers to tokens of its own.
FetchTenant(s) ==
  LET n == job[s].at
      u == job[s].copy.url
  IN
  /\ job[s].phase = "fetch"
  /\ token' = [token EXCEPT ![n] = IF @ = NoUrl THEN u ELSE @]
  /\ IF token'[n] = u /\ n \in Listed(u) THEN Continues(s, "persist") ELSE NextTenant(s)
  /\ UNCHANGED <<world, env, tables, update, left>>

\* processTenantData(): the row by name, created again if it is gone, and the
\* transaction of persistSyncTenant().
PersistTenant(s) ==
  LET n == job[s].at IN
  /\ job[s].phase = "persist"
  /\ rows' = [rows EXCEPT ![n] = IF @ = 0 THEN 1 ELSE @]
  /\ shown' = [shown EXCEPT ![n] = job[s].copy.url]
  /\ NextTenant(s)
  /\ UNCHANGED <<world, env, token, update, left>>

TenantFails(s) ==
  /\ job[s].phase \in {"insert", "read", "fetch", "persist"}
  /\ Outage
  /\ NextTenant(s)
  /\ UNCHANGED <<world, env, tables, token, update>>

\* Mutant: what hangs on a row outlives it.
RemoveOrphansOnly(s) ==
  /\ job[s].phase = "tenants"
  /\ job[s].todo = {}
  /\ rows' = [n \in Name |-> IF n \in job[s].listed THEN rows[n] ELSE 0]
  /\ Goes(s, Idle)
  /\ UNCHANGED <<world, env, shown, token, update, left>>

\* Mutant: rows whose synchronisation has failed count as orphans.
RemoveUnsynced(s) ==
  /\ job[s].phase = "tenants"
  /\ job[s].todo = {}
  /\ rows' = [n \in Name |-> IF n \in job[s].listed /\ shown[n] # NoUrl THEN rows[n] ELSE 0]
  /\ shown' = [n \in Name |-> IF n \in job[s].listed THEN shown[n] ELSE NoUrl]
  /\ Goes(s, Idle)
  /\ UNCHANGED <<world, env, token, update, left>>

\* Rows whose name was not listed go, with what hangs on them.
RemoveOrphans(s) ==
  /\ job[s].phase = "tenants"
  /\ job[s].todo = {}
  /\ rows' = [n \in Name |-> IF n \in job[s].listed THEN rows[n] ELSE 0]
  /\ shown' = [n \in Name |-> IF n \in job[s].listed THEN shown[n] ELSE NoUrl]
  /\ Goes(s, Idle)
  /\ UNCHANGED <<world, env, token, update, left>>

\* The execution ends with an error: always where the tenancy of the Admin API
\* is not known.
Abort(s) ==
  /\ job[s].phase # "idle"
  /\ IF job[s].phase = "bootstrap" /\ api[job[s].copy.url] = {}
     THEN UNCHANGED left
     ELSE job[s].phase \in {"bootstrap", "registered", "discover", "provisioned"} /\ Outage
  /\ Goes(s, Idle)
  /\ UNCHANGED <<world, env, tables, token, update>>

Executes(s) ==
  \/ Begin(s) \/ Bootstrap(s) \/ SaveBootstrap(s) \/ Reload(s) \/ Discover(s)
  \/ Provision(s) \/ SaveProvisioned(s)
  \/ FindTenant(s) \/ InsertTenant(s) \/ ReadTenant(s) \/ FetchTenant(s) \/ PersistTenant(s)
  \/ TenantFails(s) \/ RemoveOrphans(s) \/ Abort(s)

-----------------------------------------------------------------------------
(* Around the jobs.                                                         *)

\* The tenants of an Admin API change.
ApiChanges ==
  /\ left.changes > 0 /\ left' = [left EXCEPT !.changes = @ - 1]
  /\ \E u \in Url, T \in SUBSET Tenant :
       /\ T # api[u]
       /\ api' = [api EXCEPT ![u] = T]
       /\ steady' = steady \cap T
  /\ UNCHANGED <<env, tables, token, job, update>>

\* updateEnvironment() reads the row and validates the address it is given.
BeginUpdate ==
  /\ ~ update.on
  /\ left.updates > 0 /\ left' = [left EXCEPT !.updates = @ - 1]
  /\ \E u \in Url : update' = [on |-> TRUE, copy |-> env, to |-> u]
  /\ UNCHANGED <<world, env, tables, token, job>>

\* Mutant: credentials outlive a change of the address.
SaveUpdateKeepingKeys ==
  /\ update.on
  /\ env' = [update.copy EXCEPT !.url = update.to]
  /\ update' = NoUpdate
  /\ UNCHANGED <<world, tables, token, job, left>>

\* Credentials are for the address they were registered at.
SaveUpdate ==
  /\ update.on
  /\ env' = IF update.to = update.copy.url THEN update.copy
            ELSE [url |-> update.to, keys |-> [n \in {} |-> update.to]]
  /\ update' = NoUpdate
  /\ UNCHANGED <<world, tables, token, job, left>>

\* The time of a token is over.
TokenExpires(n) ==
  /\ token[n] # NoUrl
  /\ token' = [token EXCEPT ![n] = NoUrl]
  /\ UNCHANGED <<world, env, tables, job, update, left>>

EnvNext ==
  \/ \E s \in Sync : Executes(s)
  \/ ApiChanges \/ BeginUpdate \/ SaveUpdate
  \/ \E n \in Name : TokenExpires(n)

EnvSpec == EnvInit /\ [][EnvNext]_vars

\* The hourly tick starts jobs, and what runs goes on.
EnvFairSpec == EnvSpec /\ (\A s \in Sync : WF_vars(Executes(s))) /\ WF_vars(SaveUpdate)

-----------------------------------------------------------------------------
(* Properties.                                                              *)

\* Credentials are only ever stored, and used, with the address of the Admin
\* API they were registered at, whatever copies of the row are written back
\* (sb-environments-edfi.services.ts:494-507, v2-admin-api-version.strategy.ts:183-258).
CredentialsFitAddress ==
  \A e \in {env, update.copy} \cup {job[s].copy : s \in Sync} :
    \A n \in DOMAIN e.keys : e.keys[n] = e.url

\* No failure, no overlap and no change of address takes the rows of a tenant
\* that every Admin API has had all along (adminapi-sync.service.ts:345-361,
\* api-metadata-utils.ts:235-237).
FailuresRemoveNothing ==
  [][\A n \in steady : rows'[n] >= rows[n]]_vars

Mirrored(u) ==
  /\ {n \in Name : rows[n] > 0} = api[u]
  /\ \A n \in api[u] : n \in DOMAIN env.keys /\ shown[n] = u

\* When changes and failures end, the tables show the tenants of the Admin API,
\* each with credentials and the data of that Admin API, if it names any.
EventuallyMirrors == <>[](api[env.url] # {} => Mirrored(env.url))

=============================================================================
