------------------------------- MODULE TeamAccess -------------------------------
(***************************************************************************)
(* The ownership cache of one team in the instances of the API: who        *)
(* changes what it is built from, who tells the cache, and the loads in    *)
(* flight meanwhile.  The cache holds the promise of a load, stored before *)
(* its first read; TeamOwnerships says what a load computes.               *)
(***************************************************************************)
EXTENDS TeamOwnerships, Functions

CONSTANTS
  Engine,     \* the databases the API can be deployed on
  Instance,   \* processes of the API, a cache each
  Load,       \* loads that can be in flight or cached at one time
  NoLoad,     \* a cache without an entry, a slot without an instance
  RoleName,   \* roles an ownership can have
  RoleSets,   \* the sets of privileges a role can be given
  Trees,      \* the trees of organisations a synchronisation can leave
  InitRows,   \* ownership tables to begin with, on each database
  InitRole,   \* the roles to begin with
  InitTree,   \* the organisations to begin with
  MaxChanges, \* bounds the changes to ownerships, roles and organisations, on each
  MaxOutages  \* bounds reads that fail and processes that end for other reasons

ASSUME AccessAssumption ==
  /\ Engine \subseteq {"mssql", "pgsql"}
  /\ NoLoad \notin Load \cup Instance
  /\ RoleSets \subseteq SUBSET Privilege
  /\ InitRole \in [RoleName -> RoleSets]
  /\ InitTree \in Trees
  /\ \A e \in Engine : \A t \in InitRows[e] : \A x \in DOMAIN t :
       x \in (Resource \ Edorg) \cup DOMAIN InitTree /\ t[x] \in RoleName
  /\ MaxChanges \in [Engine -> Nat]
  /\ MaxOutages \in [Engine -> Nat]

\* A parent is a row of the same ODS, and above every organisation is a root.
ASSUME HierarchyAssumption ==
  \A t \in Trees :
    /\ DOMAIN t \subseteq Edorg
    /\ \A d \in DOMAIN t : t[d] # Root => t[d] \in DOMAIN t /\ OdsOf[t[d]] = OdsOf[d]
    /\ \A d \in DOMAIN t : \E x \in Above(t, d) : t[x] = Root

VARIABLES
  engine,  \* the database it is deployed on
  rows,    \* the ownership table of the team: a role by resource owned
  role,    \* the role table: privilegeIds by role
  tree,    \* the organisations: parent by organisation
  cache,   \* the load whose promise each instance caches
  load,    \* the loads
  owed,    \* changes an instance committed and has not yet told its cache of
  told,    \* history: changes the cache of an instance was told of
  changes, \* changes so far
  outages  \* failures so far

data == <<engine, rows, role, tree>>
vars == <<data, cache, load, owed, told, changes, outages>>

Change == Nat \ {0}

\* The resources there are; an ownership refers to one of them.
Present == (Resource \ Edorg) \cup DOMAIN tree

Idle ==
  [at |-> NoLoad, phase |-> "idle", awaited |-> FALSE, rows |-> <<>>, early |-> <<>>,
   tree |-> <<>>, result |-> {}, missed |-> {}, torn |-> FALSE]

AccessTypeOK ==
  /\ engine \in Engine
  /\ \A x \in DOMAIN rows : x \in Present /\ rows[x] \in RoleName
  /\ role \in [RoleName -> RoleSets]
  /\ tree \in Trees
  /\ cache \in [Instance -> Load \cup {NoLoad}]
  /\ DOMAIN load = Load
  /\ \A l \in Load :
       /\ load[l].at \in Instance \cup {NoLoad}
       /\ load[l].phase \in {"idle", "started", "owned", "edorgs", "done", "rejected"}
       /\ load[l].awaited \in BOOLEAN
       /\ load[l].missed \subseteq Change
       /\ load[l].phase = "idle" <=> load[l].at = NoLoad
  /\ \A i \in Instance : cache[i] # NoLoad => load[cache[i]].at = i
  /\ owed \in [Instance -> SUBSET [change : Change, by : {"reload", "flush"}]]
  /\ told \in [Instance -> SUBSET Change]
  /\ changes \in Nat
  /\ outages \in Nat

AccessInit ==
  /\ engine \in Engine
  /\ rows \in InitRows[engine]
  /\ role = InitRole
  /\ tree = InitTree
  /\ cache = [i \in Instance |-> NoLoad]
  /\ load = [l \in Load |-> Idle]
  /\ owed = [i \in Instance |-> {}]
  /\ told = [i \in Instance |-> {}]
  /\ changes = 0
  /\ outages = 0

-----------------------------------------------------------------------------
(* The cache of an instance.                                                *)

Running(l) == load[l].phase \in {"started", "owned", "edorgs"}

\* Instance i caches l, NoLoad for none.  Of what it cached, only a load that
\* runs with nobody awaiting it can have a further effect.
Store(i, l, loads) ==
  /\ cache' = [cache EXCEPT ![i] = l]
  /\ load' = [k \in Load |->
       IF k = cache[i] /\ k # l /\ (load[k].awaited \/ ~ Running(k)) THEN Idle ELSE loads[k]]

\* constructTeamOwnerships() is called and its promise stored.
StartLoad(i, awaited) ==
  \E l \in Load :
    /\ load[l].phase = "idle"
    /\ Store(i, l, [load EXCEPT ![l] =
         [Idle EXCEPT !.at = i, !.phase = "started", !.awaited = awaited]])

\* getTeamOwnershipCache() for a request that finds nothing cached.
Get(i) ==
  /\ cache[i] = NoLoad
  /\ StartLoad(i, TRUE)
  /\ UNCHANGED <<data, owed, told, changes, outages>>

\* Mutant: the promise of a failed load does not expire.
ExpireUnlessRejected(i) ==
  /\ cache[i] # NoLoad
  /\ load[cache[i]].phase # "rejected"
  /\ Store(i, NoLoad, load)
  /\ UNCHANGED <<data, owed, told, changes, outages>>

\* Thirty seconds after it was stored.
Expire(i) ==
  /\ cache[i] # NoLoad
  /\ Store(i, NoLoad, load)
  /\ UNCHANGED <<data, owed, told, changes, outages>>

\* The process ends and another takes its place: nothing cached, what it owed
\* its cache is gone with it.
Restart(i) ==
  /\ cache' = [cache EXCEPT ![i] = NoLoad]
  /\ load' = [l \in Load |-> IF load[l].at = i THEN Idle ELSE load[l]]
  /\ owed' = [owed EXCEPT ![i] = {}]

Crash(i) ==
  /\ outages < MaxOutages[engine]
  /\ outages' = outages + 1
  /\ Restart(i)
  /\ UNCHANGED <<data, told, changes>>

-----------------------------------------------------------------------------
(* The steps of a load.                                                     *)

Advance(l, next) == load' = [load EXCEPT ![l] = next]

\* A promise nobody caches has no further effect once it is settled.
Settle(l, next) == Advance(l, IF cache[load[l].at] = l THEN next ELSE Idle)

\* The ownerships with their roles, in an order the query does not fix.
ReadOwnerships(l) ==
  /\ load[l].phase = "started"
  /\ \E order \in Bijection(1..Cardinality(DOMAIN rows), DOMAIN rows) :
       Advance(l, [load[l] EXCEPT
         !.phase = "owned",
         !.rows = [j \in DOMAIN order |-> [on |-> order[j], privs |-> role[rows[order[j]]]]],
         !.early = tree])
  /\ UNCHANGED <<data, cache, owed, told, changes, outages>>

\* The database cannot take the ids of the next read.
Refused(l) ==
  \/ load[l].phase = "owned" /\ ~ BindsOwned(engine, load[l].rows)
  \/ /\ load[l].phase = "edorgs"
     /\ ~ Binds(engine, Entries(load[l].rows, load[l].early, load[l].tree))

ReadEdorgs(l) ==
  /\ load[l].phase = "owned"
  /\ ~ Refused(l)
  /\ Advance(l, [load[l] EXCEPT !.phase = "edorgs", !.tree = tree])
  /\ UNCHANGED <<data, cache, owed, told, changes, outages>>

Throwing(l) == Throws(load[l].rows, load[l].early, load[l].tree, Closure(tree))

Outcome(l) == Construct(load[l].rows, load[l].early, load[l].tree, Closure(tree))

Done(l) == [load[l] EXCEPT !.phase = "done", !.rows = <<>>, !.early = <<>>, !.tree = <<>>,
                           !.result = Outcome(l)]

Rejected(l) == [load[l] EXCEPT !.phase = "rejected", !.rows = <<>>, !.early = <<>>, !.tree = <<>>]

ReadClosure(l) ==
  /\ load[l].phase = "edorgs"
  /\ ~ Refused(l)
  /\ ~ Throwing(l)
  /\ Settle(l, Done(l))
  /\ UNCHANGED <<data, cache, owed, told, changes, outages>>

\* A database error: caught for a request, logged for a reload.
ReadFails(l) ==
  /\ Running(l)
  /\ outages < MaxOutages[engine]
  /\ outages' = outages + 1
  /\ Settle(l, Rejected(l))
  /\ UNCHANGED <<data, cache, owed, told, changes>>

\* SQL Server refuses the ids: a database error too, at every attempt.
Refuse(l) ==
  /\ Refused(l)
  /\ Settle(l, Rejected(l))
  /\ UNCHANGED <<data, cache, owed, told, changes, outages>>

\* The construction throws: caught for a request; a reload nobody awaits ends
\* the process, for the error is none of the database.
Throw(l) ==
  /\ load[l].phase = "edorgs"
  /\ ~ Refused(l)
  /\ Throwing(l)
  /\ IF load[l].awaited
     THEN Settle(l, Rejected(l)) /\ UNCHANGED <<cache, owed>>
     ELSE Restart(load[l].at)
  /\ UNCHANGED <<data, told, changes, outages>>

-----------------------------------------------------------------------------
(* The changes.                                                             *)

\* A change commits: every load since its start has missed it.
Commits(i, by) ==
  /\ changes < MaxChanges[engine]
  /\ changes' = changes + 1
  /\ load' = [l \in Load |->
       IF load[l].phase = "idle" THEN load[l]
       ELSE [load[l] EXCEPT !.missed = @ \cup {changes'},
                            !.torn = @ \/ (Running(l) /\ tree' # tree)]]
  /\ owed' = IF by = "nobody" THEN owed
             ELSE [owed EXCEPT ![i] = @ \cup {[change |-> changes', by |-> by]}]
  /\ UNCHANGED <<engine, cache, told, outages>>

\* OwnershipsGlobalService.create(): a resource is owned once by a team.
Create(i) ==
  /\ \E x \in Present \ DOMAIN rows, r \in RoleName :
       rows' = [y \in DOMAIN rows \cup {x} |-> IF y = x THEN r ELSE rows[y]]
  /\ UNCHANGED <<role, tree>>
  /\ Commits(i, "reload")

Update(i) ==
  /\ \E x \in DOMAIN rows, r \in RoleName :
       r # rows[x] /\ rows' = [rows EXCEPT ![x] = r]
  /\ UNCHANGED <<role, tree>>
  /\ Commits(i, "reload")

Remove(i) ==
  /\ \E x \in DOMAIN rows : rows' = [y \in DOMAIN rows \ {x} |-> rows[y]]
  /\ UNCHANGED <<role, tree>>
  /\ Commits(i, "reload")

\* RolesGlobalService.update(): no cache hears of it.
UpdateRole(i) ==
  /\ \E r \in RoleName, privs \in RoleSets :
       privs # role[r] /\ role' = [role EXCEPT ![r] = privs]
  /\ UNCHANGED <<rows, tree>>
  /\ Commits(i, "nobody")

\* Mutant: ownerships stay when their organisation is deleted.
SynchroniseKeepingRows(i) ==
  /\ \E t \in Trees : t # tree /\ tree' = t
  /\ UNCHANGED <<rows, role>>
  /\ Commits(i, "flush")

\* A synchronisation commits; ownerships go with the organisations it deletes.
Synchronise(i) ==
  /\ \E t \in Trees :
       /\ t # tree /\ tree' = t
       /\ rows' = [x \in {y \in DOMAIN rows : y \in Edorg => y \in DOMAIN t} |-> rows[x]]
  /\ UNCHANGED role
  /\ Commits(i, "flush")

Tell(i, c) ==
  /\ owed' = [owed EXCEPT ![i] = @ \ {c}]
  /\ told' = [told EXCEPT ![i] = @ \cup {c.change}]
  /\ UNCHANGED <<data, changes, outages>>

\* Mutant: a reload leaves a promise that is pending.
ReloadUnlessPending(i) ==
  \E c \in owed[i] :
    /\ c.by = "reload"
    /\ IF cache[i] # NoLoad /\ Running(cache[i]) THEN UNCHANGED <<cache, load>> ELSE StartLoad(i, FALSE)
    /\ Tell(i, c)

\* reloadTeamOwnershipCache(), not awaited, after the save.
Reload(i) ==
  \E c \in owed[i] :
    /\ c.by = "reload"
    /\ StartLoad(i, FALSE)
    /\ Tell(i, c)

\* flushOwnershipCache() after the synchronisation.
Flush(i) ==
  \E c \in owed[i] :
    /\ c.by = "flush"
    /\ Store(i, NoLoad, load)
    /\ Tell(i, c)

\* The synchronisation fails before it gets to its flush.
FlushLost(i) ==
  /\ outages < MaxOutages[engine]
  /\ outages' = outages + 1
  /\ \E c \in owed[i] : c.by = "flush" /\ owed' = [owed EXCEPT ![i] = @ \ {c}]
  /\ UNCHANGED <<data, cache, load, told, changes>>

-----------------------------------------------------------------------------

Alter(i) == Create(i) \/ Update(i) \/ Remove(i) \/ UpdateRole(i) \/ Synchronise(i)

LoadStep(l) ==
  \/ ReadOwnerships(l) \/ ReadEdorgs(l) \/ ReadClosure(l)
  \/ ReadFails(l) \/ Refuse(l) \/ Throw(l)

AccessNext ==
  \/ \E i \in Instance :
       Alter(i) \/ Get(i) \/ Expire(i) \/ Reload(i) \/ Flush(i) \/ FlushLost(i) \/ Crash(i)
  \/ \E l \in Load : LoadStep(l)

AccessSpec == AccessInit /\ [][AccessNext]_vars

\* An entry expires by the clock, whatever else goes on.
AccessFairSpec == AccessSpec /\ \A i \in Instance : WF_vars(Expire(i))

-----------------------------------------------------------------------------
(* Properties.                                                              *)

\* What a resource lies under, itself included.
Over(t, x) ==
  CASE x \in Tenant -> {x, EnvOf[x]}
    [] x \in Ods    -> {x, TenantOf[x], EnvOf[TenantOf[x]]}
    [] x \in Edorg  ->
         Above(t, x) \cup {OdsOf[x], TenantOf[OdsOf[x]], EnvOf[TenantOf[OdsOf[x]]]}
    [] OTHER        -> {x}

Asked(x) ==
  CASE x \in Env      -> {"env:read", "env:create-tenant"}
    [] x \in Tenant   -> {"tenant:read", "tenant:create-ods", "vendor:read"}
    [] x \in Ods      -> {"ods:read"}
    [] x \in Edorg    -> {"edorg:read", "application:write"}

\* An ownership gives its privileges on all that lies under what is owned, and
\* those that are inherited upward on all it lies under.
Entitled(owned, p, x) ==
  \E y \in owned :
    /\ p \in role[rows[y]]
    /\ y \in Over(tree, x) \/ (p \in Upward /\ x \in Over(tree, y))

\* Loads whose result an instance serves, and that missed no change.
Served == {l \in Load : load[l].phase = "done" /\ load[l].missed = {}}

\* A cached load has missed no change the cache was told of: after a reload or
\* a flush no request is decided by what was read before (auth.service.ts:624-664).
ToldMeansReloaded ==
  \A i \in Instance : cache[i] # NoLoad => load[cache[i]].missed \cap told[i] = {}

\* What a cache has been built with allows nothing the ownerships do not give
\* (auth.service.ts:154-622).
NeverMoreThanOwned ==
  \A l \in Served : \A x \in Present : \A p \in Asked(x) :
    Can(load[l].result, p, x) => Entitled(DOMAIN rows, p, x)

\* Ownerships of a tenant whose environment the team owns too.
Rivalled == {t \in Tenant : EnvOf[t] \in DOMAIN rows}

\* A load that comes to its end allows all the ownerships give, those of a
\* tenant under an owned environment left aside (auth.service.ts:154-622).  One
\* that is rejected allows nothing: ThrowsForAReason says when that happens.
AsMuchAsOwned ==
  \A l \in Served : \A x \in Present : \A p \in Asked(x) :
    Entitled(DOMAIN rows \ Rivalled, p, x) => Can(load[l].result, p, x)

\* Ownerships add up: each gives what it gives, whatever else is owned.  The
\* comment at auth.service.ts:208-210 says that the builder "adds new items or
\* new privileges to existing items".
OwnershipsAddUp ==
  \A l \in Served : \A x \in Present : \A p \in Asked(x) :
    Entitled(DOMAIN rows, p, x) => Can(load[l].result, p, x)

\* SQL Server: the ids of a team that owns two ODSs or organisations, or an ODS
\* with two roots, are too many for one of its reads.
TooMany(l) ==
  /\ engine = "mssql"
  /\ \E r \in Owned(load[l].rows, Ods \cup Edorg) :
       \/ \E s \in Owned(load[l].rows, Ods \cup Edorg) : r.on # s.on
       \/ \E x, y \in DOMAIN load[l].tree :
            /\ x # y /\ OdsOf[x] = r.on /\ OdsOf[y] = r.on
            /\ load[l].tree[x] = Root /\ load[l].tree[y] = Root

\* A load comes to its end, but for failures of the database, unless a
\* synchronisation committed between its reads, or the team owns an organisation
\* with less than the minimum, or, on SQL Server, too
\* much (helpers.ts:430-434, auth.service.ts:302-331, 488-499, 515-519).
ThrowsForAReason ==
  \A l \in Load :
    Refused(l) \/ (load[l].phase = "edorgs" /\ Throwing(l)) =>
      \/ load[l].torn
      \/ \E r \in Owned(load[l].rows, Edorg) : ~ (Minimum \subseteq r.privs)
      \/ TooMany(l)

\* Once the changes end, whatever an instance was not told of, what it caches
\* reflects them all (the thirty seconds of auth.service.ts:638 and 652).
EventuallyCurrent ==
  <>[](\A i \in Instance : cache[i] # NoLoad => load[cache[i]].missed = {})

=============================================================================
