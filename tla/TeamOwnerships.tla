----------------------------- MODULE TeamOwnerships -----------------------------
(***************************************************************************)
(* What a team may do with which resource: AuthService                     *)
(* .constructTeamOwnerships() and its helpers, as a function of the rows   *)
(* its three reads return.  A cache is the set of its grants: a privilege, *)
(* the tenant or environment it is cached under, and the id of a resource  *)
(* or All.  Resources form one hierarchy, environment over tenant over ODS *)
(* over education organisations; privileges of claimsets, vendors and      *)
(* profiles follow one rule and are one privilege here, and so are those   *)
(* of applications; integration providers stand alone and are left out.    *)
(***************************************************************************)
EXTENDS Naturals, Sequences, FiniteSets

CONSTANTS
  Env, Tenant, Ods, Edorg,  \* the resources a team can own
  EnvOf,    \* environment of a tenant
  TenantOf, \* tenant of an ODS
  OdsOf,    \* ODS of an education organisation
  Root,     \* parent of an organisation without one
  All,      \* id that stands for every id of a scope
  NoScope   \* scope of a privilege that is not cached by tenant or environment

Resource == Env \cup Tenant \cup Ods \cup Edorg

ASSUME ResourceAssumption ==
  /\ Env \cap (Tenant \cup Ods \cup Edorg) = {}
  /\ Tenant \cap (Ods \cup Edorg) = {}
  /\ Ods \cap Edorg = {}
  /\ EnvOf \in [Tenant -> Env]
  /\ TenantOf \in [Ods -> Tenant]
  /\ OdsOf \in [Edorg -> Ods]
  /\ All \notin Resource
  /\ Root \notin Edorg

Upward  == {"env:read", "tenant:read", "ods:read", "edorg:read", "vendor:read"}
Minimum == {"env:read", "tenant:read", "ods:read", "edorg:read"}

\* Privileges whose cache is keyed by tenant.
TenantKeyed ==
  {"tenant:create-ods", "ods:read", "edorg:read", "vendor:read", "application:write"}

Privilege ==
  TenantKeyed \cup {"env:read", "env:create-tenant", "tenant:read"}

\* The privileges cacheAccordingToPrivileges() looks for, by resource type.
PrivilegesOf ==
  [env         |-> {"env:read", "env:create-tenant"},
   tenant      |-> {"tenant:read", "tenant:create-ods"},
   ods         |-> {"ods:read"},
   edorg       |-> {"edorg:read"},
   application |-> {"application:write", "vendor:read"},
   vendor      |-> {"vendor:read"}]

(* A tree gives every organisation that exists its parent, or Root.         *)

\* Organisations above d, itself included: those of every set that has d and
\* the parents of what it has.
Above(tree, d) ==
  LET named == ({d} \cup {tree[x] : x \in DOMAIN tree}) \ {Root}
      upward(S) == d \in S /\ \A x \in S \cap DOMAIN tree : tree[x] \in S \cup {Root}
  IN {x \in named : \A S \in SUBSET named : upward(S) => x \in S}

\* The rows of edorg_closure: an ancestor and its descendant.
Closure(tree) ==
  {p \in Edorg \X Edorg : p[2] \in DOMAIN tree /\ p[1] # p[2] /\ p[1] \in Above(tree, p[2])}

-----------------------------------------------------------------------------
(* The helpers.                                                             *)

Grant(p, scope, id) == [privilege |-> p, scope |-> scope, id |-> id]

\* cacheAccordingToPrivileges() with addIdTo(): env and tenant say where a
\* privilege keyed by environment or by tenant goes.
Cached(type, privs, id, env, tenant) ==
  {Grant(p,
         IF p = "tenant:read" THEN env
         ELSE IF p \in TenantKeyed THEN tenant ELSE NoScope,
         id) : p \in privs \cap PrivilegesOf[type]}

\* initializeEdfiTenantPrivilegeCache(): a blanket true.
TenantBlanket(privs, t) == {Grant(p, t, All) : p \in privs \cap TenantKeyed}

\* initializeSbEnvironmentPrivilegeCache()
EnvBlanket(privs, e) ==
  {Grant("tenant:read", e, All) : p \in privs \cap {"tenant:read"}} \cup
  UNION {TenantBlanket(privs, t) : t \in {u \in Tenant : EnvOf[u] = e}}

\* cacheEdorgPrivilegesDownward() at one organisation.
OnEdorg(privs, d) ==
  LET t == TenantOf[OdsOf[d]] IN
  Cached("edorg", privs, d, EnvOf[t], t) \cup Cached("application", privs, d, EnvOf[t], t)

\* What an owned ODS or organisation gives on the tenant and environment of it.
OnTenantOf(privs, t) ==
  LET e == EnvOf[t] IN
  UNION {Cached("vendor", privs, All, e, t), Cached("tenant", privs, t, e, t),
         Cached("env", privs, e, e, t)}

\* Mutant: everything is inherited upward.
UpFromEdorgAll(privs, d, ancestors) ==
  LET t == TenantOf[OdsOf[d]] IN
  Cached("ods", privs, OdsOf[d], EnvOf[t], t) \cup OnTenantOf(privs, t)
  \cup UNION {Cached("edorg", privs, a, EnvOf[t], t) : a \in ancestors}

\* cacheEdorgPrivilegesUpward(), less the check of the minimum.
UpFromEdorg(privs, d, ancestors) ==
  LET up == privs \cap Upward
      t  == TenantOf[OdsOf[d]]
  IN Cached("ods", up, OdsOf[d], EnvOf[t], t) \cup OnTenantOf(up, t)
     \cup UNION {Cached("edorg", up, a, EnvOf[t], t) : a \in ancestors}

-----------------------------------------------------------------------------
(* constructTeamOwnerships() over rows in the order the database returns    *)
(* them: each [on |-> resource, privs |-> privilegeIds of the role].        *)

\* The rows whose role has privileges at all.
Held(rows) == {i \in DOMAIN rows : rows[i].privs # {}}

Owned(rows, kind) == {rows[i] : i \in {j \in Held(rows) : rows[j].on \in kind}}

\* The row of an environment sets the privileges of its tenants, the row of a
\* tenant adds to what is there.
TenantPrivileges(rows, t) ==
  LET mine == {i \in Held(rows) : rows[i].on \in {t, EnvOf[t]}}
  IN UNION {rows[i].privs : i \in {j \in mine :
       \A k \in mine : k > j => rows[k].on # EnvOf[t]}}

\* Mutant: an ODS gives nothing to its organisations.
EdorgPrivilegesOwn(rows, tree, d) == UNION {r.privs : r \in Owned(rows, {d})}

\* The organisations held directly: the roots of owned ODSs get its privileges.
EdorgPrivileges(rows, tree, d) ==
  LET roots == IF d \in DOMAIN tree /\ tree[d] = Root THEN {OdsOf[d]} ELSE {}
  IN UNION {r.privs : r \in Owned(rows, {d} \cup roots)}

\* Ids that stand in one placeholder.  PostgreSQL is given an array; SQL Server
\* is given them joined by commas, a string that it converts to a number: none
\* are 0, the id of nothing, one is itself, and with two the query fails,
\* whatever rows there are.
Binds(engine, ids) == engine = "mssql" => \A x, y \in ids : x = y

\* The second read takes the ids of the organisations and of the ODSs owned.
BindsOwned(engine, rows) ==
  \A kind \in {Edorg, Ods} : Binds(engine, {r.on : r \in Owned(rows, kind)})

\* Mutant: the ancestors of owned organisations are not loaded.
LoadedBelow(rows, tree) ==
  {d \in DOMAIN tree :
     \/ \E r \in Owned(rows, Edorg) : r.on \in DOMAIN tree /\ r.on \in Above(tree, d)
     \/ \E r \in Owned(rows, Ods) : r.on = OdsOf[d]}

\* Organisations loaded beside the owned ones.
Loaded(rows, tree) ==
  {d \in DOMAIN tree :
     \/ \E r \in Owned(rows, Edorg) :
          r.on \in DOMAIN tree /\ (r.on \in Above(tree, d) \/ d \in Above(tree, r.on))
     \/ \E r \in Owned(rows, Ods) : r.on = OdsOf[d]}

\* allEdorgs: rows of the second read over those that came with the ownerships.
AllEdorgs(rows, early, tree) ==
  LET owned  == {r.on : r \in Owned(rows, Edorg)}
      loaded == Loaded(rows, tree)
  IN [d \in (owned \cap DOMAIN early) \cup loaded |-> IF d \in loaded THEN tree[d] ELSE early[d]]

\* The organisations the walks down begin at, whose ids the last read takes.
Entries(rows, early, tree) ==
  {d \in DOMAIN AllEdorgs(rows, early, tree) : EdorgPrivileges(rows, tree, d) # {}}

\* The walk down from a reaches d and gathers the privileges on its way.
Downward(rows, tree, all, closure, a) ==
  LET reach == IF \E d \in Edorg : <<a, d>> \in closure
               THEN {d \in DOMAIN all : a \in Above(all, d)} ELSE {a}
      way(d) == {x \in Above(all, d) : a \in Above(all, x)}
  IN UNION {OnEdorg(UNION {EdorgPrivileges(rows, tree, x) : x \in way(d)}, d) : d \in reach}

AncestorsOf(closure, d) == {x \in Edorg : <<x, d>> \in closure}

\* An owned organisation needs the minimum, and its ancestors among the loaded.
Throws(rows, early, tree, closure) ==
  \E r \in Owned(rows, Edorg) :
    \/ ~ (Minimum \subseteq r.privs)
    \/ ~ (AncestorsOf(closure, r.on) \subseteq DOMAIN AllEdorgs(rows, early, tree))

\* What the owned environments give, with their tenants.
FromEnvs(rows) ==
  UNION {Cached("env", r.privs, r.on, r.on, NoScope) \cup EnvBlanket(r.privs, r.on) :
           r \in Owned(rows, Env)}

\* What the tenants owned, or of an owned environment, give.
FromTenants(rows) ==
  UNION {LET privs == TenantPrivileges(rows, t) IN
           Cached("tenant", privs, t, EnvOf[t], t) \cup TenantBlanket(privs, t)
           \cup Cached("env", privs \cap Upward, EnvOf[t], EnvOf[t], t) :
         t \in {u \in Tenant : Owned(rows, {u, EnvOf[u]}) # {}}}

\* What the owned ODSs give, their organisations apart.
FromOdss(rows) ==
  UNION {Cached("ods", r.privs, r.on, NoScope, TenantOf[r.on])
           \cup OnTenantOf(r.privs \cap Upward, TenantOf[r.on]) : r \in Owned(rows, Ods)}

\* The ownerships as they were with early, the organisations as in tree, the
\* closure rows read last, where nothing throws.
Construct(rows, early, tree, closure) ==
  LET all == AllEdorgs(rows, early, tree)
  IN UNION {
       FromEnvs(rows), FromTenants(rows), FromOdss(rows),
       UNION {Downward(rows, tree, all, closure, d) : d \in Entries(rows, early, tree)},
       UNION {UpFromEdorg(r.privs, r.on, AncestorsOf(closure, r.on)) : r \in Owned(rows, Edorg)}}

-----------------------------------------------------------------------------
(* abilityFromCache() and checkId(): what a cache lets its team do.         *)

Allows(cache, p, scope, id) ==
  \E g \in cache : g.privilege = p /\ g.scope = scope /\ g.id \in {id, All}

\* Privilege p on resource x, asked the way the routes ask.
Can(cache, p, x) ==
  CASE x \in Env      -> p \in PrivilegesOf.env /\ Allows(cache, p, NoScope, x)
    [] x \in Tenant   -> \/ p = "tenant:read" /\ Allows(cache, p, EnvOf[x], x)
                         \/ p = "tenant:create-ods" /\ Allows(cache, p, x, x)
                         \/ p = "vendor:read" /\ Allows(cache, p, x, All)
    [] x \in Ods      -> p = "ods:read" /\ Allows(cache, p, TenantOf[x], x)
    [] x \in Edorg    -> /\ p \in {"edorg:read", "application:write"}
                         /\ Allows(cache, p, TenantOf[OdsOf[x]], x)

=============================================================================
