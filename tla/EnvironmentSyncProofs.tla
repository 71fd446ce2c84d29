------------------------- MODULE EnvironmentSyncProofs -------------------------
(***************************************************************************)
(* What holds of the synchronisation for any tenants, addresses, number of *)
(* overlapping executions and budget of mishaps.                           *)
(***************************************************************************)
EXTENDS EnvironmentSync, TLAPS

Fits(e) == \A n \in DOMAIN e.keys : e.keys[n] = e.url

\* Phases in which the tenants are known.
Late == {"provision", "provisioned", "tenants", "insert", "read", "fetch", "persist"}

\* What an execution goes by: no tenant that was there all along is missing
\* from what it has listed, and its credentials are for its address.
JobOK(j) ==
  /\ j \in Job
  /\ j.todo \subseteq j.listed
  /\ Fits(j.copy)
  /\ j.phase \in Late => steady \subseteq j.listed

RowsOK ==
  /\ rows \in [Name -> Nat]
  /\ shown \in [Name -> Url \cup {NoUrl}]
  /\ \A n \in Name : rows[n] = 0 => shown[n] = NoUrl

WorldOK ==
  /\ api \in [Url -> SUBSET Tenant]
  /\ steady \subseteq {n \in Tenant : \A u \in Url : n \in api[u]}

JobsOK == job \in [Sync -> Job] /\ \A s \in Sync : JobOK(job[s])

EnvOK    == env \in Row /\ Fits(env)
UpdateOK == update \in Update /\ Fits(update.copy)
TokenOK  == token \in [Name -> Url \cup {NoUrl}]

EnvInv == WorldOK /\ EnvOK /\ RowsOK /\ TokenOK /\ JobsOK /\ UpdateOK /\ left \in Budget

-----------------------------------------------------------------------------

\* The invariant says what the runs check.
LEMMA EnvInvImplies == EnvInv => EnvTypeOK /\ CredentialsFitAddress
<1> SUFFICES ASSUME EnvInv PROVE EnvTypeOK /\ CredentialsFitAddress
  OBVIOUS
<1>1. EnvTypeOK
  BY DEF EnvInv, WorldOK, EnvOK, RowsOK, TokenOK, JobsOK, JobOK, UpdateOK, EnvTypeOK
<1>2. CredentialsFitAddress
  BY DEF EnvInv, EnvOK, JobsOK, JobOK, UpdateOK, CredentialsFitAddress, Fits
<1> QED BY <1>1, <1>2

\* A row without credentials.
LEMMA NoKeys ==
  ASSUME NEW u \in Url
  PROVE  LET e == [url |-> u, keys |-> [n \in {} |-> u]] IN e \in Row /\ Fits(e)
<1> DEFINE k == [n \in {} |-> u]
<1>1. k \in [{} -> Url]
  OBVIOUS
<1>2. {} \in SUBSET Name
  OBVIOUS
<1>3. k \in Keys
  BY <1>1, <1>2 DEF Keys
<1>4. DOMAIN k = {}
  OBVIOUS
<1> HIDE DEF k
<1>5. [url |-> u, keys |-> k] \in Row
  BY <1>3 DEF Row
<1>6. Fits([url |-> u, keys |-> k])
  BY <1>4 DEF Fits
<1> QED BY <1>5, <1>6 DEF k

\* A row just inserted is typed, and has no credentials.
LEMMA NewRowOK == NewRow \in Row /\ Fits(NewRow)
  BY NoKeys, EnvironmentAssumption DEF NewRow

\* A job that has not begun is in order.
LEMMA IdleOK == JobOK(Idle)
<1>1. Idle \in Job
  BY NewRowOK DEF Idle, Job, Phase, Name
<1>2. Idle.todo \subseteq Idle.listed /\ Idle.copy = NewRow /\ Idle.phase = "idle"
  BY DEF Idle
<1> QED BY <1>1, <1>2, NewRowOK DEF JobOK, Late

\* Registering credentials at the address of a row keeps the row in order.
LEMMA RegistersOK ==
  ASSUME WorldOK, NEW e \in Row, Fits(e), NEW names, NEW k \in Registers(e.keys, e.url, names)
  PROVE  [e EXCEPT !.keys = k] \in Row /\ Fits([e EXCEPT !.keys = k])
<1>1. PICK done \in SUBSET (names \cap Listed(e.url)) :
        k = [n \in DOMAIN e.keys \cup done |-> IF n \in done THEN e.url ELSE e.keys[n]]
  BY DEF Registers
<1>2. PICK N \in SUBSET Name : e.keys \in [N -> Url]
  BY DEF Row, Keys
<1>3. e.url \in Url
  BY DEF Row
<1>4. done \subseteq Name
  BY <1>3 DEF Listed, WorldOK, Name
<1>5. k \in [N \cup done -> Url]
  BY <1>1, <1>2, <1>3
<1>6. N \cup done \in SUBSET Name
  BY <1>4
<1>7. k \in Keys
  BY <1>5, <1>6 DEF Keys
<1>8. \A n \in DOMAIN k : k[n] = e.url
  BY <1>1 DEF Fits
<1>9. [e EXCEPT !.keys = k] \in Row
  BY <1>7 DEF Row
<1>10. [e EXCEPT !.keys = k].keys = k /\ [e EXCEPT !.keys = k].url = e.url
  BY DEF Row
<1> QED BY <1>8, <1>9, <1>10 DEF Fits

\* An execution moves, and what it goes by stays in order.
LEMMA Moves ==
  ASSUME JobsOK, NEW s \in Sync, NEW to, JobOK(to), Goes(s, to), UNCHANGED steady
  PROVE  JobsOK'
<1>1. to \in Job
  BY DEF JobOK
<1>2. job' \in [Sync -> Job]
  BY <1>1 DEF JobsOK, Goes
<1>3. ASSUME NEW p \in Sync PROVE JobOK(job[p])'
  <2>1. JobOK(job'[p])
    BY DEF JobsOK, Goes
  <2> QED BY <2>1 DEF JobOK
<1> QED BY <1>2, <1>3 DEF JobsOK

\* The same phase record but for its phase, within the phases of its kind.
LEMMA Rephased ==
  ASSUME NEW j, JobOK(j), NEW ph \in Phase, ph \in Late => j.phase \in Late
  PROVE  JobOK([j EXCEPT !.phase = ph])
<1> DEFINE i == [j EXCEPT !.phase = ph]
<1>1. i \in Job
  BY DEF JobOK, Job
<1>2. i.todo = j.todo /\ i.listed = j.listed /\ i.copy = j.copy /\ i.phase = ph
  BY DEF JobOK, Job
<1> HIDE DEF i
<1>3. JobOK(i)
  BY <1>1, <1>2 DEF JobOK
<1> QED BY <1>3 DEF i

\* Going on to the next tenant keeps a job in order.
LEMMA NextTenantOK ==
  ASSUME NEW j, JobOK(j), j.phase \in Late
  PROVE  JobOK([j EXCEPT !.phase = "tenants", !.copy = NewRow, !.at = Default])
<1> DEFINE i == [j EXCEPT !.phase = "tenants", !.copy = NewRow, !.at = Default]
<1>1. i \in Job
  BY NewRowOK DEF JobOK, Job, Phase, Name
<1>2. i.todo = j.todo /\ i.listed = j.listed /\ i.copy = NewRow
  BY DEF JobOK, Job
<1> HIDE DEF i
<1>3. JobOK(i)
  BY <1>1, <1>2, NewRowOK DEF JobOK
<1> QED BY <1>3 DEF i

\* An outage stays within its budget.
LEMMA OutageOK == left \in Budget /\ (Outage \/ UNCHANGED left) => left' \in Budget
  BY DEF Outage, Budget

\* No Admin API hides a tenant that it has had all along.
LEMMA ListedOK ==
  ASSUME WorldOK, NEW u \in Url
  PROVE  Listed(u) \subseteq Name /\ steady \subseteq Listed(u)
  BY DEF Listed, WorldOK, Name

\* What a step leaves alone stays in order.
LEMMA Unmoved ==
  ASSUME EnvInv
  PROVE  /\ UNCHANGED world => WorldOK'
         /\ UNCHANGED env => EnvOK'
         /\ UNCHANGED tables => RowsOK'
         /\ UNCHANGED token => TokenOK'
         /\ UNCHANGED update => UpdateOK'
         /\ UNCHANGED <<job, steady>> => JobsOK'
<1> USE DEF EnvInv
<1>1. UNCHANGED world => WorldOK'
  BY DEF world, WorldOK
<1>2. UNCHANGED env => EnvOK'
  BY DEF EnvOK, Fits
<1>3. UNCHANGED tables => RowsOK'
  BY DEF tables, RowsOK
<1>4. UNCHANGED token => TokenOK'
  BY DEF TokenOK
<1>5. UNCHANGED update => UpdateOK'
  BY DEF UpdateOK, Fits
<1>6. UNCHANGED <<job, steady>> => JobsOK'
  BY DEF JobsOK, JobOK, Fits
<1> QED BY <1>1, <1>2, <1>3, <1>4, <1>5, <1>6

\* A step of an execution that moves it to a state in order.
LEMMA Steps ==
  ASSUME EnvInv, NEW s \in Sync, NEW to, JobOK(to), Goes(s, to), UNCHANGED <<world, update>>,
         EnvOK', RowsOK', TokenOK', left' \in Budget
  PROVE  EnvInv'
  BY Unmoved, Moves DEF EnvInv, world

-----------------------------------------------------------------------------
(* One lemma for each step of an execution.                                 *)

\* The credentials an execution starts from are those of the row.
LEMMA BeginPreserves ==
  ASSUME EnvInv, NEW s \in Sync, Begin(s)
  PROVE  EnvInv'
<1> DEFINE b == [Idle EXCEPT !.phase = "bootstrap", !.copy = env]
<1> DEFINE r == [Idle EXCEPT !.phase = "reload"]
<1>1. JobOK(b)
  <2>1. Idle \in Job /\ Idle.todo \subseteq Idle.listed /\ env \in Row /\ Fits(env)
    BY IdleOK DEF JobOK, EnvInv, EnvOK
  <2>2. b \in Job
    BY <2>1 DEF Job, Phase
  <2>3. b.todo = Idle.todo /\ b.listed = Idle.listed /\ b.copy = env /\ b.phase = "bootstrap"
    BY <2>1 DEF Job
  <2> HIDE DEF b
  <2> QED BY <2>1, <2>2, <2>3 DEF JobOK, Late
<1>2. JobOK(r)
  BY IdleOK, Rephased DEF Phase, Late
<1>3. \E to : JobOK(to) /\ Goes(s, to)
  <2> HIDE DEF b, r
  <2>1. Goes(s, b) \/ Goes(s, r)
    BY DEF Begin, b, r
  <2> QED BY <1>1, <1>2, <2>1
<1> QED BY <1>3, Unmoved, Steps DEF Begin, EnvInv

\* An execution whose copy has got credentials.
LEMMA KeyedOK ==
  ASSUME WorldOK, NEW j, JobOK(j), NEW names,
         NEW k \in Registers(j.copy.keys, j.copy.url, names),
         NEW ph \in Phase, ph \in Late => j.phase \in Late
  PROVE  JobOK([j EXCEPT !.phase = ph, !.copy.keys = k])
<1> DEFINE c == [j.copy EXCEPT !.keys = k]
<1> DEFINE i == [j EXCEPT !.phase = ph, !.copy.keys = k]
<1>1. j \in Job /\ j.copy \in Row
  BY DEF JobOK, Job
<1>2. c \in Row /\ Fits(c)
  BY <1>1, RegistersOK DEF JobOK
<1>3. i = [j EXCEPT !.phase = ph, !.copy = c]
  BY <1>1 DEF Job
<1> HIDE DEF c, i
<1>4. i \in Job
  BY <1>1, <1>2, <1>3 DEF Job
<1>5. i.todo = j.todo /\ i.listed = j.listed /\ i.copy = c /\ i.phase = ph
  BY <1>1, <1>3 DEF Job
<1>6. JobOK(i)
  BY <1>2, <1>4, <1>5 DEF JobOK
<1> QED BY <1>6 DEF i

\* Registering at the configured address keeps the invariant.
LEMMA BootstrapPreserves ==
  ASSUME EnvInv, NEW s \in Sync, Bootstrap(s)
  PROVE  EnvInv'
<1>1. PICK k \in Registers(job[s].copy.keys, job[s].copy.url, api[job[s].copy.url]) :
        /\ Mishap(DOMAIN k # api[job[s].copy.url])
        /\ Goes(s, [job[s] EXCEPT !.phase = "registered", !.copy.keys = k])
  BY DEF Bootstrap
<1>2. JobOK([job[s] EXCEPT !.phase = "registered", !.copy.keys = k])
  BY KeyedOK DEF EnvInv, JobsOK, Phase, Late
<1>3. left' \in Budget
  BY <1>1, OutageOK DEF Mishap, EnvInv
<1> QED BY <1>1, <1>2, <1>3, Unmoved, Steps DEF Bootstrap

\* So does registering the new tenants.
LEMMA ProvisionPreserves ==
  ASSUME EnvInv, NEW s \in Sync, Provision(s)
  PROVE  EnvInv'
<1> DEFINE new == job[s].listed \ DOMAIN job[s].copy.keys
<1>1. PICK k \in Registers(job[s].copy.keys, job[s].copy.url, new) :
        /\ Mishap(~ (new \cap Listed(job[s].copy.url) \subseteq DOMAIN k))
        /\ Goes(s, [job[s] EXCEPT !.phase = "provisioned", !.copy.keys = k])
  BY DEF Provision
<1>2. JobOK([job[s] EXCEPT !.phase = "provisioned", !.copy.keys = k])
  BY KeyedOK DEF EnvInv, JobsOK, Phase, Late, Provision
<1>3. left' \in Budget
  BY <1>1, OutageOK DEF Mishap, EnvInv
<1> QED BY <1>1, <1>2, <1>3, Unmoved, Steps DEF Provision

\* The copy that is written back has credentials for its own address.
LEMMA SaveBootstrapPreserves ==
  ASSUME EnvInv, NEW s \in Sync, SaveBootstrap(s)
  PROVE  EnvInv'
<1>1. JobOK([Idle EXCEPT !.phase = "reload"])
  BY IdleOK, Rephased DEF Phase, Late
<1>2. EnvOK'
  BY DEF SaveBootstrap, EnvInv, JobsOK, JobOK, Job, EnvOK, Fits
<1> QED BY <1>1, <1>2, Unmoved, Steps DEF SaveBootstrap, EnvInv

\* So does writing back the copy of the row.
LEMMA SaveProvisionedPreserves ==
  ASSUME EnvInv, NEW s \in Sync, SaveProvisioned(s)
  PROVE  EnvInv'
<1>1. JobOK([job[s] EXCEPT !.phase = "tenants", !.copy = NewRow, !.at = Default])
  BY NextTenantOK DEF SaveProvisioned, EnvInv, JobsOK, Late
<1>2. EnvOK'
  BY DEF SaveProvisioned, EnvInv, JobsOK, JobOK, Job, EnvOK, Fits
<1> QED BY <1>1, <1>2, Unmoved, Steps DEF SaveProvisioned, NextTenant, EnvInv

\* So does reading the row again.
LEMMA ReloadPreserves ==
  ASSUME EnvInv, NEW s \in Sync, Reload(s)
  PROVE  EnvInv'
<1> DEFINE i == [job[s] EXCEPT !.phase = "discover", !.copy = env]
<1>1. JobOK(job[s]) /\ job[s] \in Job /\ env \in Row /\ Fits(env)
  BY DEF EnvInv, JobsOK, EnvOK
<1>2. i \in Job
  BY <1>1 DEF Job, Phase
<1>3. i.todo = job[s].todo /\ i.listed = job[s].listed /\ i.copy = env /\ i.phase = "discover"
  BY <1>1 DEF Job
<1>4. Goes(s, i)
  BY DEF Reload
<1> HIDE DEF i
<1>5. JobOK(i)
  BY <1>1, <1>2, <1>3 DEF JobOK, Late
<1> QED BY <1>4, <1>5, Unmoved, Steps DEF Reload, EnvInv

\* The tenants are known from here on.
LEMMA DiscoverPreserves ==
  ASSUME EnvInv, NEW s \in Sync, Discover(s)
  PROVE  EnvInv'
<1> DEFINE j == job[s]
           names == Listed(j.copy.url)
           ph == IF names \subseteq DOMAIN j.copy.keys THEN "tenants" ELSE "provision"
           c == IF names \subseteq DOMAIN j.copy.keys THEN NewRow ELSE j.copy
           i == [j EXCEPT !.phase = ph, !.copy = c, !.listed = names, !.todo = names]
<1>1. JobOK(j) /\ j \in Job /\ j.copy \in Row /\ j.copy.url \in Url
  BY DEF EnvInv, JobsOK, Job, Row
<1>2. names \subseteq Name /\ steady \subseteq names
  BY <1>1, ListedOK DEF EnvInv
<1>3. c \in Row /\ Fits(c) /\ ph \in Phase
  BY <1>1, NewRowOK DEF JobOK, Phase
<1>4. Goes(s, i)
  <2>1. Goes(s, [j EXCEPT !.phase = ph,
                          !.copy = IF names \subseteq DOMAIN @.keys THEN NewRow ELSE @,
                          !.listed = names, !.todo = names])
    BY DEF Discover
  <2>2. [j EXCEPT !.phase = ph,
                  !.copy = IF names \subseteq DOMAIN @.keys THEN NewRow ELSE @,
                  !.listed = names, !.todo = names] = i
    BY <1>1 DEF Job
  <2> QED BY <2>1, <2>2
<1>5. PICK in : /\ Mishap(in # names \cap DOMAIN j.copy.keys)
                /\ token' = [n \in Name |-> IF n \in in THEN j.copy.url ELSE token[n]]
  BY DEF Discover
<1>6. left' \in Budget
  BY <1>5, OutageOK DEF Mishap, EnvInv
<1>7. TokenOK'
  BY <1>1, <1>5 DEF TokenOK, EnvInv
<1>8. UNCHANGED <<world, env, tables, update>>
  BY DEF Discover
<1> HIDE DEF names, ph, c, j
<1>9. i \in Job
  BY <1>1, <1>2, <1>3 DEF Job
<1>10. i.todo = names /\ i.listed = names /\ i.copy = c
  BY <1>1 DEF Job
<1> HIDE DEF i
<1>11. JobOK(i)
  BY <1>2, <1>3, <1>9, <1>10 DEF JobOK
<1> QED BY <1>4, <1>6, <1>7, <1>8, <1>11, Unmoved, Steps

\* So does looking for the row of a tenant.
LEMMA FindTenantPreserves ==
  ASSUME EnvInv, NEW s \in Sync, FindTenant(s)
  PROVE  EnvInv'
<1>1. PICK n \in job[s].todo :
        Goes(s, [job[s] EXCEPT !.phase = IF rows[n] = 0 THEN "insert" ELSE "read",
                               !.at = n, !.todo = @ \ {n}])
  BY DEF FindTenant
<1> DEFINE ph == IF rows[n] = 0 THEN "insert" ELSE "read"
           i == [job[s] EXCEPT !.phase = ph, !.at = n, !.todo = job[s].todo \ {n}]
<1>2. JobOK(job[s]) /\ job[s] \in Job /\ n \in Name /\ ph \in Phase
  BY DEF EnvInv, JobsOK, Job, Phase
<1>3. Goes(s, i)
  BY <1>1, <1>2 DEF Job
<1> HIDE DEF ph
<1>4. i \in Job
  BY <1>2 DEF Job
<1>5. i.todo = job[s].todo \ {n} /\ i.listed = job[s].listed /\ i.copy = job[s].copy
  BY <1>2 DEF Job
<1> HIDE DEF i
<1>6. JobOK(i)
  BY <1>2, <1>4, <1>5 DEF JobOK, FindTenant, Late
<1> QED BY <1>3, <1>6, Unmoved, Steps DEF FindTenant, EnvInv

\* So does inserting it.
LEMMA InsertTenantPreserves ==
  ASSUME EnvInv, NEW s \in Sync, InsertTenant(s)
  PROVE  EnvInv'
<1>1. JobOK([job[s] EXCEPT !.phase = "read"])
  BY Rephased DEF InsertTenant, EnvInv, JobsOK, Phase, Late
<1>2. RowsOK'
  <2> DEFINE n == job[s].at
  <2>1. n \in Name
    BY DEF EnvInv, JobsOK, Job
  <2>2. rows' = [rows EXCEPT ![n] = rows[n] + 1] /\ shown' = shown
    BY DEF InsertTenant
  <2> HIDE DEF n
  <2> QED BY <2>1, <2>2 DEF EnvInv, RowsOK
<1> QED BY <1>1, <1>2, Unmoved, Steps DEF InsertTenant, Continues, EnvInv

\* The copy keeps the address only.
LEMMA ReadTenantPreserves ==
  ASSUME EnvInv, NEW s \in Sync, ReadTenant(s)
  PROVE  EnvInv'
<1> DEFINE c == [NewRow EXCEPT !.url = env.url]
           i == [job[s] EXCEPT !.phase = "fetch", !.copy = c]
           o == [job[s] EXCEPT !.phase = "tenants", !.copy = NewRow, !.at = Default]
<1>1. JobOK(job[s]) /\ job[s] \in Job /\ job[s].phase \in Late
  BY DEF EnvInv, JobsOK, ReadTenant, Late
<1>2. c \in Row /\ Fits(c)
  <2>1. NewRow \in Row /\ env.url \in Url
    BY NewRowOK DEF EnvInv, EnvOK, Row
  <2>2. c \in Row /\ c.keys = NewRow.keys
    BY <2>1 DEF Row
  <2>3. DOMAIN NewRow.keys = {}
    BY DEF NewRow
  <2> QED BY <2>2, <2>3 DEF Fits
<1>3. JobOK(o)
  BY <1>1, NextTenantOK
<1>4. JobOK(i)
  <2> HIDE DEF c
  <2>1. i \in Job
    BY <1>1, <1>2 DEF Job, Phase
  <2>2. i.todo = job[s].todo /\ i.listed = job[s].listed /\ i.copy = c
    BY <1>1 DEF Job
  <2> HIDE DEF i
  <2> QED BY <1>1, <1>2, <2>1, <2>2 DEF JobOK
<1>5. Goes(s, i) \/ Goes(s, o)
  BY DEF ReadTenant, NextTenant
<1> HIDE DEF i, o
<1> QED BY <1>3, <1>4, <1>5, Unmoved, Steps DEF ReadTenant, EnvInv

\* A tenant was fetched, or left for the next.
LEMMA FetchTenantPreserves ==
  ASSUME EnvInv, NEW s \in Sync, FetchTenant(s)
  PROVE  EnvInv'
<1> DEFINE i == [job[s] EXCEPT !.phase = "persist"]
           o == [job[s] EXCEPT !.phase = "tenants", !.copy = NewRow, !.at = Default]
<1>1. JobOK(job[s]) /\ job[s].phase \in Late
  BY DEF EnvInv, JobsOK, FetchTenant, Late
<1>2. JobOK(i) /\ JobOK(o)
  BY <1>1, Rephased, NextTenantOK DEF Phase
<1>3. Goes(s, i) \/ Goes(s, o)
  BY DEF FetchTenant, NextTenant, Continues
<1>4. TokenOK'
  <2>1. job[s].copy.url \in Url
    BY DEF EnvInv, JobsOK, Job, Row
  <2> QED BY <2>1 DEF FetchTenant, EnvInv, TokenOK
<1> HIDE DEF i, o
<1> QED BY <1>2, <1>3, <1>4, Unmoved, Steps DEF FetchTenant, EnvInv

\* So does writing what the tenant's Admin API answered.
LEMMA PersistTenantPreserves ==
  ASSUME EnvInv, NEW s \in Sync, PersistTenant(s)
  PROVE  EnvInv'
<1>1. JobOK([job[s] EXCEPT !.phase = "tenants", !.copy = NewRow, !.at = Default])
  BY NextTenantOK DEF PersistTenant, EnvInv, JobsOK, Late
<1>2. job[s].copy.url \in Url
  BY DEF EnvInv, JobsOK, Job, Row
<1>3. RowsOK'
  <2> DEFINE n == job[s].at
             u == job[s].copy.url
  <2>1. n \in Name
    BY DEF EnvInv, JobsOK, Job
  <2>2. /\ rows' = [rows EXCEPT ![n] = IF rows[n] = 0 THEN 1 ELSE rows[n]]
        /\ shown' = [shown EXCEPT ![n] = u]
    BY DEF PersistTenant
  <2> HIDE DEF n, u
  <2>3. u \in Url
    BY <1>2 DEF u
  <2> QED BY <2>1, <2>2, <2>3 DEF EnvInv, RowsOK
<1> QED BY <1>1, <1>3, Unmoved, Steps DEF PersistTenant, NextTenant, EnvInv

\* So does a tenant that fails.
LEMMA TenantFailsPreserves ==
  ASSUME EnvInv, NEW s \in Sync, TenantFails(s)
  PROVE  EnvInv'
<1>1. JobOK([job[s] EXCEPT !.phase = "tenants", !.copy = NewRow, !.at = Default])
  BY NextTenantOK DEF TenantFails, EnvInv, JobsOK, Late
<1>2. left' \in Budget
  BY OutageOK DEF TenantFails, EnvInv
<1> QED BY <1>1, <1>2, Unmoved, Steps DEF TenantFails, NextTenant

\* What goes leaves nothing behind.
LEMMA RemoveOrphansPreserves ==
  ASSUME EnvInv, NEW s \in Sync, RemoveOrphans(s)
  PROVE  EnvInv'
<1>1. RowsOK'
  BY DEF RemoveOrphans, EnvInv, RowsOK
<1> QED BY <1>1, IdleOK, Unmoved, Steps DEF RemoveOrphans, EnvInv

\* So does an execution that gives up.
LEMMA AbortPreserves ==
  ASSUME EnvInv, NEW s \in Sync, Abort(s)
  PROVE  EnvInv'
<1>1. left' \in Budget
  BY OutageOK DEF Abort, EnvInv
<1> QED BY <1>1, IdleOK, Unmoved, Steps DEF Abort

\* Every step of an execution keeps the invariant.
LEMMA ExecutesPreserves ==
  ASSUME EnvInv, NEW s \in Sync, Executes(s)
  PROVE  EnvInv'
  BY BeginPreserves, BootstrapPreserves, SaveBootstrapPreserves, ReloadPreserves,
     DiscoverPreserves, ProvisionPreserves, SaveProvisionedPreserves, FindTenantPreserves,
     InsertTenantPreserves, ReadTenantPreserves, FetchTenantPreserves, PersistTenantPreserves,
     TenantFailsPreserves, RemoveOrphansPreserves, AbortPreserves
  DEF Executes

-----------------------------------------------------------------------------
(* Around the jobs, and the theorems.                                       *)

\* A tenant that some Admin API loses is not one that was there all along.
LEMMA ApiChangesPreserves ==
  ASSUME EnvInv, ApiChanges
  PROVE  EnvInv'
<1>1. PICK u \in Url, T \in SUBSET Tenant :
        api' = [api EXCEPT ![u] = T] /\ steady' = steady \cap T
  BY DEF ApiChanges
<1>2. WorldOK'
  BY <1>1 DEF EnvInv, WorldOK
<1>3. JobsOK'
  BY <1>1 DEF ApiChanges, EnvInv, JobsOK, JobOK, Fits
<1>4. left' \in Budget
  BY DEF ApiChanges, EnvInv, Budget
<1> QED BY <1>2, <1>3, <1>4, Unmoved DEF ApiChanges, EnvInv

\* Every step of an update of the environment keeps it.
LEMMA UpdatesPreserve ==
  ASSUME EnvInv, BeginUpdate \/ SaveUpdate
  PROVE  EnvInv'
<1>1. CASE BeginUpdate
  <2>1. left' \in Budget
    BY <1>1 DEF BeginUpdate, EnvInv, Budget
  <2>2. UpdateOK'
    BY <1>1 DEF BeginUpdate, EnvInv, EnvOK, UpdateOK, Update, Fits
  <2> QED BY <1>1, <2>1, <2>2, Unmoved DEF BeginUpdate, EnvInv, world
<1>2. CASE SaveUpdate
  <2>1. UpdateOK'
    <3>1. update' = [on |-> FALSE, copy |-> NewRow, to |-> InitUrl]
      BY <1>2 DEF SaveUpdate, NoUpdate
    <3> QED BY <3>1, NewRowOK, EnvironmentAssumption DEF UpdateOK, Update, Fits
  <2>2. update.to \in Url /\ update.copy \in Row /\ Fits(update.copy)
    BY DEF EnvInv, UpdateOK, Update
  <2>3. EnvOK'
    <3> DEFINE e == [url |-> update.to, keys |-> [n \in {} |-> update.to]]
    <3>1. e \in Row /\ Fits(e)
      BY <2>2, NoKeys
    <3>2. env' = update.copy \/ env' = e
      BY <1>2 DEF SaveUpdate
    <3> HIDE DEF e
    <3> QED BY <2>2, <3>1, <3>2 DEF EnvOK, Fits
  <2> QED BY <1>2, <2>1, <2>3, Unmoved DEF SaveUpdate, EnvInv, world
<1> QED BY <1>1, <1>2

\* The expiry of a token keeps it.
LEMMA TokenExpiresPreserves ==
  ASSUME EnvInv, NEW n \in Name, TokenExpires(n)
  PROVE  EnvInv'
<1>1. TokenOK'
  BY DEF TokenExpires, EnvInv, TokenOK
<1> QED BY <1>1, Unmoved DEF TokenExpires, EnvInv, world

\* The invariant holds to begin with.
LEMMA EnvInitEstablishes == EnvInit => EnvInv
<1> SUFFICES ASSUME EnvInit PROVE EnvInv
  OBVIOUS
<1>1. WorldOK /\ left \in Budget /\ RowsOK /\ TokenOK
  BY EnvironmentAssumption DEF EnvInit, WorldOK, RowsOK, TokenOK
<1>2. EnvOK
  BY NewRowOK DEF EnvInit, EnvOK
<1>3. UpdateOK
  BY NewRowOK, EnvironmentAssumption DEF EnvInit, UpdateOK, Update, NoUpdate
<1>4. JobsOK
  BY IdleOK DEF EnvInit, JobsOK, JobOK
<1> QED BY <1>1, <1>2, <1>3, <1>4 DEF EnvInv

\* Every step keeps it.
LEMMA EnvNextPreserves == EnvInv /\ [EnvNext]_vars => EnvInv'
<1> SUFFICES ASSUME EnvInv, [EnvNext]_vars PROVE EnvInv'
  OBVIOUS
<1>1. CASE UNCHANGED vars
  BY <1>1, Unmoved DEF vars, EnvInv, world, tables
<1>2. CASE EnvNext
  BY <1>2, ExecutesPreserves, ApiChangesPreserves, UpdatesPreserve, TokenExpiresPreserves
  DEF EnvNext
<1> QED BY <1>1, <1>2

\* In every run, with any tenants and addresses, any number of overlapping
\* executions and any budget of mishaps, the invariant holds
\* (adminapi-sync.service.ts, v2-admin-api-version.strategy.ts).
THEOREM EnvInvariance == EnvSpec => []EnvInv
<1> QED BY EnvInitEstablishes, EnvNextPreserves, PTL DEF EnvSpec

\* The state is of its type: what hangs on a row of a tenant does not outlive it
\* (adminapi-sync.service.ts:345-361).
THEOREM EnvTyped == EnvSpec => []EnvTypeOK
<1> QED BY EnvInvariance, EnvInvImplies, PTL

\* Credentials are stored and used with the address they were registered at
\* (sb-environments-edfi.services.ts:494-507).
THEOREM CredentialsAreForTheirAddress == EnvSpec => []CredentialsFitAddress
<1> QED BY EnvInvariance, EnvInvImplies, PTL

\* What the action property says of one step.
Kept == \A n \in steady : rows'[n] >= rows[n]

\* Only the end of an execution takes rows, and it has listed every tenant that
\* was there all along.
LEMMA StepKeeps == EnvInv /\ [EnvNext]_vars => Kept
<1> SUFFICES ASSUME EnvInv, [EnvNext]_vars, NEW n \in steady PROVE rows'[n] >= rows[n]
  BY DEF Kept
<1> USE DEF EnvInv
<1>1. n \in Name /\ rows[n] \in Nat
  BY DEF WorldOK, RowsOK, Name
<1>2. CASE UNCHANGED rows
  BY <1>1, <1>2
<1>3. ASSUME NEW s \in Sync, InsertTenant(s) \/ PersistTenant(s) PROVE rows'[n] >= rows[n]
  BY <1>1, <1>3 DEF InsertTenant, PersistTenant, RowsOK
<1>4. ASSUME NEW s \in Sync, RemoveOrphans(s) PROVE rows'[n] >= rows[n]
  <2>1. n \in job[s].listed
    BY <1>4 DEF RemoveOrphans, JobsOK, JobOK, Late
  <2> QED BY <1>1, <1>4, <2>1 DEF RemoveOrphans
<1>5. UNCHANGED rows
      \/ \E s \in Sync : InsertTenant(s) \/ PersistTenant(s) \/ RemoveOrphans(s)
  BY DEF EnvNext, Executes, vars, tables, Begin, Bootstrap, SaveBootstrap, Reload, Discover,
         Provision, SaveProvisioned, FindTenant, ReadTenant, FetchTenant, TenantFails, Abort,
         ApiChanges, BeginUpdate, SaveUpdate, TokenExpires
<1> QED BY <1>2, <1>3, <1>4, <1>5

\* No failure, no overlap and no change of address takes the rows of a tenant
\* that every Admin API has had all along (adminapi-sync.service.ts:345-361).
THEOREM NothingRemovedByFailure == EnvSpec => FailuresRemoveNothing
<1>1. EnvInv /\ [EnvNext]_vars => [Kept]_vars
  BY StepKeeps
<1> QED BY <1>1, EnvInvariance, PTL DEF EnvSpec, FailuresRemoveNothing, Kept

=============================================================================
