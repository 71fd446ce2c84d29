--------------------------- MODULE ApplicationsProofs ---------------------------
(***************************************************************************)
(* For any ODSs, organisations, users and number of requests: applications *)
(* are given what was asked for, by those who control it, and keep a       *)
(* credential.                                                             *)
(***************************************************************************)
EXTENDS Applications, FiniteSetTheorems, TLAPS

AskType == [orgs : SUBSET Org, ods : SUBSET Ods, provider : BOOLEAN]

JobType ==
  [kind : Kind, step : Step, app : 0..MaxApps, client : 0..MaxClients, ask : AskType,
   valid : SUBSET Pair, looked : SUBSET EdorgRow, stores : SUBSET Ods, had : SUBSET Org,
   wrote : BOOLEAN, remove : {"no", "find", "done"}]

\* All that was asked for was found, unless something was found twice.
Whole(j) == Twice(j.looked) \/ Orgs(j.looked) = j.ask.orgs

\* What a request has found it was asked for; a PUT may give it.
Given(j) ==
  /\ Orgs(j.looked) \subseteq j.ask.orgs
  /\ j.kind = "putApplication" /\ j.step \in {"checked", "found", "write"} =>
       IF version = "v2" THEN j.ask.ods \X Orgs(j.looked) \subseteq j.valid
       ELSE j.stores \X Orgs(j.looked) \subseteq j.valid /\ Whole(j)
  /\ j.kind = "postApplication" /\ j.step = "write" => Whole(j)

\* An application is asked for at one ODS, a credential at one or more.
Asked(j) ==
  j.step # "idle" =>
    /\ j.kind \in {"putApplication", "postApplication"} => \E o \in Ods : j.ask.ods = {o}
    /\ j.kind \in {"putApiClient", "postApiClient"} => j.ask.ods \in Stored

\* A request names an application that was made, and a credential of it.
Names(j, made, cl) ==
  /\ j.app <= made.apps /\ j.client <= made.clients
  /\ j.remove = "find" => j.step # "idle"
  /\ j.app = 0 => ~ j.wrote /\ (j.step = "idle" \/ (j.kind = "postApplication" /\ j.step # "found"))
  /\ j.kind = "deleteApiClient" /\ j.step # "idle" /\ j.client \in DOMAIN cl =>
       cl[j.client].app = j.app

JobOK(j, made, cl) ==
  /\ j \in JobType
  /\ j.stores \X j.had \subseteq j.valid
  /\ Asked(j)
  /\ Given(j)
  /\ Names(j, made, cl)

JobsOK == job \in [Req -> JobType] /\ \A q \in Req : JobOK(job[q], posted, clients)

EdorgsOK == edorgs \subseteq EdorgRow /\ IsFiniteSet(edorgs)

AppsOK ==
  /\ apps = [a \in DOMAIN apps |-> apps[a]]
  /\ DOMAIN apps \subseteq 1..posted.apps
  /\ \A a \in DOMAIN apps : apps[a] \in [orgs : SUBSET Org, ods : SUBSET Ods]

ClientsOK ==
  /\ clients = [c \in DOMAIN clients |-> clients[c]]
  /\ DOMAIN clients \subseteq 1..posted.clients
  /\ \A c \in DOMAIN clients :
       clients[c] \in [app : AppId, ods : Stored] /\ clients[c].app \in DOMAIN apps

RowsOK ==
  /\ rows \subseteq [id : 1..posted.rows, app : AppId, ods : Ods, edorgIds : SUBSET EdorgRow]
  /\ \A r, s \in rows : r.id = s.id => r = s

CountsOK ==
  /\ version \in Version
  /\ left \in [requests : Nat, mishaps : Nat]
  /\ posted \in [apps : 0..MaxApps, clients : 0..MaxClients, rows : Nat]
  /\ shaky \subseteq AppId

\* Two requests at one application leave it shaky.
Alone ==
  \A p, q \in Req : \A a \in AppId : p # q /\ Busy(p, a) /\ Busy(q, a) => a \in shaky

\* Application a has a credential other than c.
Another(a, c, cl) == \E d \in DOMAIN cl : cl[d].app = a /\ d # c

\* Whoever deletes a credential has seen another, and it is there still.
Spares ==
  \A q \in Req :
    At(q, "deleteApiClient", "write") /\ job[q].app \in DOMAIN apps \ shaky =>
      Another(job[q].app, job[q].client, clients)

AppsInv ==
  /\ CountsOK /\ EdorgsOK /\ AppsOK /\ ClientsOK /\ RowsOK /\ JobsOK
  /\ Alone /\ Spares /\ LastCredentialStays

-----------------------------------------------------------------------------
(* Sets that are counted.                                                   *)

\* As many rows as organisations, at one ODS and of none twice, are all the
\* organisations.
LEMMA CountedAll ==
  ASSUME ApplicationsAssumption, NEW orgs \in SUBSET Org, NEW found,
         \A e \in found : e[2] \in orgs, ~ Twice(found),
         Cardinality(orgs) = Cardinality(found), OneOds(found)
  PROVE  Orgs(found) = orgs
<1> DEFINE f == [e \in found |-> e[2]]
<1>1. IsFiniteSet(orgs)
  BY FS_Subset DEF ApplicationsAssumption
<1>2. f \in Injection(found, orgs)
  <2>1. f \in [found -> orgs]
    OBVIOUS
  <2>2. PICK o \in Ods : \A e \in found : e[1] = o
    BY DEF OneOds
  <2>3. \A d, e \in found : f[d] = f[e] => d = e
    BY <2>2 DEF Twice
  <2> QED BY <2>1, <2>3 DEF Injection, IsInjective
<1>3. f \in Surjection(found, orgs)
  <2> HIDE DEF f
  <2> QED BY <1>1, <1>2, FS_Injection
<1>4. \A x \in orgs : \E e \in found : e[2] = x
  BY <1>3 DEF Surjection
<1> QED BY <1>4 DEF Orgs

\* With more than one credential there is another.
LEMMA MoreThanOne ==
  ASSUME AppsInv, NEW a, ~ LastCredential(a), NEW c
  PROVE  Another(a, c, clients)
<1>1. SUFFICES ASSUME ClientsOf(a) \subseteq {c} PROVE FALSE
  BY DEF Another, ClientsOf
<1>2. IsFiniteSet({c}) /\ Cardinality({c}) = 1
  BY FS_Singleton
<1>3. Cardinality(ClientsOf(a)) <= 1
  BY <1>1, <1>2, FS_Subset
<1> QED BY <1>3 DEF LastCredential

-----------------------------------------------------------------------------
(* A request moves.                                                         *)

\* No request is in order.
LEMMA IdleOK ==
  ASSUME ApplicationsAssumption,
         NEW made \in [apps : 0..MaxApps, clients : 0..MaxClients, rows : Nat], NEW cl
  PROVE  JobOK(Idle, made, cl) /\ Idle.step = "idle" /\ Idle.app = 0
<1>1. Idle \in JobType
  BY DEF Idle, NoAsk, JobType, AskType, Kind, Step, ApplicationsAssumption
<1>2. /\ Idle.step = "idle" /\ Idle.app = 0 /\ Idle.client = 0 /\ Idle.stores = {}
      /\ Idle.wrote = FALSE /\ Idle.kind = "putApplication" /\ Idle.remove = "no"
      /\ Idle.looked = {}
  BY DEF Idle
<1>3. Idle.stores \X Idle.had \subseteq Idle.valid
  BY <1>2
<1> QED BY <1>1, <1>2, <1>3 DEF JobOK, Asked, Given, Orgs, Names

\* The requests stay in order when one moves, credentials keep their
\* applications and ids are not given twice.
LEMMA JobMoves ==
  ASSUME AppsInv, NEW q \in Req, NEW to, JobOK(to, posted', clients'), Goes(q, to),
         version' = version,
         posted'.apps \in Nat, posted.apps <= posted'.apps,
         posted'.clients \in Nat, posted.clients <= posted'.clients,
         \A c \in DOMAIN clients' : c <= posted.clients =>
           c \in DOMAIN clients /\ clients'[c].app = clients[c].app
  PROVE  JobsOK'
<1>1. job' = [job EXCEPT ![q] = to] /\ job \in [Req -> JobType] /\ to \in JobType
  BY DEF AppsInv, JobsOK, Goes, JobOK
<1>2. posted.apps \in Nat /\ posted.clients \in Nat
  BY ApplicationsAssumption DEF AppsInv, CountsOK
<1>3. ASSUME NEW p \in Req PROVE JobOK(job'[p], posted', clients')
  <2>1. CASE p = q
    BY <2>1, <1>1
  <2>2. CASE p # q
    <3> DEFINE j == job[p]
    <3>1. job'[p] = j /\ JobOK(j, posted, clients)
      BY <1>1, <2>2 DEF AppsInv, JobsOK
    <3>2. j.app \in Nat /\ j.client \in Nat
      BY <3>1, ApplicationsAssumption DEF JobOK, JobType
    <3> HIDE DEF j
    <3>3. Names(j, posted', clients')
      BY <1>2, <3>1, <3>2 DEF JobOK, Names
    <3> QED BY <3>1, <3>3 DEF JobOK
  <2> QED BY <2>1, <2>2
<1>4. ASSUME NEW p \in Req PROVE JobOK(job[p], posted, clients)'
  BY <1>3, <1>4 DEF JobOK, Given
<1> QED BY <1>1, <1>4 DEF JobsOK

\* So they stay alone with their applications.
LEMMA AloneMoves ==
  ASSUME AppsInv, NEW q \in Req, NEW to, Goes(q, to), shaky \subseteq shaky',
         \A p \in Req : p # q /\ to.step # "idle" /\ Busy(p, to.app) => to.app \in shaky'
  PROVE  Alone'
<1>1. job' = [job EXCEPT ![q] = to] /\ job \in [Req -> JobType]
  BY DEF AppsInv, JobsOK, Goes
<1> SUFFICES ASSUME NEW p \in Req, NEW r \in Req, NEW a \in AppId, p # r,
                    Busy(p, a)', Busy(r, a)'
             PROVE  a \in shaky'
  BY DEF Alone
<1>2. \A o \in Req : o # q => job'[o] = job[o]
  BY <1>1
<1>3. \A o \in Req : o # q /\ Busy(o, a)' => Busy(o, a)
  BY <1>2 DEF Busy
<1>4. Busy(q, a)' => to.step # "idle" /\ to.app = a
  BY <1>1 DEF Busy
<1>5. CASE p # q /\ r # q
  BY <1>3, <1>5 DEF AppsInv, Alone
<1>6. CASE p = q
  BY <1>3, <1>4, <1>6
<1>7. CASE r = q
  BY <1>3, <1>4, <1>7
<1> QED BY <1>5, <1>6, <1>7

\* A request goes on with its application.
LEMMA GoesOn ==
  ASSUME AppsInv, NEW q \in Req, job[q].step # "idle", NEW to,
         to.step = "idle" \/ to.app = job[q].app
  PROVE  \A p \in Req : p # q /\ to.step # "idle" /\ Busy(p, to.app) => to.app \in shaky
<1> SUFFICES ASSUME NEW p \in Req, p # q, to.step # "idle", Busy(p, to.app)
             PROVE  to.app \in shaky
  OBVIOUS
<1>1. to.app = job[q].app /\ to.app # 0
  BY DEF Busy
<1>2. to.app \in AppId
  BY <1>1, ApplicationsAssumption DEF AppsInv, JobsOK, JobType, AppId
<1>3. Busy(q, to.app)
  BY <1>1 DEF Busy
<1> QED BY <1>2, <1>3 DEF AppsInv, Alone

\* A step that makes no application and no credential, and takes none.
LEMMA QuietKeeps ==
  ASSUME AppsInv, NEW q \in Req, NEW to, Goes(q, to), JobOK(to, posted, clients),
         UNCHANGED <<version, clients>>, DOMAIN apps' = DOMAIN apps,
         posted'.apps = posted.apps, posted'.clients = posted.clients,
         shaky \subseteq shaky',
         \A p \in Req : p # q /\ to.step # "idle" /\ Busy(p, to.app) => to.app \in shaky',
         /\ to.kind = "deleteApiClient" /\ to.step = "write" /\ to.app \in DOMAIN apps \ shaky'
         => Another(to.app, to.client, clients)
  PROVE  JobsOK' /\ Alone' /\ Spares' /\ LastCredentialStays'
<1>1. Alone'
  BY AloneMoves
<1>2. posted.apps \in Nat /\ posted.clients \in Nat
  BY ApplicationsAssumption DEF AppsInv, CountsOK
<1>3. JobOK(to, posted', clients')
  BY DEF JobOK, Names
<1>4. DOMAIN clients \subseteq 1..posted.clients
  BY DEF AppsInv, ClientsOK
<1>5. JobsOK'
  BY <1>2, <1>3, JobMoves
<1>6. \A a : ClientsOf(a)' = ClientsOf(a)
  BY DEF ClientsOf
<1>7. LastCredentialStays'
  BY <1>6 DEF AppsInv, LastCredentialStays
<1>8. job' = [job EXCEPT ![q] = to] /\ job \in [Req -> JobType]
  BY DEF AppsInv, JobsOK, Goes
<1>9. Spares'
  <2> SUFFICES ASSUME NEW p \in Req, At(p, "deleteApiClient", "write")',
                      job'[p].app \in DOMAIN apps' \ shaky'
               PROVE  Another(job'[p].app, job'[p].client, clients')
    BY DEF Spares, Another
  <2>1. CASE p = q
    BY <1>8, <2>1 DEF At
  <2>2. CASE p # q
    <3>1. job'[p] = job[p]
      BY <1>8, <2>2
    <3>2. At(p, "deleteApiClient", "write") /\ job[p].app \in DOMAIN apps \ shaky
      BY <3>1 DEF At
    <3> QED BY <3>1, <3>2 DEF AppsInv, Spares
  <2> QED BY <2>1, <2>2
<1> QED BY <1>1, <1>5, <1>7, <1>9

\* The tables a step leaves as they are.
LEMMA SameTables ==
  ASSUME AppsInv
  PROVE  /\ UNCHANGED edorgs => EdorgsOK'
         /\ UNCHANGED <<apps, posted>> => AppsOK'
         /\ UNCHANGED <<clients, posted>> /\ DOMAIN apps' = DOMAIN apps => ClientsOK'
         /\ UNCHANGED <<rows, posted>> => RowsOK'
         /\ UNCHANGED <<version, posted, left, shaky>> => CountsOK'
BY DEF AppsInv, EdorgsOK, AppsOK, ClientsOK, RowsOK, CountsOK

\* A step that reads.
LEMMA ReadOnlyKeeps ==
  ASSUME AppsInv, NEW q \in Req, job[q].step # "idle", NEW to, Goes(q, to), ReadOnly,
         JobOK(to, posted, clients), to.step = "idle" \/ to.app = job[q].app,
         /\ to.kind = "deleteApiClient" /\ to.step = "write" /\ to.app \in DOMAIN apps
         => Another(to.app, to.client, clients)
  PROVE  AppsInv'
<1>1. UNCHANGED <<version, edorgs, apps, clients, rows, posted, shaky, left>>
  BY DEF ReadOnly, api
<1>2. JobsOK' /\ Alone' /\ Spares' /\ LastCredentialStays'
  BY <1>1, GoesOn, QuietKeeps
<1> QED BY <1>1, <1>2, SameTables DEF AppsInv

\* A step that reads and answers.
LEMMA AnswerKeeps ==
  ASSUME AppsInv, NEW q \in Req, job[q].step # "idle", Answer(q), ReadOnly
  PROVE  AppsInv'
<1>1. JobOK(Idle, posted, clients) /\ Idle.step = "idle"
  BY IdleOK, ApplicationsAssumption DEF AppsInv, CountsOK
<1> QED BY <1>1, ReadOnlyKeeps DEF Answer

-----------------------------------------------------------------------------
(* The steps that read.                                                     *)

\* An application is at ODSs.
LEMMA StoresKnown ==
  ASSUME AppsInv, NEW a \in DOMAIN apps
  PROVE  Stores(a) \subseteq Ods /\ apps[a].orgs \subseteq Org
<1>1. apps[a].ods \subseteq Ods /\ apps[a].orgs \subseteq Org
  BY DEF AppsInv, AppsOK
<1>2. \A c \in ClientsOf(a) : clients[c].ods \subseteq Ods
  BY DEF AppsInv, ClientsOK, ClientsOf, Stored
<1> QED BY <1>1, <1>2 DEF Stores

\* What v3 has found and counted is what it was asked for, or there is something
\* twice.
LEMMA LookedAll ==
  ASSUME AppsInv, NEW j, JobOK(j, posted, clients),
         Counted(j.ask.orgs, Available(j.ask, j.stores)), OneOds(Available(j.ask, j.stores))
  PROVE  LET found == Available(j.ask, j.stores) IN
         Twice(found) \/ Orgs(found) = j.ask.orgs
<1> DEFINE found == Available(j.ask, j.stores)
<1>1. j.ask.orgs \in SUBSET Org
  BY DEF JobOK, JobType, AskType
<1>2. \A e \in found : e[2] \in j.ask.orgs
  BY DEF Available
<1>3. Cardinality(j.ask.orgs) = Cardinality(found)
  BY DEF Counted
<1> HIDE DEF found
<1>4. OneOds(found)
  BY DEF found
<1> QED BY <1>1, <1>2, <1>3, <1>4, CountedAll, ApplicationsAssumption DEF found

\* A PUT of v2 looks for the organisations.
LEMMA LooksV2 ==
  ASSUME AppsInv, NEW q \in Req, LookV2(q)
  PROVE  AppsInv'
<1> DEFINE j == job[q]
<1>1. JobOK(j, posted, clients) /\ j.step # "idle" /\ ReadOnly
  BY DEF LookV2, AppsInv, JobsOK, At
<1>2. CASE Answer(q)
  BY <1>1, <1>2, AnswerKeeps
<1>3. CASE ~ Answer(q)
  <2> DEFINE found == Available(j.ask, j.ask.ods)
             new == [j EXCEPT !.step = "looked", !.looked = found]
  <2>1. Goes(q, new)
    BY <1>3 DEF LookV2
  <2>2. found \subseteq EdorgRow /\ Orgs(found) \subseteq j.ask.orgs /\ j.kind = "putApplication"
    BY <1>1, <1>3 DEF LookV2, At, Available, Orgs, AppsInv, EdorgsOK
  <2> HIDE DEF found
  <2>3. /\ new \in JobType /\ new.step = "looked" /\ new.looked = found
        /\ new.kind = j.kind /\ new.app = j.app /\ new.client = j.client /\ new.ask = j.ask
        /\ new.valid = j.valid /\ new.stores = j.stores /\ new.had = j.had
        /\ new.wrote = j.wrote /\ new.remove = j.remove
    BY <1>1, <2>2 DEF JobOK, JobType, Step
  <2> HIDE DEF new
  <2>4. JobOK(new, posted, clients)
    BY <1>1, <2>2, <2>3 DEF JobOK, Asked, Given, Whole, Names
  <2> QED BY <1>1, <2>1, <2>2, <2>3, <2>4, ReadOnlyKeeps
<1> QED BY <1>2, <1>3

\* It checks the application as it is, and as it will be.
LEMMA ChecksV2 ==
  ASSUME AppsInv, NEW q \in Req, CheckV2(q)
  PROVE  AppsInv'
<1> DEFINE j == job[q]
<1>1. JobOK(j, posted, clients) /\ j.step # "idle" /\ ReadOnly
  BY DEF CheckV2, AppsInv, JobsOK, At
<1>2. CASE Answer(q)
  BY <1>1, <1>2, AnswerKeeps
<1>3. CASE ~ Answer(q)
  <2> DEFINE stores == Stores(j.app)
             had == apps[j.app].orgs
             new == [j EXCEPT !.step = "checked", !.stores = stores, !.had = had]
  <2>1. Goes(q, new)
    BY <1>3 DEF CheckV2
  <2>2. /\ stores \subseteq Ods /\ had \subseteq Org /\ stores \X had \subseteq j.valid
        /\ j.ask.ods \X Orgs(j.looked) \subseteq j.valid
        /\ version = "v2" /\ j.kind = "putApplication" /\ j.step = "looked" /\ j.app # 0
    BY <1>1, <1>3 DEF CheckV2, At, Controls, Stores, AppsInv, AppsOK, JobOK, Names
  <2> HIDE DEF stores, had
  <2>3. /\ new \in JobType /\ new.step = "checked" /\ new.stores = stores /\ new.had = had
        /\ new.kind = j.kind /\ new.app = j.app /\ new.client = j.client /\ new.ask = j.ask
        /\ new.valid = j.valid /\ new.looked = j.looked /\ new.wrote = j.wrote
        /\ new.remove = j.remove
    BY <1>1, <2>2 DEF JobOK, JobType, Step
  <2> HIDE DEF new
  <2>4. JobOK(new, posted, clients)
    BY <1>1, <2>2, <2>3 DEF JobOK, Asked, Given, Whole, Names
  <2> QED BY <1>1, <2>1, <2>2, <2>3, <2>4, ReadOnlyKeeps
<1> QED BY <1>2, <1>3

\* A PUT of v3 checks the application as it is.
LEMMA ChecksV3 ==
  ASSUME AppsInv, NEW q \in Req, CheckV3(q)
  PROVE  AppsInv'
<1> DEFINE j == job[q]
<1>1. JobOK(j, posted, clients) /\ j.step # "idle" /\ ReadOnly
  BY DEF CheckV3, AppsInv, JobsOK, At
<1>2. CASE Answer(q)
  BY <1>1, <1>2, AnswerKeeps
<1>3. CASE ~ Answer(q)
  <2> DEFINE stores == Stores(j.app)
             had == apps[j.app].orgs
             new == [j EXCEPT !.step = "looked", !.stores = stores, !.had = had]
  <2>1. Goes(q, new)
    BY <1>3 DEF CheckV3
  <2>2. /\ stores \subseteq Ods /\ had \subseteq Org /\ stores \X had \subseteq j.valid
        /\ j.kind = "putApplication"
    BY <1>1, <1>3, StoresKnown DEF CheckV3, At, Controls, AppsInv, AppsOK
  <2> HIDE DEF stores, had
  <2>3. /\ new \in JobType /\ new.step = "looked" /\ new.stores = stores /\ new.had = had
        /\ new.kind = j.kind /\ new.app = j.app /\ new.client = j.client /\ new.ask = j.ask
        /\ new.valid = j.valid /\ new.looked = j.looked /\ new.wrote = j.wrote
        /\ new.remove = j.remove
    BY <1>1, <2>2 DEF JobOK, JobType, Step
  <2> HIDE DEF new
  <2>4. JobOK(new, posted, clients)
    BY <1>1, <2>2, <2>3 DEF JobOK, Asked, Given, Whole, Names
  <2> QED BY <1>1, <2>1, <2>2, <2>3, <2>4, ReadOnlyKeeps
<1> QED BY <1>2, <1>3

\* It looks for the organisations, and counts them.
LEMMA LooksV3 ==
  ASSUME AppsInv, NEW q \in Req, LookV3(q)
  PROVE  AppsInv'
<1> DEFINE j == job[q]
<1>1. JobOK(j, posted, clients) /\ j.step # "idle" /\ ReadOnly
  BY DEF LookV3, AppsInv, JobsOK, At
<1>2. CASE Answer(q)
  BY <1>1, <1>2, AnswerKeeps
<1>3. CASE ~ Answer(q)
  <2> DEFINE found == Available(j.ask, j.stores)
             new == [j EXCEPT !.step = "checked", !.looked = found]
  <2>1. Goes(q, new)
    BY <1>3 DEF LookV3
  <2>2. /\ found \subseteq EdorgRow /\ Orgs(found) \subseteq j.ask.orgs
        /\ Twice(found) \/ Orgs(found) = j.ask.orgs
        /\ j.stores \X Orgs(found) \subseteq j.valid
        /\ version # "v2" /\ j.kind = "putApplication"
    BY <1>1, <1>3, LookedAll DEF LookV3, At, Available, Orgs, AppsInv, EdorgsOK, Controls
  <2> HIDE DEF found
  <2>3. /\ new \in JobType /\ new.step = "checked" /\ new.looked = found
        /\ new.kind = j.kind /\ new.app = j.app /\ new.client = j.client /\ new.ask = j.ask
        /\ new.valid = j.valid /\ new.stores = j.stores /\ new.had = j.had
        /\ new.wrote = j.wrote /\ new.remove = j.remove
    BY <1>1, <2>2 DEF JobOK, JobType, Step
  <2> HIDE DEF new
  <2>4. JobOK(new, posted, clients)
    BY <1>1, <2>2, <2>3 DEF JobOK, Asked, Given, Whole, Names
  <2> QED BY <1>1, <2>1, <2>2, <2>3, <2>4, ReadOnlyKeeps
<1> QED BY <1>2, <1>3

\* The row is looked for.
LEMMA FindsRow ==
  ASSUME AppsInv, NEW q \in Req, FindRow(q)
  PROVE  AppsInv'
<1> DEFINE j == job[q]
<1>1. JobOK(j, posted, clients) /\ j.step # "idle" /\ ReadOnly
  BY DEF FindRow, AppsInv, JobsOK, At
<1>2. CASE Answer(q)
  BY <1>1, <1>2, AnswerKeeps
<1>3. CASE ~ Answer(q)
  <2>1. PICK st \in {"found", "write"} : Goes(q, [j EXCEPT !.step = st])
    BY <1>3 DEF FindRow
  <2> DEFINE new == [j EXCEPT !.step = st]
  <2>2. j.kind = "putApplication" /\ j.step = "checked" /\ j.app # 0
    BY <1>1, <1>3 DEF FindRow, At, JobOK, Names
  <2>3. /\ new \in JobType /\ new.step = st /\ new.kind = j.kind /\ new.app = j.app
        /\ new.client = j.client /\ new.ask = j.ask /\ new.valid = j.valid
        /\ new.looked = j.looked /\ new.stores = j.stores /\ new.had = j.had
        /\ new.wrote = j.wrote /\ new.remove = j.remove
    BY <1>1 DEF JobOK, JobType, Step
  <2>4. Goes(q, new)
    BY <2>1
  <2> HIDE DEF new
  <2>5. JobOK(new, posted, clients)
    BY <1>1, <2>2, <2>3 DEF JobOK, Asked, Given, Whole, Names
  <2> QED BY <1>1, <2>2, <2>3, <2>4, <2>5, ReadOnlyKeeps
<1> QED BY <1>2, <1>3

\* A PUT of a credential is for who controls everything.
LEMMA ChecksPutClient ==
  ASSUME AppsInv, NEW q \in Req, CheckPutClient(q)
  PROVE  AppsInv'
<1> DEFINE j == job[q]
<1>1. JobOK(j, posted, clients) /\ j.step # "idle" /\ ReadOnly
  BY DEF CheckPutClient, AppsInv, JobsOK, At
<1>2. CASE Answer(q)
  BY <1>1, <1>2, AnswerKeeps
<1>3. CASE ~ Answer(q)
  <2>1. PICK st \in {"write"} : Goes(q, [j EXCEPT !.step = st])
    BY <1>3 DEF CheckPutClient
  <2> DEFINE new == [j EXCEPT !.step = st]
  <2>2. j.kind = "putApiClient" /\ j.app # 0
    BY <1>1, <1>3 DEF CheckPutClient, At, JobOK, Names
  <2>3. /\ new \in JobType /\ new.step = st /\ new.kind = j.kind /\ new.app = j.app
        /\ new.client = j.client /\ new.ask = j.ask /\ new.valid = j.valid
        /\ new.looked = j.looked /\ new.stores = j.stores /\ new.had = j.had
        /\ new.wrote = j.wrote /\ new.remove = j.remove
    BY <1>1 DEF JobOK, JobType, Step
  <2>4. Goes(q, new)
    BY <2>1
  <2> HIDE DEF new
  <2>5. JobOK(new, posted, clients)
    BY <1>1, <2>2, <2>3 DEF JobOK, Asked, Given, Whole, Names
  <2> QED BY <1>1, <2>2, <2>3, <2>4, <2>5, ReadOnlyKeeps
<1> QED BY <1>2, <1>3

\* The credentials are counted before one is deleted.
LEMMA CountsClients ==
  ASSUME AppsInv, NEW q \in Req, CountClients(q)
  PROVE  AppsInv'
<1> DEFINE j == job[q]
<1>1. JobOK(j, posted, clients) /\ j.step # "idle" /\ ReadOnly
  BY DEF CountClients, AppsInv, JobsOK, At
<1>2. CASE Answer(q)
  BY <1>1, <1>2, AnswerKeeps
<1>3. CASE ~ Answer(q)
  <2>1. PICK st \in {"write"} : Goes(q, [j EXCEPT !.step = st])
    BY <1>3 DEF CountClients
  <2> DEFINE new == [j EXCEPT !.step = st]
  <2>2. j.kind = "deleteApiClient" /\ j.app # 0 /\ Another(j.app, j.client, clients)
    BY <1>1, <1>3, MoreThanOne DEF CountClients, At, JobOK, Names
  <2>3. /\ new \in JobType /\ new.step = st /\ new.kind = j.kind /\ new.app = j.app
        /\ new.client = j.client /\ new.ask = j.ask /\ new.valid = j.valid
        /\ new.looked = j.looked /\ new.stores = j.stores /\ new.had = j.had
        /\ new.wrote = j.wrote /\ new.remove = j.remove
    BY <1>1 DEF JobOK, JobType, Step
  <2>4. Goes(q, new)
    BY <2>1
  <2> HIDE DEF new
  <2>5. JobOK(new, posted, clients)
    BY <1>1, <2>2, <2>3 DEF JobOK, Asked, Given, Whole, Names
  <2> QED BY <1>1, <2>2, <2>3, <2>4, <2>5, ReadOnlyKeeps
<1> QED BY <1>2, <1>3

\* A POST looks for the organisations, and who controls them.
LEMMA ChecksNew ==
  ASSUME AppsInv, NEW q \in Req, CheckNew(q)
  PROVE  AppsInv'
<1> DEFINE j == job[q]
<1>1. JobOK(j, posted, clients) /\ j.step # "idle" /\ ReadOnly
  BY DEF CheckNew, AppsInv, JobsOK, At
<1>2. CASE Answer(q)
  BY <1>1, <1>2, AnswerKeeps
<1>3. CASE ~ Answer(q)
  <2> DEFINE found == Available(j.ask, j.ask.ods)
             new == [j EXCEPT !.step = "write", !.looked = found]
  <2>1. Goes(q, new)
    BY <1>3 DEF CheckNew
  <2>2. /\ found \subseteq EdorgRow /\ j.kind = "postApplication" /\ j.step = "begin"
        /\ \A e \in found : e[2] \in j.ask.orgs
    BY <1>1, <1>3 DEF CheckNew, At, Available, AppsInv, EdorgsOK
  <2>5. OneOds(found)
    BY <1>1, <2>2 DEF JobOK, Asked, OneOds, Available
  <2>6. Cardinality(found) = Cardinality(j.ask.orgs)
    BY <1>3 DEF CheckNew
  <2> HIDE DEF found
  <2>7. Orgs(found) \subseteq j.ask.orgs /\ (Twice(found) \/ Orgs(found) = j.ask.orgs)
    <3>1. j.ask.orgs \in SUBSET Org
      BY <1>1 DEF JobOK, JobType, AskType
    <3> QED BY <2>2, <2>5, <2>6, <3>1, CountedAll, ApplicationsAssumption DEF Orgs
  <2>3. /\ new \in JobType /\ new.step = "write" /\ new.looked = found /\ new.kind = j.kind
        /\ new.app = j.app /\ new.client = j.client /\ new.ask = j.ask
        /\ new.valid = j.valid /\ new.stores = j.stores /\ new.had = j.had
        /\ new.wrote = j.wrote /\ new.remove = j.remove
    BY <1>1, <2>2 DEF JobOK, JobType, Step
  <2> HIDE DEF new
  <2>4. JobOK(new, posted, clients)
    BY <1>1, <2>2, <2>3, <2>7 DEF JobOK, Asked, Given, Whole, Names
  <2> QED BY <1>1, <2>1, <2>2, <2>3, <2>4, ReadOnlyKeeps
<1> QED BY <1>2, <1>3

\* A DELETE checks the application.
LEMMA ChecksGone ==
  ASSUME AppsInv, NEW q \in Req, CheckGone(q)
  PROVE  AppsInv'
<1> DEFINE j == job[q]
<1>1. JobOK(j, posted, clients) /\ j.step # "idle" /\ ReadOnly
  BY DEF CheckGone, AppsInv, JobsOK, At
<1>2. CASE Answer(q)
  BY <1>1, <1>2, AnswerKeeps
<1>3. CASE ~ Answer(q)
  <2> DEFINE stores == Stores(j.app)
             had == apps[j.app].orgs
             new == [j EXCEPT !.step = "write", !.stores = stores, !.had = had, !.remove = "find"]
  <2>1. Goes(q, new)
    BY <1>3 DEF CheckGone
  <2>2. /\ stores \subseteq Ods /\ had \subseteq Org /\ stores \X had \subseteq j.valid
        /\ j.kind = "deleteApplication" /\ j.app # 0
    BY <1>1, <1>3, StoresKnown DEF CheckGone, At, Controls, JobOK, Names
  <2> HIDE DEF stores, had
  <2>3. /\ new \in JobType /\ new.step = "write" /\ new.stores = stores /\ new.had = had
        /\ new.remove = "find" /\ new.kind = j.kind /\ new.app = j.app
        /\ new.client = j.client /\ new.ask = j.ask /\ new.valid = j.valid
        /\ new.looked = j.looked /\ new.wrote = j.wrote
    BY <1>1, <2>2 DEF JobOK, JobType, Step
  <2> HIDE DEF new
  <2>4. JobOK(new, posted, clients)
    BY <1>1, <2>2, <2>3 DEF JobOK, Asked, Given, Whole, Names
  <2> QED BY <1>1, <2>1, <2>2, <2>3, <2>4, ReadOnlyKeeps
<1> QED BY <1>2, <1>3

\* A credential is added or deleted by who controls the application.
LEMMA ChecksClient ==
  ASSUME AppsInv, NEW q \in Req, CheckClient(q)
  PROVE  AppsInv'
<1> DEFINE j == job[q]
<1>1. JobOK(j, posted, clients) /\ j.step # "idle" /\ ReadOnly
  BY DEF CheckClient, AppsInv, JobsOK
<1>2. CASE Answer(q)
  BY <1>1, <1>2, AnswerKeeps
<1>3. CASE ~ Answer(q)
  <2> DEFINE stores == Stores(j.app)
             had == apps[j.app].orgs
             st == IF j.kind = "postApiClient" THEN "write" ELSE "checked"
             new == [j EXCEPT !.step = st, !.stores = stores, !.had = had]
  <2>1. Goes(q, new)
    BY <1>3 DEF CheckClient
  <2>2. /\ stores \subseteq Ods /\ had \subseteq Org /\ stores \X had \subseteq j.valid
        /\ st \in {"write", "checked"} /\ (j.kind = "deleteApiClient" => st = "checked")
        /\ j.kind \in {"postApiClient", "deleteApiClient"} /\ j.app # 0
    BY <1>1, <1>3, StoresKnown DEF CheckClient, Controls, JobOK, Names
  <2> HIDE DEF stores, had, st
  <2>3. /\ new \in JobType /\ new.step = st /\ new.stores = stores /\ new.had = had
        /\ new.kind = j.kind /\ new.app = j.app /\ new.client = j.client /\ new.ask = j.ask
        /\ new.valid = j.valid /\ new.looked = j.looked /\ new.wrote = j.wrote
        /\ new.remove = j.remove
    BY <1>1, <2>2 DEF JobOK, JobType, Step
  <2> HIDE DEF new
  <2>4. JobOK(new, posted, clients)
    BY <1>1, <2>2, <2>3 DEF JobOK, Asked, Given, Whole, Names
  <2> QED BY <1>1, <2>1, <2>2, <2>3, <2>4, ReadOnlyKeeps
<1> QED BY <1>2, <1>3

-----------------------------------------------------------------------------
(* The steps that write.                                                    *)

\* A request that is answered is in order.
LEMMA AnsweredOK ==
  ASSUME AppsInv
  PROVE  JobOK(Idle, posted, clients) /\ Idle.step = "idle" /\ Idle.app = 0
BY IdleOK, ApplicationsAssumption DEF AppsInv, CountsOK

\* The organisations change, or nothing.
LEMMA EdorgsChangeKeeps ==
  ASSUME AppsInv, EdorgsChange
  PROVE  AppsInv'
<1>1. /\ UNCHANGED <<version, apps, clients, job, posted>>
      /\ shaky \subseteq shaky' /\ shaky' \subseteq AppId
  BY DEF EdorgsChange, api, AppsInv, CountsOK
<1>2. left \in [requests : Nat, mishaps : Nat] /\ left.mishaps > 0
      /\ left' = [left EXCEPT !.mishaps = @ - 1]
  BY DEF EdorgsChange, Mishap, AppsInv, CountsOK
<1>3. left' \in [requests : Nat, mishaps : Nat] /\ left'.mishaps \in Nat
  BY <1>2
<1>4. PICK o \in Ods :
        \/ /\ \E x \in Org : edorgs' = edorgs \cup {<<o, x, left'.mishaps>>}
           /\ UNCHANGED rows
        \/ /\ \E gone \in SUBSET {e \in edorgs : e[1] = o} : edorgs' = edorgs \ gone
           /\ \E gone \in SUBSET {r \in rows : r.ods = o} : rows' = rows \ gone
  BY DEF EdorgsChange
<1>5. EdorgsOK'
  <2>1. EdorgsOK
    BY DEF AppsInv
  <2>2. CASE edorgs' \subseteq edorgs
    BY <2>1, <2>2, FS_Subset DEF EdorgsOK
  <2>3. ASSUME NEW x \in Org, edorgs' = edorgs \cup {<<o, x, left'.mishaps>>} PROVE EdorgsOK'
    <3>1. <<o, x, left'.mishaps>> \in EdorgRow
      BY <1>3 DEF EdorgRow
    <3>2. IsFiniteSet(edorgs \cup {<<o, x, left'.mishaps>>})
      BY <2>1, FS_AddElement DEF EdorgsOK
    <3> QED BY <2>1, <2>3, <3>1, <3>2 DEF EdorgsOK
  <2> QED BY <1>4, <2>2, <2>3
<1>6. RowsOK'
  BY <1>1, <1>4 DEF AppsInv, RowsOK
<1>7. CountsOK'
  BY <1>1, <1>3 DEF AppsInv, CountsOK
<1>8. JobsOK' /\ Alone' /\ Spares' /\ LastCredentialStays'
  BY <1>1 DEF AppsInv, JobsOK, JobOK, Given, Names, Alone, Busy, Spares, Another, At,
              LastCredentialStays, ClientsOf
<1> QED BY <1>1, <1>5, <1>6, <1>7, <1>8, SameTables DEF AppsInv

\* A call fails, of the request or of the removal that it does not await.
LEMMA FailsKeeps ==
  ASSUME AppsInv, NEW q \in Req, Fails(q) \/ RemovalFails(q)
  PROVE  AppsInv'
<1> DEFINE j == job[q]
<1>1. /\ j.step # "idle" /\ UNCHANGED <<version, edorgs, apps, clients, rows, posted>>
      /\ JobOK(j, posted, clients)
  BY DEF Fails, RemovalFails, At, api, AppsInv, JobsOK
<1>2. j.wrote \/ j.kind = "deleteApplication" => j.app \in AppId
  BY <1>1, ApplicationsAssumption DEF JobOK, Names, JobType, AppId
<1>3. shaky \subseteq shaky' /\ shaky' \subseteq AppId
  BY <1>2 DEF Fails, RemovalFails, At, AppsInv, CountsOK
<1>4. ASSUME NEW step \in Step \ {"idle"}, NEW remove \in {"find", "done"},
             j.kind = "deleteApplication",
             Goes(q, [j EXCEPT !.step = step, !.remove = remove])
      PROVE  JobsOK' /\ Alone' /\ Spares' /\ LastCredentialStays'
  <2> DEFINE new == [j EXCEPT !.step = step, !.remove = remove]
  <2>1. /\ new \in JobType /\ new.step = step /\ new.remove = remove /\ new.kind = j.kind
        /\ new.app = j.app /\ new.client = j.client /\ new.ask = j.ask
        /\ new.valid = j.valid /\ new.looked = j.looked /\ new.stores = j.stores
        /\ new.had = j.had /\ new.wrote = j.wrote
    BY <1>1 DEF JobOK, JobType
  <2>2. Goes(q, new)
    BY <1>4
  <2> HIDE DEF new
  <2>3. JobOK(new, posted, clients)
    BY <1>1, <1>2, <1>4, <2>1, ApplicationsAssumption DEF JobOK, Asked, Given, Names, AppId
  <2>4. \A p \in Req : p # q /\ new.step # "idle" /\ Busy(p, new.app) => new.app \in shaky
    BY <1>1, <2>1, GoesOn
  <2> QED BY <1>1, <1>3, <1>4, <2>1, <2>2, <2>3, <2>4, QuietKeeps
<1>5. JobsOK' /\ Alone' /\ Spares' /\ LastCredentialStays'
  <2>1. CASE Goes(q, Idle)
    BY <1>1, <1>3, <2>1, AnsweredOK, QuietKeeps
  <2>2. CASE Fails(q) /\ ~ Goes(q, Idle)
    <3>1. /\ j.kind = "deleteApplication" /\ j.remove = "find"
          /\ Goes(q, [j EXCEPT !.step = "removing"])
      BY <2>2 DEF Fails, Answer, At
    <3>2. [j EXCEPT !.step = "removing"] = [j EXCEPT !.step = "removing", !.remove = "find"]
      BY <1>1, <3>1 DEF JobOK, JobType
    <3> QED BY <1>4, <3>1, <3>2 DEF Step
  <2>3. CASE RemovalFails(q)
    <3>1. /\ j.kind = "deleteApplication" /\ j.step = "write"
          /\ Goes(q, [j EXCEPT !.remove = "done"])
      BY <2>3 DEF RemovalFails, At
    <3>2. [j EXCEPT !.remove = "done"] = [j EXCEPT !.step = "write", !.remove = "done"]
      BY <1>1, <3>1 DEF JobOK, JobType
    <3> QED BY <1>4, <3>1, <3>2 DEF Step
  <2> QED BY <2>1, <2>2, <2>3
<1>6. left \in [requests : Nat, mishaps : Nat] /\ left.mishaps > 0
      /\ left' = [left EXCEPT !.mishaps = @ - 1]
  BY DEF Fails, RemovalFails, Mishap, AppsInv, CountsOK
<1>7. left' \in [requests : Nat, mishaps : Nat]
  BY <1>6
<1>8. CountsOK'
  BY <1>1, <1>3, <1>7 DEF AppsInv, CountsOK
<1> QED BY <1>1, <1>5, <1>8, SameTables DEF AppsInv

\* A request that has just arrived.
LEMMA ArrivesKeeps ==
  ASSUME AppsInv, NEW q \in Req, NEW new, JobOK(new, posted, clients), new.step = "begin",
         Arrives(q, new), UNCHANGED <<version, edorgs, apps, clients, rows, posted, left>>
  PROVE  AppsInv'
<1>1. Goes(q, new)
  BY DEF Arrives
<1>2. shaky' = IF \E p \in Req : Busy(p, new.app) THEN shaky \cup {new.app} ELSE shaky
  BY DEF Arrives
<1>3. new.app # 0 => new.app \in AppId
  BY ApplicationsAssumption DEF JobOK, JobType, AppId
<1>4. shaky \subseteq shaky' /\ shaky' \subseteq AppId
  BY <1>2, <1>3 DEF AppsInv, CountsOK, Busy
<1>5. \A p \in Req : p # q /\ new.step # "idle" /\ Busy(p, new.app) => new.app \in shaky'
  BY <1>2
<1>6. JobsOK' /\ Alone' /\ Spares' /\ LastCredentialStays'
  BY <1>1, <1>4, <1>5, QuietKeeps
<1>7. CountsOK'
  BY <1>4 DEF AppsInv, CountsOK
<1> QED BY <1>6, <1>7, SameTables DEF AppsInv

\* A request arrives, of whatever kind.
LEMMA ArriveKeeps ==
  ASSUME AppsInv, NEW q \in Req, Arrive(q)
  PROVE  AppsInv'
<1> DEFINE New(kind, valid, a, c, ask) ==
      [Idle EXCEPT !.kind = kind, !.step = "begin", !.valid = valid, !.app = a,
                   !.client = c, !.ask = ask]
<1>1. UNCHANGED <<version, edorgs, apps, clients, rows, posted, left>>
  BY DEF Arrive, api
<1>2. PICK valid \in Control :
        \/ \E ask \in Ask : Arrives(q, New("postApplication", valid, 0, 0, ask))
        \/ \E a \in DOMAIN apps :
             \/ \E ask \in Ask : Arrives(q, New("putApplication", valid, a, 0, ask))
             \/ Arrives(q, New("deleteApplication", valid, a, 0, NoAsk))
             \/ \E at \in AskStores :
                  Arrives(q, New("postApiClient", valid, a, 0, [NoAsk EXCEPT !.ods = at]))
             \/ \E c \in ClientsOf(a) :
                  \/ \E at \in AskStores :
                       Arrives(q, New("putApiClient", valid, a, c, [NoAsk EXCEPT !.ods = at]))
                  \/ Arrives(q, New("deleteApiClient", valid, a, c, NoAsk))
  BY DEF Arrive
<1>3. ASSUME NEW kind \in Kind, NEW a \in Nat, NEW c \in Nat, NEW ask \in AskType,
             kind \in {"putApplication", "postApplication"} => ask \in Ask,
             kind \in {"putApiClient", "postApiClient"} => ask.ods \in Stored,
             a = 0 => kind = "postApplication",
             a = 0 \/ a \in DOMAIN apps, c = 0 \/ c \in ClientsOf(a),
             Arrives(q, New(kind, valid, a, c, ask))
      PROVE  AppsInv'
  <2> DEFINE new == New(kind, valid, a, c, ask)
  <2>1. valid \subseteq Pair
    BY ApplicationsAssumption DEF ApplicationsAssumption
  <2>2. /\ posted \in [apps : 0..MaxApps, clients : 0..MaxClients, rows : Nat]
        /\ a <= posted.apps /\ c <= posted.clients
        /\ c \in DOMAIN clients => clients[c].app = a
    BY <1>3, ApplicationsAssumption DEF AppsInv, CountsOK, AppsOK, ClientsOK, ClientsOf
  <2>3. a \in 0..MaxApps /\ c \in 0..MaxClients
    BY <1>3, <2>2, ApplicationsAssumption
  <2>4. /\ new.kind = kind /\ new.step = "begin" /\ new.app = a /\ new.client = c
        /\ new.ask = ask /\ new.valid = valid /\ new.stores = {} /\ new.wrote = FALSE
        /\ new.remove = "no" /\ new.looked = {}
    BY DEF Idle
  <2>5. new \in JobType
    BY <2>1, <2>3, ApplicationsAssumption DEF Idle, JobType, Step
  <2>6. Arrives(q, new)
    BY <1>3
  <2> HIDE DEF New, new
  <2>7. JobOK(new, posted, clients)
    <3>1. Asked(new)
      BY <1>3, <2>4, ApplicationsAssumption DEF Asked, ApplicationsAssumption
    <3>2. Given(new) /\ Names(new, posted, clients) /\ new.stores \X new.had \subseteq new.valid
      BY <1>3, <2>2, <2>4 DEF Given, Orgs, Names
    <3> QED BY <2>5, <3>1, <3>2 DEF JobOK
  <2> QED BY <1>1, <2>4, <2>6, <2>7, ArrivesKeeps
<1> HIDE DEF New
<1>4. /\ NoAsk \in AskType /\ Ask \subseteq AskType
      /\ \A at \in AskStores : /\ [NoAsk EXCEPT !.ods = at] \in AskType
                              /\ [NoAsk EXCEPT !.ods = at].ods \in Stored
  <2>1. NoAsk \in AskType
    BY DEF NoAsk, AskType
  <2>2. ASSUME NEW ask \in Ask PROVE ask \in AskType
    <3>1. ask \in [orgs : (SUBSET Org) \ {{}}, ods : {{o} : o \in Ods}, provider : BOOLEAN]
      BY ApplicationsAssumption DEF ApplicationsAssumption
    <3>2. ask.ods \subseteq Ods
      BY <3>1
    <3> QED BY <3>1, <3>2 DEF AskType
  <2>3. ASSUME NEW at \in AskStores
        PROVE  [NoAsk EXCEPT !.ods = at] \in AskType /\ [NoAsk EXCEPT !.ods = at].ods \in Stored
    <3>1. at \in Stored /\ at \subseteq Ods
      BY ApplicationsAssumption DEF ApplicationsAssumption, Stored
    <3> QED BY <3>1 DEF NoAsk, AskType
  <2> QED BY <2>1, <2>2, <2>3
<1>5. \A a \in DOMAIN apps : a \in Nat /\ a # 0 /\ \A c \in ClientsOf(a) : c \in Nat
  BY ApplicationsAssumption DEF AppsInv, CountsOK, AppsOK, ClientsOK, ClientsOf
<1> QED BY <1>2, <1>3, <1>4, <1>5 DEF Kind

\* A row is saved.
LEMMA SaveRowKeeps ==
  ASSUME AppsInv, NEW q \in Req, SaveRow(q)
  PROVE  AppsInv'
<1> DEFINE j == job[q]
<1>1. /\ j.kind \in {"putApplication", "postApplication"} /\ j.step = "found"
      /\ UNCHANGED <<version, edorgs, apps, clients, shaky, left>>
      /\ posted' = [posted EXCEPT !.rows = @ + 1]
  BY DEF SaveRow, api
<1>2. JobOK(j, posted, clients)
  BY DEF AppsInv, JobsOK
<1>3. posted \in [apps : 0..MaxApps, clients : 0..MaxClients, rows : Nat]
  BY DEF AppsInv, CountsOK
<1>4. /\ posted' \in [apps : 0..MaxApps, clients : 0..MaxClients, rows : Nat]
      /\ posted'.apps = posted.apps /\ posted'.clients = posted.clients
      /\ posted'.rows = posted.rows + 1
  BY <1>1, <1>3
<1>5. PICK o \in {e[1] : e \in j.looked} :
        rows' = rows \cup {[id |-> posted.rows + 1, app |-> j.app, ods |-> o,
                            edorgIds |-> j.looked]}
  BY DEF SaveRow
<1>6. j.app \in AppId /\ j.looked \subseteq EdorgRow /\ o \in Ods
  BY <1>1, <1>2, <1>5, ApplicationsAssumption DEF JobOK, JobType, Names, AppId, EdorgRow
<1>7. RowsOK'
  <2> DEFINE r == [id |-> posted.rows + 1, app |-> j.app, ods |-> o, edorgIds |-> j.looked]
  <2>1. /\ r \in [id : 1..(posted.rows + 1), app : AppId, ods : Ods, edorgIds : SUBSET EdorgRow]
        /\ r.id = posted.rows + 1
    BY <1>3, <1>6
  <2>2. rows' = rows \cup {r}
    BY <1>5
  <2> HIDE DEF r
  <2>3. /\ rows \subseteq [id : 1..posted.rows, app : AppId, ods : Ods, edorgIds : SUBSET EdorgRow]
        /\ \A s, t \in rows : s.id = t.id => s = t
    BY DEF AppsInv, RowsOK
  <2>4. \A s \in rows : s \in [id : 1..(posted.rows + 1), app : AppId, ods : Ods,
                               edorgIds : SUBSET EdorgRow] /\ s.id # posted.rows + 1
    BY <1>3, <2>3
  <2> QED BY <1>4, <2>1, <2>2, <2>3, <2>4 DEF RowsOK
<1>8. JobsOK' /\ Alone' /\ Spares' /\ LastCredentialStays'
  <2>1. CASE Answer(q)
    BY <1>1, <1>4, <2>1, AnsweredOK, QuietKeeps DEF Answer
  <2>2. CASE ~ Answer(q)
    <3> DEFINE new == [j EXCEPT !.step = "write", !.wrote = TRUE]
    <3>1. Goes(q, new) /\ j.kind = "putApplication"
      BY <1>1, <2>2 DEF SaveRow
    <3>2. /\ new \in JobType /\ new.step = "write" /\ new.wrote = TRUE /\ new.kind = j.kind
          /\ new.app = j.app /\ new.client = j.client /\ new.ask = j.ask
          /\ new.valid = j.valid /\ new.looked = j.looked /\ new.stores = j.stores
          /\ new.had = j.had /\ new.remove = j.remove
      BY <1>2 DEF JobOK, JobType, Step
    <3> HIDE DEF new
    <3>3. JobOK(new, posted, clients)
      BY <1>1, <1>2, <3>1, <3>2 DEF JobOK, Asked, Given, Whole, Names
    <3>4. \A p \in Req : p # q /\ new.step # "idle" /\ Busy(p, new.app) => new.app \in shaky
      BY <1>1, <3>2, GoesOn
    <3> QED BY <1>1, <1>4, <3>1, <3>2, <3>3, <3>4, QuietKeeps
  <2> QED BY <2>1, <2>2
<1>9. AppsOK' /\ ClientsOK' /\ CountsOK'
  BY <1>1, <1>4 DEF AppsInv, AppsOK, ClientsOK, CountsOK
<1> QED BY <1>1, <1>7, <1>8, <1>9, SameTables DEF AppsInv

\* The application is put.
LEMMA PutApplicationKeeps ==
  ASSUME AppsInv, NEW q \in Req, PutApplication(q)
  PROVE  /\ AppsInv' /\ DOMAIN apps' = DOMAIN apps
         /\ job[q].app \in DOMAIN apps =>
              /\ apps'[job[q].app].orgs = Orgs(job[q].looked)
              /\ version = "v2" => apps'[job[q].app].ods = job[q].ask.ods
<1> DEFINE j == job[q]
           a == j.app
           new == [orgs |-> Orgs(j.looked),
                   ods  |-> IF version = "v2" THEN j.ask.ods ELSE apps[a].ods]
<1>1. /\ j.kind = "putApplication" /\ j.step = "write" /\ Goes(q, Idle)
      /\ UNCHANGED <<version, edorgs, clients, rows, posted, left>>
  BY DEF PutApplication, At, Answer
<1>2. JobOK(j, posted, clients)
  BY DEF AppsInv, JobsOK
<1>3. Orgs(j.looked) \subseteq Org /\ j.ask.ods \subseteq Ods /\ a \in AppId
  BY <1>1, <1>2, ApplicationsAssumption DEF JobOK, JobType, AskType, EdorgRow, Orgs, Names, AppId
<1>4. shaky \subseteq shaky' /\ shaky' \subseteq AppId
  BY <1>3 DEF PutApplication, AppsInv, CountsOK
<1>5. apps' = IF a \in DOMAIN apps THEN [apps EXCEPT ![a] = new] ELSE apps
  BY DEF PutApplication
<1>6. /\ new.orgs = Orgs(j.looked) /\ (version = "v2" => new.ods = j.ask.ods)
      /\ a \in DOMAIN apps => new \in [orgs : SUBSET Org, ods : SUBSET Ods]
  BY <1>3 DEF AppsInv, AppsOK
<1> HIDE DEF new
<1>7. AppsOK' /\ DOMAIN apps' = DOMAIN apps
  BY <1>1, <1>5, <1>6 DEF AppsInv, AppsOK
<1>8. JobsOK' /\ Alone' /\ Spares' /\ LastCredentialStays'
  BY <1>1, <1>4, <1>7, AnsweredOK, QuietKeeps
<1>9. CountsOK'
  BY <1>1, <1>4 DEF AppsInv, CountsOK
<1>10. AppsInv'
  BY <1>1, <1>7, <1>8, <1>9, SameTables DEF AppsInv
<1>11. a \in DOMAIN apps => apps'[a] = new
  BY <1>5
<1> QED BY <1>6, <1>7, <1>10, <1>11

\* The row is removed.
LEMMA RemoveRowKeeps ==
  ASSUME AppsInv, NEW q \in Req, RemoveRow(q)
  PROVE  AppsInv'
<1> DEFINE j == job[q]
<1>1. /\ j.kind = "deleteApplication" /\ j.remove = "find"
      /\ UNCHANGED <<version, edorgs, apps, clients, posted, shaky, left>>
  BY DEF RemoveRow, api
<1>2. JobOK(j, posted, clients)
  BY DEF AppsInv, JobsOK
<1>0. j.step # "idle"
  BY <1>1, <1>2 DEF JobOK, Names
<1>3. rows' \subseteq rows
  BY DEF RemoveRow, RowsOf
<1>4. RowsOK'
  BY <1>1, <1>3 DEF AppsInv, RowsOK
<1>5. JobsOK' /\ Alone' /\ Spares' /\ LastCredentialStays'
  <2>1. CASE Answer(q)
    BY <1>1, <2>1, AnsweredOK, QuietKeeps DEF Answer
  <2>2. CASE ~ Answer(q)
    <3> DEFINE new == [j EXCEPT !.remove = "done", !.wrote = TRUE]
    <3>1. Goes(q, new)
      BY <2>2 DEF RemoveRow
    <3>2. /\ new \in JobType /\ new.remove = "done" /\ new.wrote = TRUE /\ new.kind = j.kind
          /\ new.step = j.step /\ new.app = j.app /\ new.client = j.client /\ new.ask = j.ask
          /\ new.valid = j.valid /\ new.looked = j.looked /\ new.stores = j.stores
          /\ new.had = j.had
      BY <1>2 DEF JobOK, JobType
    <3> HIDE DEF new
    <3>3. j.app # 0
      BY <1>0, <1>1, <1>2 DEF JobOK, Names
    <3>4. JobOK(new, posted, clients)
      BY <1>0, <1>1, <1>2, <3>2, <3>3 DEF JobOK, Asked, Given, Whole, Names
    <3>5. \A p \in Req : p # q /\ new.step # "idle" /\ Busy(p, new.app) => new.app \in shaky
      BY <1>0, <3>2, GoesOn
    <3> QED BY <1>1, <3>1, <3>2, <3>4, <3>5, QuietKeeps
  <2> QED BY <2>1, <2>2
<1> QED BY <1>1, <1>4, <1>5, SameTables DEF AppsInv

\* Credentials of other applications stay: who spares one still does.
LEMMA SparesKept ==
  ASSUME AppsInv, NEW q \in Req, job[q].step # "idle", NEW to, Goes(q, to),
         ~ (to.kind = "deleteApiClient" /\ to.step = "write"), shaky \subseteq shaky',
         \A p \in Req : p # q /\ job[p].app \in DOMAIN apps' => job[p].app \in DOMAIN apps,
         \A c \in DOMAIN clients :
           clients[c].app # job[q].app => c \in DOMAIN clients' /\ clients'[c].app = clients[c].app
  PROVE  Spares'
<1>1. job' = [job EXCEPT ![q] = to] /\ job \in [Req -> JobType]
  BY DEF AppsInv, JobsOK, Goes
<1> SUFFICES ASSUME NEW p \in Req, At(p, "deleteApiClient", "write")',
                    job'[p].app \in DOMAIN apps' \ shaky'
             PROVE  Another(job'[p].app, job'[p].client, clients')
  BY DEF Spares, Another
<1>2. p # q
  BY <1>1 DEF At
<1>3. job'[p] = job[p]
  BY <1>1, <1>2
<1>4. At(p, "deleteApiClient", "write") /\ job[p].app \in DOMAIN apps \ shaky
  BY <1>2, <1>3 DEF At
<1>5. PICK d \in DOMAIN clients : clients[d].app = job[p].app /\ d # job[p].client
  BY <1>4 DEF AppsInv, Spares, Another
<1>6. job[p].app # job[q].app
  <2>1. SUFFICES ASSUME job[p].app = job[q].app PROVE FALSE
    OBVIOUS
  <2>2. job[p].app \in AppId /\ job[p].app # 0
    BY <1>4, ApplicationsAssumption DEF AppsInv, AppsOK, CountsOK, AppId
  <2>3. Busy(p, job[p].app) /\ Busy(q, job[p].app)
    BY <1>4, <2>1, <2>2 DEF Busy, At
  <2>4. job[p].app \in shaky
    BY <1>2, <2>2, <2>3 DEF AppsInv, Alone
  <2> QED BY <1>4, <2>4
<1> QED BY <1>3, <1>5, <1>6 DEF Another

\* The Admin API makes an application and a credential.
LEMMA PostApplicationKeeps ==
  ASSUME AppsInv, NEW q \in Req, PostApplication(q)
  PROVE  /\ AppsInv' /\ DOMAIN apps' = DOMAIN apps \cup {posted.apps + 1}
         /\ apps'[posted.apps + 1].orgs = job[q].ask.orgs
         /\ \A a \in DOMAIN apps : apps'[a] = apps[a]
<1> DEFINE j == job[q]
           a == posted.apps + 1
           c == posted.clients + 1
           app == [orgs |-> j.ask.orgs, ods |-> j.ask.ods]
           client == [app |-> a, ods |-> j.ask.ods]
<1>1. /\ j.kind = "postApplication" /\ j.step = "write" /\ a \in AppId /\ c \in ClientId
      /\ UNCHANGED <<version, edorgs, rows, shaky, left>>
      /\ posted' = [posted EXCEPT !.apps = a, !.clients = c]
      /\ apps' = [b \in DOMAIN apps \cup {a} |-> IF b = a THEN app ELSE apps[b]]
      /\ clients' = [d \in DOMAIN clients \cup {c} |-> IF d = c THEN client ELSE clients[d]]
  BY DEF PostApplication, At
<1>2. JobOK(j, posted, clients)
  BY DEF AppsInv, JobsOK
<1>3. posted \in [apps : 0..MaxApps, clients : 0..MaxClients, rows : Nat]
  BY DEF AppsInv, CountsOK
<1>4. /\ posted' \in [apps : 0..MaxApps, clients : 0..MaxClients, rows : Nat]
      /\ posted'.apps = a /\ posted'.clients = c /\ posted'.rows = posted.rows
      /\ posted.apps < a /\ posted.clients < c
  <2>1. a \in 0..MaxApps /\ c \in 0..MaxClients /\ posted.apps < a /\ posted.clients < c
    BY <1>1, <1>3, ApplicationsAssumption DEF AppId, ClientId
  <2>2. posted' = [posted EXCEPT !.apps = a, !.clients = c]
    BY <1>1
  <2> HIDE DEF a, c
  <2> QED BY <1>3, <2>1, <2>2
<1>5. /\ app.orgs = j.ask.orgs /\ app \in [orgs : SUBSET Org, ods : SUBSET Ods]
      /\ client.app = a /\ client \in [app : AppId, ods : Stored]
  BY <1>1, <1>2 DEF JobOK, Asked, JobType, AskType, Stored
<1>6. DOMAIN apps \subseteq 1..posted.apps /\ DOMAIN clients \subseteq 1..posted.clients
  BY DEF AppsInv, AppsOK, ClientsOK
<1> HIDE DEF app, client
<1>7. AppsOK'
  BY <1>1, <1>3, <1>4, <1>5, <1>6 DEF AppsInv, AppsOK
<1>8. ClientsOK'
  BY <1>1, <1>3, <1>4, <1>5, <1>6 DEF AppsInv, ClientsOK
<1>9. RowsOK' /\ CountsOK' /\ EdorgsOK'
  BY <1>1, <1>4 DEF AppsInv, RowsOK, CountsOK, EdorgsOK
<1>10. \A d \in DOMAIN clients : d \in DOMAIN clients' /\ clients'[d] = clients[d]
  BY <1>1, <1>3, <1>6
<1>11. \A d \in DOMAIN clients' : d <= posted.clients =>
         d \in DOMAIN clients /\ clients'[d].app = clients[d].app
  BY <1>1, <1>3, <1>4
<1>12. ASSUME NEW p \in Req PROVE job[p].app # a
  <2>1. JobOK(job[p], posted, clients)
    BY DEF AppsInv, JobsOK
  <2> QED BY <1>3, <2>1, ApplicationsAssumption DEF JobOK, JobType, Names
<1>13. PICK to : /\ Goes(q, to) /\ JobOK(to, posted', clients')
                 /\ to.step = "idle" \/ (to.kind = "postApplication" /\ to.app = a)
  <2>1. CASE Answer(q)
    <3>1. JobOK(Idle, posted', clients') /\ Idle.step = "idle"
      BY <1>4, IdleOK, ApplicationsAssumption
    <3> QED BY <2>1, <3>1 DEF Answer
  <2>2. CASE ~ Answer(q)
    <3> DEFINE new == [j EXCEPT !.step = "found", !.app = a, !.wrote = TRUE]
    <3>1. Goes(q, new)
      BY <2>2 DEF PostApplication
    <3>2. a \in 0..MaxApps /\ a # 0
      BY <1>1, ApplicationsAssumption DEF AppId
    <3>3. /\ new \in JobType /\ new.step = "found" /\ new.app = a /\ new.wrote = TRUE
          /\ new.kind = j.kind /\ new.client = j.client /\ new.ask = j.ask
          /\ new.valid = j.valid /\ new.looked = j.looked /\ new.stores = j.stores
          /\ new.had = j.had /\ new.remove = j.remove
      BY <1>2, <3>2 DEF JobOK, JobType, Step
    <3> HIDE DEF new
    <3>4. j.client <= posted'.clients
      BY <1>2, <1>3, <1>4, ApplicationsAssumption DEF JobOK, JobType, Names
    <3>5. JobOK(new, posted', clients')
      BY <1>1, <1>2, <1>4, <3>2, <3>3, <3>4 DEF JobOK, Asked, Given, Whole, Names
    <3> QED BY <1>1, <3>1, <3>3, <3>5
  <2> QED BY <2>1, <2>2
<1>14. JobsOK'
  <2>1. /\ posted.apps \in Nat /\ posted'.apps \in Nat /\ posted.apps <= posted'.apps
        /\ posted.clients \in Nat /\ posted'.clients \in Nat /\ posted.clients <= posted'.clients
    BY <1>3, <1>4, ApplicationsAssumption
  <2> QED BY <1>1, <1>11, <1>13, <2>1, JobMoves
<1>15. Alone'
  BY <1>1, <1>12, <1>13, AloneMoves DEF Busy
<1>16. Spares'
  BY <1>1, <1>10, <1>12, <1>13, SparesKept
<1>17. LastCredentialStays'
  <2> SUFFICES ASSUME NEW b \in DOMAIN apps' \ shaky'
               PROVE  \E d \in DOMAIN clients' : clients'[d].app = b
    BY DEF LastCredentialStays, ClientsOf
  <2>1. CASE b = a
    BY <1>1, <1>5, <2>1
  <2>2. CASE b # a
    <3>1. b \in DOMAIN apps \ shaky
      BY <1>1, <2>2
    <3>2. PICK d \in DOMAIN clients : clients[d].app = b
      BY <3>1 DEF AppsInv, LastCredentialStays, ClientsOf
    <3> QED BY <1>10, <3>2
  <2> QED BY <2>1, <2>2
<1>18. AppsInv'
  BY <1>7, <1>8, <1>9, <1>14, <1>15, <1>16, <1>17 DEF AppsInv
<1>19. \A b \in DOMAIN apps : b # a
  BY <1>3, <1>6
<1> QED BY <1>1, <1>5, <1>18, <1>19

\* The Admin API deletes an application with its credentials.
LEMMA DeleteApplicationKeeps ==
  ASSUME AppsInv, NEW q \in Req, DeleteApplication(q)
  PROVE  /\ AppsInv' /\ DOMAIN apps' \subseteq DOMAIN apps
         /\ \A a \in DOMAIN apps' : apps'[a] = apps[a]
<1> DEFINE j == job[q]
           a == j.app
<1>1. /\ j.kind = "deleteApplication" /\ j.step = "write"
      /\ UNCHANGED <<version, edorgs, rows, posted, shaky, left>>
      /\ apps' = [b \in DOMAIN apps \ {a} |-> apps[b]]
      /\ clients' = [d \in DOMAIN clients \ ClientsOf(a) |-> clients[d]]
  BY DEF DeleteApplication, At, Restricted
<1>2. JobOK(j, posted, clients)
  BY DEF AppsInv, JobsOK
<1>3. AppsOK'
  BY <1>1 DEF AppsInv, AppsOK
<1>4. \A d \in DOMAIN clients' : d \in DOMAIN clients /\ clients'[d] = clients[d]
  BY <1>1
<1>5. \A d \in DOMAIN clients : clients[d].app # a =>
        d \in DOMAIN clients' /\ clients'[d].app = clients[d].app
  BY <1>1 DEF ClientsOf
<1>6. ClientsOK'
  BY <1>1 DEF AppsInv, ClientsOK, ClientsOf
<1>7. PICK to : /\ Goes(q, to) /\ JobOK(to, posted', clients')
                /\ to.step = "idle" \/ (to.kind = "deleteApplication" /\ to.app = a)
  <2>1. CASE Answer(q)
    <3>1. JobOK(Idle, posted, clients') /\ Idle.step = "idle"
      BY IdleOK, ApplicationsAssumption DEF AppsInv, CountsOK
    <3> QED BY <1>1, <2>1, <3>1 DEF Answer
  <2>2. CASE ~ Answer(q)
    <3> DEFINE new == [j EXCEPT !.step = "removing", !.wrote = TRUE]
    <3>1. Goes(q, new)
      BY <2>2 DEF DeleteApplication
    <3>2. /\ new \in JobType /\ new.step = "removing" /\ new.wrote = TRUE
          /\ new.kind = j.kind /\ new.app = j.app /\ new.client = j.client /\ new.ask = j.ask
          /\ new.valid = j.valid /\ new.looked = j.looked /\ new.stores = j.stores
          /\ new.had = j.had /\ new.remove = j.remove
      BY <1>2 DEF JobOK, JobType, Step
    <3> HIDE DEF new
    <3>3. JobOK(new, posted, clients')
      BY <1>1, <1>2, <3>2 DEF JobOK, Asked, Given, Whole, Names
    <3> QED BY <1>1, <3>1, <3>2, <3>3
  <2> QED BY <2>1, <2>2
<1>8. JobsOK'
  <2>1. posted.apps \in Nat /\ posted.clients \in Nat
    BY ApplicationsAssumption DEF AppsInv, CountsOK
  <2> QED BY <1>1, <1>4, <1>7, <2>1, JobMoves
<1>9. Alone'
  <2>1. \A p \in Req : p # q /\ to.step # "idle" /\ Busy(p, to.app) => to.app \in shaky
    BY <1>1, <1>7, GoesOn
  <2> QED BY <1>1, <1>7, <2>1, AloneMoves
<1>10. Spares'
  BY <1>1, <1>5, <1>7, SparesKept
<1>11. LastCredentialStays'
  <2> SUFFICES ASSUME NEW b \in DOMAIN apps' \ shaky'
               PROVE  \E d \in DOMAIN clients' : clients'[d].app = b
    BY DEF LastCredentialStays, ClientsOf
  <2>1. b \in DOMAIN apps \ shaky /\ b # a
    BY <1>1
  <2>2. PICK d \in DOMAIN clients : clients[d].app = b
    BY <2>1 DEF AppsInv, LastCredentialStays, ClientsOf
  <2> QED BY <1>5, <2>1, <2>2
<1>12. EdorgsOK' /\ RowsOK' /\ CountsOK'
  BY <1>1, SameTables
<1> QED BY <1>1, <1>3, <1>6, <1>8, <1>9, <1>10, <1>11, <1>12 DEF AppsInv

\* A request is answered after it has changed credentials and nothing else.
LEMMA ClientsChangeKeeps ==
  ASSUME AppsInv, NEW q \in Req, job[q].step # "idle", Answer(q),
         UNCHANGED <<version, edorgs, apps, rows, shaky, left>>,
         posted' \in [apps : 0..MaxApps, clients : 0..MaxClients, rows : Nat],
         posted'.apps = posted.apps, posted'.rows = posted.rows,
         posted.clients <= posted'.clients,
         ClientsOK',
         \A c \in DOMAIN clients' : c <= posted.clients =>
           c \in DOMAIN clients /\ clients'[c].app = clients[c].app,
         \A c \in DOMAIN clients :
           clients[c].app # job[q].app => c \in DOMAIN clients' /\ clients'[c].app = clients[c].app,
         job[q].app \in DOMAIN apps \ shaky =>
           \E c \in DOMAIN clients' : clients'[c].app = job[q].app
  PROVE  AppsInv'
<1>1. JobOK(Idle, posted', clients') /\ Idle.step = "idle" /\ Goes(q, Idle)
  BY IdleOK, ApplicationsAssumption DEF Answer
<1>2. /\ posted.apps \in Nat /\ posted.clients \in Nat
      /\ posted'.apps \in Nat /\ posted'.clients \in Nat
  BY ApplicationsAssumption DEF AppsInv, CountsOK
<1>3. JobsOK'
  BY <1>1, <1>2, JobMoves
<1>4. Alone'
  BY <1>1, AloneMoves
<1>5. Spares'
  BY <1>1, SparesKept
<1>6. LastCredentialStays'
  <2> SUFFICES ASSUME NEW a \in DOMAIN apps \ shaky
               PROVE  \E c \in DOMAIN clients' : clients'[c].app = a
    BY DEF LastCredentialStays, ClientsOf
  <2>1. PICK c \in DOMAIN clients : clients[c].app = a
    BY DEF AppsInv, LastCredentialStays, ClientsOf
  <2> QED BY <2>1
<1>7. EdorgsOK' /\ AppsOK' /\ RowsOK' /\ CountsOK'
  BY DEF AppsInv, EdorgsOK, AppsOK, RowsOK, CountsOK
<1> QED BY <1>3, <1>4, <1>5, <1>6, <1>7 DEF AppsInv

\* A credential is given another ODS.
LEMMA PutApiClientKeeps ==
  ASSUME AppsInv, NEW q \in Req, PutApiClient(q)
  PROVE  AppsInv'
<1> DEFINE j == job[q]
           k == j.client
           new == [clients[k] EXCEPT !.ods = j.ask.ods]
<1>1. /\ j.kind = "putApiClient" /\ j.step = "write" /\ Answer(q)
      /\ UNCHANGED <<version, edorgs, apps, rows, posted, shaky, left>>
      /\ clients' = IF k \in DOMAIN clients THEN [clients EXCEPT ![k] = new] ELSE clients
  BY DEF PutApiClient, At
<1>2. JobOK(j, posted, clients)
  BY DEF AppsInv, JobsOK
<1>3. j.ask.ods \in Stored
  BY <1>1, <1>2 DEF JobOK, Asked
<1>4. k \in DOMAIN clients => new \in [app : AppId, ods : Stored] /\ new.app = clients[k].app
  BY <1>3 DEF AppsInv, ClientsOK
<1> HIDE DEF new
<1>5. /\ DOMAIN clients' = DOMAIN clients
      /\ \A c \in DOMAIN clients : clients'[c].app = clients[c].app
      /\ \A c \in DOMAIN clients : clients'[c] \in [app : AppId, ods : Stored]
      /\ clients' = [c \in DOMAIN clients' |-> clients'[c]]
  BY <1>1, <1>4 DEF AppsInv, ClientsOK
<1>6. ClientsOK'
  BY <1>1, <1>5 DEF AppsInv, ClientsOK
<1>7. posted \in [apps : 0..MaxApps, clients : 0..MaxClients, rows : Nat]
  BY DEF AppsInv, CountsOK
<1>8. posted.clients <= posted.clients
  BY <1>7, ApplicationsAssumption
<1>9. j.app \in DOMAIN apps \ shaky => \E c \in DOMAIN clients' : clients'[c].app = j.app
  BY <1>5 DEF AppsInv, LastCredentialStays, ClientsOf
<1> QED BY <1>1, <1>5, <1>6, <1>7, <1>8, <1>9, ClientsChangeKeeps

\* An application is given another credential.
LEMMA PostApiClientKeeps ==
  ASSUME AppsInv, NEW q \in Req, PostApiClient(q)
  PROVE  AppsInv'
<1> DEFINE j == job[q]
           a == j.app
           k == posted.clients + 1
           new == [app |-> a, ods |-> j.ask.ods]
<1>1. /\ j.kind = "postApiClient" /\ j.step = "write" /\ Answer(q) /\ k \in ClientId
      /\ UNCHANGED <<version, edorgs, apps, rows, shaky, left>>
      /\ a \in DOMAIN apps =>
           /\ posted' = [posted EXCEPT !.clients = k]
           /\ clients' = [c \in DOMAIN clients \cup {k} |-> IF c = k THEN new ELSE clients[c]]
      /\ a \notin DOMAIN apps => UNCHANGED <<clients, posted>>
  BY DEF PostApiClient, At
<1>2. JobOK(j, posted, clients)
  BY DEF AppsInv, JobsOK
<1>3. posted \in [apps : 0..MaxApps, clients : 0..MaxClients, rows : Nat]
  BY DEF AppsInv, CountsOK
<1>4. DOMAIN clients \subseteq 1..posted.clients /\ DOMAIN apps \subseteq 1..posted.apps
  BY DEF AppsInv, ClientsOK, AppsOK
<1>5. CASE a \notin DOMAIN apps
  <2>1. ClientsOK'
    BY <1>1, <1>5 DEF AppsInv, ClientsOK
  <2>2. posted.clients <= posted.clients
    BY <1>3, ApplicationsAssumption
  <2> QED BY <1>1, <1>3, <1>5, <2>1, <2>2, ClientsChangeKeeps
<1>6. CASE a \in DOMAIN apps
  <2>1. k \in 0..MaxClients /\ posted.clients < k /\ posted.clients \in Nat
    BY <1>1, <1>3, ApplicationsAssumption DEF ClientId
  <2>2. /\ posted' \in [apps : 0..MaxApps, clients : 0..MaxClients, rows : Nat]
        /\ posted'.apps = posted.apps /\ posted'.clients = k /\ posted'.rows = posted.rows
    <3>1. posted' = [posted EXCEPT !.clients = k]
      BY <1>1, <1>6
    <3> HIDE DEF k
    <3> QED BY <1>3, <2>1, <3>1
  <2>3. a \in AppId
    BY <1>3, <1>4, <1>6, ApplicationsAssumption DEF AppId
  <2>4. new \in [app : AppId, ods : Stored] /\ new.app = a
    BY <1>1, <1>2, <2>3 DEF JobOK, Asked
  <2> HIDE DEF new
  <2>5. ClientsOK'
    BY <1>1, <1>3, <1>4, <1>6, <2>1, <2>2, <2>4 DEF AppsInv, ClientsOK
  <2>6. \A c \in DOMAIN clients : c \in DOMAIN clients' /\ clients'[c] = clients[c]
    BY <1>1, <1>4, <1>6, <2>1
  <2>7. \A c \in DOMAIN clients' : c <= posted.clients =>
          c \in DOMAIN clients /\ clients'[c].app = clients[c].app
    BY <1>1, <1>6, <2>1
  <2>8. k \in DOMAIN clients' /\ clients'[k].app = a
    BY <1>1, <1>6, <2>4
  <2>9. posted.clients <= posted'.clients
    BY <2>1, <2>2
  <2> QED BY <1>1, <2>2, <2>5, <2>6, <2>7, <2>8, <2>9, ClientsChangeKeeps
<1> QED BY <1>5, <1>6

\* A credential is deleted.
LEMMA DeleteApiClientKeeps ==
  ASSUME AppsInv, NEW q \in Req, DeleteApiClient(q)
  PROVE  AppsInv'
<1> DEFINE j == job[q]
           k == j.client
<1>1. /\ j.kind = "deleteApiClient" /\ j.step = "write" /\ Answer(q)
      /\ UNCHANGED <<version, edorgs, apps, rows, posted, shaky, left>>
      /\ clients' = [c \in DOMAIN clients \ {k} |-> clients[c]]
  BY DEF DeleteApiClient, At, Restricted
<1>2. JobOK(j, posted, clients)
  BY DEF AppsInv, JobsOK
<1>3. posted \in [apps : 0..MaxApps, clients : 0..MaxClients, rows : Nat]
  BY DEF AppsInv, CountsOK
<1>4. ClientsOK'
  BY <1>1 DEF AppsInv, ClientsOK
<1>5. \A c \in DOMAIN clients' : c \in DOMAIN clients /\ clients'[c] = clients[c]
  BY <1>1
<1>6. k \in DOMAIN clients => clients[k].app = j.app
  BY <1>1, <1>2 DEF JobOK, Names
<1>7. \A c \in DOMAIN clients :
        clients[c].app # j.app => c \in DOMAIN clients' /\ clients'[c].app = clients[c].app
  BY <1>1, <1>6
<1>8. j.app \in DOMAIN apps \ shaky => \E c \in DOMAIN clients' : clients'[c].app = j.app
  <2> SUFFICES ASSUME j.app \in DOMAIN apps \ shaky
               PROVE  \E c \in DOMAIN clients' : clients'[c].app = j.app
    OBVIOUS
  <2>1. Another(j.app, k, clients)
    BY <1>1 DEF AppsInv, Spares, At
  <2> QED BY <1>1, <2>1 DEF Another
<1>9. posted.clients <= posted.clients
  BY <1>3, ApplicationsAssumption
<1> QED BY <1>1, <1>3, <1>4, <1>5, <1>7, <1>8, <1>9, ClientsChangeKeeps

-----------------------------------------------------------------------------
(* All the steps.                                                           *)

\* To begin with there is nothing to keep.
LEMMA BeginsInOrder ==
  ASSUME ApplicationsInit
  PROVE  AppsInv
<1>1. left \in [requests : Nat, mishaps : Nat] /\ version \in Version
  BY ApplicationsAssumption DEF ApplicationsInit
<1>2. /\ posted = [apps |-> 0, clients |-> 0, rows |-> 0]
      /\ posted \in [apps : 0..MaxApps, clients : 0..MaxClients, rows : Nat]
  BY ApplicationsAssumption DEF ApplicationsInit
<1>3. EdorgsOK
  <2>1. \A p \in InitEdorgs : p \in Ods \X Org
    BY ApplicationsAssumption DEF ApplicationsAssumption, Pair
  <2>2. \A e \in edorgs : e \in EdorgRow
    BY <1>1, <2>1 DEF ApplicationsInit, EdorgRow
  <2>3. IsFiniteSet(edorgs)
    <3> DEFINE f == [p \in InitEdorgs |-> <<p[1], p[2], left.mishaps>>]
    <3>1. f \in Surjection(InitEdorgs, edorgs)
      BY DEF ApplicationsInit, Surjection
    <3>2. IsFiniteSet(InitEdorgs)
      BY ApplicationsAssumption DEF ApplicationsAssumption
    <3> HIDE DEF f
    <3> QED BY <3>1, <3>2, FS_Surjection
  <2> QED BY <2>2, <2>3 DEF EdorgsOK
<1>4. DOMAIN apps = {} /\ DOMAIN clients = {} /\ apps = [a \in {} |-> a] /\ clients = [c \in {} |-> c]
  BY DEF ApplicationsInit
<1>5. AppsOK /\ ClientsOK
  BY <1>4 DEF AppsOK, ClientsOK
<1>6. RowsOK /\ CountsOK
  BY <1>1, <1>2 DEF ApplicationsInit, RowsOK, CountsOK
<1>7. job = [q \in Req |-> Idle] /\ JobOK(Idle, posted, clients) /\ Idle.step = "idle"
  BY <1>2, IdleOK, ApplicationsAssumption DEF ApplicationsInit
<1>8. JobsOK
  BY <1>7 DEF JobsOK, JobOK
<1>9. Alone /\ Spares
  BY <1>7 DEF Alone, Spares, Busy, At
<1>10. LastCredentialStays
  BY <1>4 DEF LastCredentialStays
<1> QED BY <1>3, <1>5, <1>6, <1>8, <1>9, <1>10 DEF AppsInv

\* Whatever a request does, it keeps the order; only a new application is
\* added, and only a PUT changes one.
LEMMA HandlesKeeps ==
  ASSUME AppsInv, NEW q \in Req, Handles(q)
  PROVE  /\ AppsInv'
         /\ ~ PostApplication(q) => DOMAIN apps' \subseteq DOMAIN apps
         /\ ~ PutApplication(q) =>
              \A a \in DOMAIN apps : a \in DOMAIN apps' => apps'[a] = apps[a]
<1>1. CASE PutApplication(q)
  BY <1>1, PutApplicationKeeps
<1>2. CASE PostApplication(q)
  BY <1>2, PostApplicationKeeps
<1>3. CASE DeleteApplication(q)
  BY <1>3, DeleteApplicationKeeps
<1>4. CASE LookV2(q) \/ CheckV2(q) \/ CheckV3(q) \/ LookV3(q) \/ FindRow(q)
  <2>1. AppsInv'
    BY <1>4, LooksV2, ChecksV2, ChecksV3, LooksV3, FindsRow
  <2>2. UNCHANGED apps
    BY <1>4 DEF LookV2, CheckV2, CheckV3, LookV3, FindRow, ReadOnly, api
  <2> QED BY <2>1, <2>2
<1>5. CASE \/ CheckNew(q) \/ CheckGone(q) \/ CheckPutClient(q) \/ CheckClient(q)
           \/ CountClients(q)
  <2>1. AppsInv'
    BY <1>5, ChecksNew, ChecksGone, ChecksPutClient, ChecksClient, CountsClients
  <2>2. UNCHANGED apps
    BY <1>5 DEF CheckNew, CheckGone, CheckPutClient, CheckClient, CountClients, ReadOnly, api
  <2> QED BY <2>1, <2>2
<1>6. CASE Arrive(q) \/ Fails(q) \/ RemovalFails(q) \/ SaveRow(q) \/ RemoveRow(q)
  <2>1. AppsInv'
    BY <1>6, ArriveKeeps, FailsKeeps, SaveRowKeeps, RemoveRowKeeps
  <2>2. UNCHANGED apps
    BY <1>6 DEF Arrive, Fails, RemovalFails, SaveRow, RemoveRow, api
  <2> QED BY <2>1, <2>2
<1>7. CASE PutApiClient(q) \/ PostApiClient(q) \/ DeleteApiClient(q)
  <2>1. AppsInv'
    BY <1>7, PutApiClientKeeps, PostApiClientKeeps, DeleteApiClientKeeps
  <2>2. UNCHANGED apps
    BY <1>7 DEF PutApiClient, PostApiClient, DeleteApiClient
  <2> QED BY <2>1, <2>2
<1> QED BY <1>1, <1>2, <1>3, <1>4, <1>5, <1>6, <1>7 DEF Handles

\* Every step keeps the order.
LEMMA StepsKeep ==
  ASSUME AppsInv, [ApplicationsNext]_vars
  PROVE  AppsInv'
<1>1. CASE EdorgsChange
  BY <1>1, EdorgsChangeKeeps
<1>2. CASE \E q \in Req : Handles(q)
  BY <1>2, HandlesKeeps
<1>3. CASE UNCHANGED vars
  <2>1. UNCHANGED <<version, edorgs, apps, clients, rows, job, posted, shaky, left>>
    BY <1>3 DEF vars, api
  <2>2. JobsOK'
    BY <2>1 DEF AppsInv, JobsOK, JobOK, Given
  <2>3. Alone' /\ Spares' /\ LastCredentialStays'
    BY <2>1 DEF AppsInv, Alone, Spares, LastCredentialStays, Busy, At, ClientsOf
  <2> QED BY <2>1, <2>2, <2>3, SameTables DEF AppsInv
<1> QED BY <1>1, <1>2, <1>3 DEF ApplicationsNext

\* A request that changes is the one that takes the step.
LEMMA WhoMoves ==
  ASSUME AppsInv, [ApplicationsNext]_vars, NEW q \in Req, job'[q] # job[q]
  PROVE  Handles(q)
<1>1. job \in [Req -> JobType]
  BY DEF AppsInv, JobsOK
<1>2. ASSUME EdorgsChange \/ UNCHANGED vars PROVE FALSE
  BY <1>2 DEF EdorgsChange, vars
<1>3. PICK p \in Req : Handles(p)
  BY <1>2 DEF ApplicationsNext
<1>4. \E to : Goes(p, to)
  <2>1. CASE Arrive(p) \/ Fails(p) \/ RemovalFails(p)
    <3>1. Arrive(p) => \E new : Arrives(p, new)
      BY Zenon DEF Arrive
    <3> QED BY <2>1, <3>1 DEF Arrives, Fails, RemovalFails, Answer
  <2>2. CASE LookV2(p) \/ CheckV2(p) \/ CheckV3(p) \/ LookV3(p)
    BY <2>2 DEF LookV2, CheckV2, CheckV3, LookV3, Answer
  <2>3. CASE FindRow(p) \/ SaveRow(p) \/ PutApplication(p)
    BY <2>3 DEF FindRow, SaveRow, PutApplication, Answer
  <2>4. CASE CheckNew(p) \/ PostApplication(p) \/ CheckGone(p) \/ RemoveRow(p)
    BY <2>4 DEF CheckNew, PostApplication, CheckGone, RemoveRow, Answer
  <2>5. CASE DeleteApplication(p) \/ CheckPutClient(p) \/ PutApiClient(p)
    BY <2>5 DEF DeleteApplication, CheckPutClient, PutApiClient, Answer
  <2>6. CASE CheckClient(p) \/ PostApiClient(p) \/ CountClients(p) \/ DeleteApiClient(p)
    BY <2>6 DEF CheckClient, PostApiClient, CountClients, DeleteApiClient, Answer
  <2> QED BY <1>3, <2>1, <2>2, <2>3, <2>4, <2>5, <2>6 DEF Handles
<1>5. p = q
  BY <1>1, <1>4 DEF Goes
<1> QED BY <1>3, <1>5

\* Every request, and every table, stays in order, for any number of requests
\* and any bounds: the strengthening of the properties below.
THEOREM ApplicationsInvariance == ApplicationsSpec => []AppsInv
<1>1. ApplicationsInit => AppsInv
  BY BeginsInOrder
<1>2. AppsInv /\ [ApplicationsNext]_vars => AppsInv'
  BY StepsKeep
<1> QED BY <1>1, <1>2, PTL DEF ApplicationsSpec

\* Credentials name applications that are there, ids are not given twice, and
\* the variables have their types.
THEOREM ApplicationsTyped == ApplicationsSpec => []ApplicationsTypeOK
<1>1. AppsInv => ApplicationsTypeOK
  <2> SUFFICES ASSUME AppsInv PROVE ApplicationsTypeOK
    OBVIOUS
  <2>1. version \in Version /\ shaky \subseteq AppId /\ left \in [requests : Nat, mishaps : Nat]
    BY DEF AppsInv, CountsOK
  <2>2. edorgs \subseteq EdorgRow
    BY DEF AppsInv, EdorgsOK
  <2>3. /\ DOMAIN apps \subseteq 1..posted.apps
        /\ \A a \in DOMAIN apps : apps[a].orgs \subseteq Org /\ apps[a].ods \subseteq Ods
    BY DEF AppsInv, AppsOK
  <2>4. /\ DOMAIN clients \subseteq 1..posted.clients
        /\ \A c \in DOMAIN clients : clients[c].app \in DOMAIN apps /\ clients[c].ods \in Stored
    BY DEF AppsInv, ClientsOK
  <2>5. /\ \A r \in rows : r.id \in 1..posted.rows /\ r.app \in AppId /\ r.edorgIds \subseteq EdorgRow
        /\ \A r, s \in rows : r.id = s.id => r = s
    BY DEF AppsInv, RowsOK
  <2>6. \A q \in Req : job[q].kind \in Kind /\ job[q].step \in Step
    BY DEF AppsInv, JobsOK, JobType
  <2> QED BY <2>1, <2>2, <2>3, <2>4, <2>5, <2>6 DEF ApplicationsTypeOK
<1> QED BY <1>1, ApplicationsInvariance, PTL

\* An application keeps a credential, unless requests overlap: whoever deletes
\* one has seen another, which nobody else could take meanwhile.
THEOREM CredentialKept == ApplicationsSpec => []LastCredentialStays
<1>1. AppsInv => LastCredentialStays
  BY DEF AppsInv
<1> QED BY <1>1, ApplicationsInvariance, PTL

\* An application gets no organisations but those that were asked for, and all of
\* those, each of which there was: as many rows as organisations, of one data
\* store and of no organisation twice, are rows of all of them.
THEOREM AllThatWasAsked == ApplicationsSpec => GivenAsAsked
<1> DEFINE Gave(q, a) ==
      /\ apps'[a].orgs \subseteq job[q].ask.orgs
      /\ ((version = "v3" \/ job[q].kind = "postApplication") /\ ~ Twice(job[q].looked)) =>
           apps'[a].orgs = job[q].ask.orgs /\ Orgs(job[q].looked) = job[q].ask.orgs
<1>1. ASSUME AppsInv, [ApplicationsNext]_vars, NEW q \in Req, NEW a \in AppId, Gives(q, a)
      PROVE  Gave(q, a)
  <2>1. Given(job[q])
    BY <1>1 DEF AppsInv, JobsOK, JobOK
  <2>2. CASE PutApplication(q) /\ job[q].app = a
    <3>1. job[q].kind = "putApplication" /\ job[q].step = "write"
      BY <2>2 DEF PutApplication, At
    <3>2. a \in DOMAIN apps /\ apps'[a].orgs = Orgs(job[q].looked)
      BY <1>1, <2>2, PutApplicationKeeps DEF Gives
    <3> QED BY <2>1, <3>1, <3>2 DEF Given, Whole
  <2>3. CASE ~ (PutApplication(q) /\ job[q].app = a)
    <3>1. /\ job'[q] # job[q] /\ a \in DOMAIN apps' /\ a \notin DOMAIN apps
          /\ job[q].kind = "postApplication" /\ job[q].step = "write"
      BY <1>1, <2>3 DEF Gives
    <3>2. Handles(q)
      BY <1>1, <3>1, WhoMoves
    <3>3. PostApplication(q)
      BY <1>1, <3>1, <3>2, HandlesKeeps
    <3>4. apps'[a].orgs = job[q].ask.orgs
      BY <1>1, <3>1, <3>3, PostApplicationKeeps
    <3> QED BY <2>1, <3>1, <3>4 DEF Given, Whole
  <2> QED BY <2>2, <2>3
<1>2. AppsInv /\ [ApplicationsNext]_vars =>
        [\A q \in Req, a \in AppId : Gives(q, a) => Gave(q, a)]_vars
  BY <1>1
<1> QED BY <1>2, ApplicationsInvariance, PTL DEF ApplicationsSpec, GivenAsAsked

\* The stores of an application change only by a PUT of v2, which moves it, and
\* by what becomes of its credentials: a new one of v3 adds the stores it names.
LEMMA StoresMove ==
  ASSUME AppsInv, NEW q \in Req, Handles(q), NEW a \in DOMAIN apps, a \in DOMAIN apps',
         job[q].kind \notin {"putApiClient", "postApplication"}, job[q].step = "write",
         ~ PutApplication(q), ~ Fails(q)
  PROVE  Stores(a)' \subseteq Stores(a) \cup Unchecked(q)
<1> DEFINE j == job[q]
<1>1. version' = version
  BY DEF Handles, Fails, RemovalFails, Arrive, LookV2, CheckV2, CheckV3, LookV3, FindRow, SaveRow,
     CheckNew, PostApplication, CheckGone, RemoveRow, DeleteApplication, CheckPutClient,
     PutApiClient, CheckClient, PostApiClient, CountClients, DeleteApiClient, At, ReadOnly
<1>2. apps'[a] = apps[a]
  BY HandlesKeeps
<1>3. CASE version = "v2"
  BY <1>1, <1>2, <1>3 DEF Stores
<1>4. CASE version # "v2"
  <2>1. ASSUME \A c \in DOMAIN clients' : c \in DOMAIN clients /\ clients'[c] = clients[c]
        PROVE  Stores(a)' \subseteq Stores(a)
    BY <1>1, <1>4, <2>1 DEF Stores, ClientsOf
  <2>2. CASE PostApiClient(q)
    <3> DEFINE k == posted.clients + 1
    <3>1. \A c \in DOMAIN clients' :
            \/ c \in DOMAIN clients /\ clients'[c] = clients[c]
            \/ clients'[c].ods = j.ask.ods
      <4>1. \/ UNCHANGED clients
            \/ clients' = [c \in DOMAIN clients \cup {k} |->
                             IF c = k THEN [app |-> j.app, ods |-> j.ask.ods] ELSE clients[c]]
        BY <2>2 DEF PostApiClient
      <4> HIDE DEF k
      <4> QED BY <4>1
    <3>2. Unchecked(q) = j.ask.ods
      <4>1. version = "v3" /\ j.kind = "postApiClient"
        BY <1>4, <2>2, ApplicationsAssumption
           DEF ApplicationsAssumption, AppsInv, CountsOK, PostApiClient, At
      <4> QED BY <4>1 DEF Unchecked
    <3>3. ASSUME NEW c \in ClientsOf(a)' PROVE clients'[c].ods \subseteq Stores(a) \cup j.ask.ods
      <4>1. c \in DOMAIN clients' /\ clients'[c].app = a
        BY DEF ClientsOf
      <4>2. CASE c \in DOMAIN clients /\ clients'[c] = clients[c]
        BY <1>4, <4>1, <4>2 DEF Stores, ClientsOf
      <4> QED BY <3>1, <4>1, <4>2
    <3>4. Stores(a)' = UNION {clients'[c].ods : c \in ClientsOf(a)'}
      BY <1>1, <1>4 DEF Stores
    <3> QED BY <3>2, <3>3, <3>4
  <2>3. CASE DeleteApplication(q) \/ DeleteApiClient(q)
    <3>1. \A c \in DOMAIN clients' : c \in DOMAIN clients /\ clients'[c] = clients[c]
      BY <2>3 DEF DeleteApplication, DeleteApiClient, Restricted
    <3> QED BY <2>1, <3>1
  <2>4. CASE ~ PostApiClient(q) /\ ~ DeleteApplication(q) /\ ~ DeleteApiClient(q)
    <3>1. UNCHANGED clients
      BY <2>4 DEF Handles, RemovalFails, Arrive, LookV2, CheckV2, CheckV3, LookV3, FindRow,
         SaveRow, CheckNew, PostApplication, CheckGone, RemoveRow, CheckPutClient,
         PutApiClient, CheckClient, CountClients, At, ReadOnly, api
    <3> QED BY <2>1, <3>1
  <2> QED BY <2>2, <2>3, <2>4
<1> QED BY <1>3, <1>4

\* Nobody changes an application they do not control all of, nor leaves one that
\* they do not control all of, but at the stores that a new credential of v3 is
\* posted with.
THEOREM ControlledChanges == ApplicationsSpec => ChangedUnderControl
<1> DEFINE Controlled(q, a) ==
      /\ job[q].stores \X job[q].had \subseteq job[q].valid
      /\ a \in DOMAIN apps' =>
           (Stores(a)' \ Unchecked(q)) \X apps'[a].orgs \subseteq job[q].valid
<1>1. ASSUME AppsInv, [ApplicationsNext]_vars, NEW q \in Req, NEW a \in AppId, Changes(q, a)
      PROVE  Controlled(q, a)
  <2> DEFINE j == job[q]
  <2>1. /\ j.step = "write" /\ j.app = a /\ a \in DOMAIN apps
        /\ apps[a].orgs = j.had /\ Stores(a) = j.stores /\ left' = left
        /\ j.kind \notin {"putApiClient", "postApplication"}
    BY <1>1 DEF Changes
  <2>2. Handles(q)
    BY <1>1, WhoMoves DEF Changes
  <2>3. j.stores \X j.had \subseteq j.valid /\ Given(j)
    BY <1>1 DEF AppsInv, JobsOK, JobOK
  <2>4. CASE PutApplication(q)
    <3>1. j.kind = "putApplication" /\ UNCHANGED <<version, clients>>
      BY <2>4 DEF PutApplication, At
    <3>2. /\ apps'[a].orgs = Orgs(j.looked)
          /\ version = "v2" => apps'[a].ods = j.ask.ods
      BY <1>1, <2>1, <2>4, PutApplicationKeeps
    <3>3. CASE version = "v2"
      <4>1. Stores(a)' = j.ask.ods
        BY <3>1, <3>2, <3>3 DEF Stores
      <4>2. j.ask.ods \X Orgs(j.looked) \subseteq j.valid
        BY <2>1, <2>3, <3>1, <3>3 DEF Given
      <4> QED BY <2>3, <3>2, <4>1, <4>2
    <3>4. CASE version # "v2"
      <4>1. Stores(a)' = j.stores
        BY <2>1, <3>1, <3>4 DEF Stores, ClientsOf
      <4>2. j.stores \X Orgs(j.looked) \subseteq j.valid
        BY <2>1, <2>3, <3>1, <3>4 DEF Given
      <4> QED BY <2>3, <3>2, <4>1, <4>2
    <3> QED BY <3>3, <3>4
  <2>5. CASE ~ PutApplication(q)
    <3>1. ~ Fails(q)
      BY <1>1, <2>1 DEF Fails, Mishap, AppsInv, CountsOK
    <3>2. a \in DOMAIN apps' => apps'[a].orgs = j.had
      BY <1>1, <2>1, <2>2, <2>5, HandlesKeeps DEF PostApplication, At
    <3>3. a \in DOMAIN apps' => Stores(a)' \ Unchecked(q) \subseteq j.stores
      BY <1>1, <2>1, <2>2, <2>5, <3>1, StoresMove
    <3> QED BY <2>3, <3>2, <3>3
  <2> QED BY <2>4, <2>5
<1>2. AppsInv /\ [ApplicationsNext]_vars =>
        [\A q \in Req, a \in AppId : Changes(q, a) => Controlled(q, a)]_vars
  BY <1>1
<1> QED BY <1>2, ApplicationsInvariance, PTL DEF ApplicationsSpec, ChangedUnderControl

=============================================================================
