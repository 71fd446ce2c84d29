------------------------------ MODULE Applications ------------------------------
(***************************************************************************)
(* Applications and their API clients, as the team controllers of Admin    *)
(* API v2 and v3 handle them: each handler awaits the tables and the Admin *)
(* API in turn, and handlers of several users interleave.  The Admin API   *)
(* keeps the applications; the row of an integration application is kept   *)
(* beside it in a table of its own, with no transaction around the two.    *)
(* Names, claimsets and secrets are left out.                              *)
(***************************************************************************)
EXTENDS Naturals, FiniteSets

CONSTANTS
  Version,    \* the versions of the Admin API: "v2", "v3"
  Ods,        \* ODS instances, which v3 calls data stores
  Org,        \* educationOrganizationIds
  InitEdorgs, \* the organisations synchronised to begin with
  Ask,        \* bodies that applications are posted and put with
  AskStores,  \* the stores that credentials are posted and put with
  Control,    \* what a user may control
  Req,        \* requests at a time
  MaxApps,    \* bounds the applications
  MaxClients, \* bounds the API clients
  Budgets     \* bounds the requests at a time, and the changes of the
              \* organisations and calls that fail

Pair == Ods \X Org

\* A credential names one store or more.
Stored == (SUBSET Ods) \ {{}}

ASSUME ApplicationsAssumption ==
  /\ Version \subseteq {"v2", "v3"}
  /\ InitEdorgs \subseteq Pair
  /\ Ask \subseteq [orgs : (SUBSET Org) \ {{}}, ods : {{o} : o \in Ods}, provider : BOOLEAN]
  /\ AskStores \subseteq Stored
  /\ Control \subseteq SUBSET Pair
  /\ MaxApps \in Nat /\ MaxClients \in Nat
  /\ IsFiniteSet(InitEdorgs) /\ IsFiniteSet(Org)
  /\ Budgets \subseteq [requests : Nat, mishaps : Nat]

VARIABLES
  version, \* of the environment
  edorgs,  \* table edorg: odsInstanceId, educationOrganizationId, and which row
           \* of these: an odsInstanceId that two synchronisations saved at once
           \* has two ODSs, each with organisations of its own
  apps,    \* the applications of the Admin API, by id
  clients, \* its API clients, by id
  rows,    \* table integration_app
  job,     \* the requests and what they have read
  posted,  \* applications, API clients and rows ever made: their ids
  shaky,   \* history: applications that two requests worked on at a time, that
           \* one left after it had written and failed, or that were being put
           \* when the organisations changed
  left     \* what may still happen

api  == <<apps, clients>>
vars == <<version, edorgs, api, rows, job, posted, shaky, left>>

AppId    == 1..MaxApps
ClientId == 1..MaxClients
EdorgRow == Ods \X Org \X Nat

Kind == {"putApplication", "postApplication", "deleteApplication",
         "putApiClient", "postApiClient", "deleteApiClient"}

Step == {"idle", "begin", "looked", "checked", "found", "write", "removing"}

NoAsk == [orgs |-> {}, ods |-> {}, provider |-> FALSE]

Idle == [kind |-> "putApplication", step |-> "idle", app |-> 0, client |-> 0, ask |-> NoAsk,
         valid |-> {}, looked |-> {}, stores |-> {}, had |-> {}, wrote |-> FALSE,
         remove |-> "no"]

ClientsOf(a) == {c \in DOMAIN clients : clients[c].app = a}

\* GetDataStoreIdsByApplicationIdQuery: in v3 the stores of all its credentials.
Stores(a) ==
  IF version = "v2" THEN apps[a].ods ELSE UNION {clients[c].ods : c \in ClientsOf(a)}

ApplicationsTypeOK ==
  /\ version \in Version
  /\ edorgs \subseteq EdorgRow
  /\ DOMAIN apps \subseteq 1..posted.apps
  /\ \A a \in DOMAIN apps : apps[a].orgs \subseteq Org /\ apps[a].ods \subseteq Ods
  /\ DOMAIN clients \subseteq 1..posted.clients
  /\ \A c \in DOMAIN clients : clients[c].app \in DOMAIN apps /\ clients[c].ods \in Stored
  /\ \A r \in rows : r.id \in 1..posted.rows /\ r.app \in AppId /\ r.edorgIds \subseteq EdorgRow
  /\ \A r, s \in rows : r.id = s.id => r = s
  /\ \A q \in Req : job[q].kind \in Kind /\ job[q].step \in Step
  /\ shaky \subseteq AppId
  /\ left \in [requests : Nat, mishaps : Nat]

ApplicationsInit ==
  /\ version \in Version
  /\ left \in Budgets
  /\ edorgs = {<<p[1], p[2], left.mishaps>> : p \in InitEdorgs}
  /\ apps = <<>> /\ clients = <<>>
  /\ rows = {}
  /\ job = [q \in Req |-> Idle]
  /\ posted = [apps |-> 0, clients |-> 0, rows |-> 0]
  /\ shaky = {}

-----------------------------------------------------------------------------
(* Requests.                                                                *)

Goes(q, to) == job' = [job EXCEPT ![q] = to]

Busy(q, a) == a # 0 /\ job[q].step # "idle" /\ job[q].app = a

Arrives(q, new) == /\ shaky' = IF \E p \in Req : Busy(p, new.app) THEN shaky \cup {new.app} ELSE shaky
                   /\ Goes(q, new)

\* A request arrives, with what the ownership cache says its user controls.
Arrive(q) ==
  /\ job[q].step = "idle"
  /\ Cardinality({p \in Req : job[p].step # "idle"}) < left.requests
  /\ \E valid \in Control :
       LET New(kind, a, c, ask) ==
             [Idle EXCEPT !.kind = kind, !.step = "begin", !.valid = valid, !.app = a,
                          !.client = c, !.ask = ask]
       IN
       \/ \E ask \in Ask : Arrives(q, New("postApplication", 0, 0, ask))
       \/ \E a \in DOMAIN apps :
            \/ \E ask \in Ask : Arrives(q, New("putApplication", a, 0, ask))
            \/ Arrives(q, New("deleteApplication", a, 0, NoAsk))
            \/ \E at \in AskStores : Arrives(q, New("postApiClient", a, 0, [NoAsk EXCEPT !.ods = at]))
            \/ \E c \in ClientsOf(a) :
                 \/ \E at \in AskStores : Arrives(q, New("putApiClient", a, c, [NoAsk EXCEPT !.ods = at]))
                 \/ Arrives(q, New("deleteApiClient", a, c, NoAsk))
  /\ UNCHANGED <<version, edorgs, api, rows, posted, left>>

At(q, kind, step) == job[q].kind = kind /\ job[q].step = step

\* The request is answered, or goes on.
Answer(q) == Goes(q, Idle)

ReadOnly == UNCHANGED <<version, edorgs, api, rows, posted, shaky, left>>

\* Mutant: the check for safe operations, some organisation at some ODS.
ControlsSome(valid, stores, orgs) == (stores \X orgs) \cap valid # {} \/ stores \X orgs = {}

\* checkApplicationEdorgsForUnsafeOperations(): every organisation at every ODS.
Controls(valid, stores, orgs) == stores \X orgs \subseteq valid

Mishap == left.mishaps > 0 /\ left' = [left EXCEPT !.mishaps = @ - 1]

\* A call fails, and the request with it: but a removal that nobody awaits goes
\* on although the application is not deleted.
Fails(q) ==
  /\ job[q].step # "idle"
  /\ Mishap
  /\ shaky' = IF job[q].wrote THEN shaky \cup {job[q].app} ELSE shaky
  /\ IF At(q, "deleteApplication", "write") /\ job[q].remove = "find"
     THEN Goes(q, [job[q] EXCEPT !.step = "removing"])
     ELSE Answer(q)
  /\ UNCHANGED <<version, edorgs, api, rows, posted>>

\* The removal fails before the application is deleted, and nobody hears of it.
RemovalFails(q) ==
  /\ At(q, "deleteApplication", "write")
  /\ job[q].remove = "find"
  /\ Mishap
  /\ shaky' = shaky \cup {job[q].app}
  /\ Goes(q, [job[q] EXCEPT !.remove = "done"])
  /\ UNCHANGED <<version, edorgs, api, rows, posted>>

-----------------------------------------------------------------------------
(* PUT applications                                                         *)

Available(ask, stores) == {e \in edorgs : e[1] \in stores /\ e[2] \in ask.orgs}

\* What the request gives: the organisations of the rows found.
Orgs(looked) == {e[2] : e \in looked}

\* v2 looks for the organisations first and takes the ODS of the first.
LookV2(q) ==
  LET found == Available(job[q].ask, job[q].ask.ods) IN
  /\ version = "v2"
  /\ At(q, "putApplication", "begin")
  /\ IF found = {} THEN Answer(q)
     ELSE Goes(q, [job[q] EXCEPT !.step = "looked", !.looked = found])
  /\ ReadOnly

\* The application as it is must be under control, and as it will be.
CheckV2(q) ==
  LET a == job[q].app IN
  /\ version = "v2"
  /\ At(q, "putApplication", "looked")
  /\ IF /\ a \in DOMAIN apps
        /\ Controls(job[q].valid, Stores(a), apps[a].orgs)
        /\ Controls(job[q].valid, job[q].ask.ods, Orgs(job[q].looked))
     THEN Goes(q, [job[q] EXCEPT !.step = "checked", !.stores = Stores(a), !.had = apps[a].orgs])
     ELSE Answer(q)
  /\ ReadOnly

\* v3 begins with the application, whose credentials say where to look.
CheckV3(q) ==
  LET a == job[q].app IN
  /\ version = "v3"
  /\ At(q, "putApplication", "begin")
  /\ IF /\ a \in DOMAIN apps
        /\ Controls(job[q].valid, Stores(a), apps[a].orgs)
        /\ Stores(a) # {}
     THEN Goes(q, [job[q] EXCEPT !.step = "looked", !.stores = Stores(a), !.had = apps[a].orgs])
     ELSE Answer(q)
  /\ ReadOnly

\* Mutant: the rows found are counted against themselves.
CountedAgainstThemselves(asked, looked) == Cardinality(looked) = Cardinality(looked)

Counted(asked, looked) == Cardinality(asked) = Cardinality(looked)

OneOds(looked) == \E o \in Ods : \A e \in looked : e[1] = o

LookV3(q) ==
  LET found == Available(job[q].ask, job[q].stores) IN
  /\ version = "v3"
  /\ At(q, "putApplication", "looked")
  /\ IF /\ found # {} /\ Counted(job[q].ask.orgs, found) /\ OneOds(found)
        /\ Controls(job[q].valid, job[q].stores, Orgs(found))
     THEN Goes(q, [job[q] EXCEPT !.step = "checked", !.looked = found])
     ELSE Answer(q)
  /\ ReadOnly

\* Mutant: an integration application may change its organisations.
Unchanged(ask, looked, row) == ask.provider

\* An integration application keeps its provider, its ODS and its organisations.
Keeps(ask, looked, row) ==
  LET found == {e \in edorgs : e[1] \in {l[1] : l \in looked} /\ e[2] \in Orgs(looked)} IN
  /\ ask.provider
  /\ \A e \in looked : e[1] = row.ods
  /\ Cardinality(found) = Cardinality(row.edorgIds)
  /\ found \subseteq row.edorgIds

RowsOf(a) == {r \in rows : r.app = a}

\* findOne(), and the row renamed where the application has a new name.  Of two
\* ODSs that share an odsInstanceId findOneBy() may find the one that the row
\* does not name, and refuse.
FindRow(q) ==
  LET a == job[q].app IN
  /\ At(q, "putApplication", "checked")
  /\ IF RowsOf(a) = {}
     THEN Goes(q, [job[q] EXCEPT !.step = IF job[q].ask.provider THEN "found" ELSE "write"])
     ELSE \E r \in RowsOf(a) :
            \/ /\ Keeps(job[q].ask, job[q].looked, r)
               /\ Goes(q, [job[q] EXCEPT !.step = "write"])
            \/ Answer(q)
  /\ ReadOnly

\* create(): nothing keeps an application from having two rows.
SaveRow(q) ==
  /\ job[q].kind \in {"putApplication", "postApplication"}
  /\ job[q].step = "found"
  /\ \E o \in {e[1] : e \in job[q].looked} :
       rows' = rows \cup {[id |-> posted.rows + 1, app |-> job[q].app, ods |-> o,
                            edorgIds |-> job[q].looked]}
  /\ posted' = [posted EXCEPT !.rows = @ + 1]
  /\ IF job[q].kind = "postApplication" THEN Answer(q)
     ELSE Goes(q, [job[q] EXCEPT !.step = "write", !.wrote = TRUE])
  /\ UNCHANGED <<version, edorgs, api, shaky, left>>

\* The Admin API has the last word.
PutApplication(q) ==
  LET a == job[q].app IN
  /\ At(q, "putApplication", "write")
  /\ IF a \in DOMAIN apps
     THEN /\ apps' = [apps EXCEPT ![a] =
                [orgs |-> Orgs(job[q].looked),
                 ods  |-> IF version = "v2" THEN job[q].ask.ods ELSE @.ods]]
          /\ UNCHANGED shaky
     ELSE /\ shaky' = IF job[q].wrote THEN shaky \cup {a} ELSE shaky
          /\ UNCHANGED apps
  /\ Answer(q)
  /\ UNCHANGED <<version, edorgs, clients, rows, posted, left>>

-----------------------------------------------------------------------------
(* POST and DELETE applications                                             *)

CheckNew(q) ==
  LET ask   == job[q].ask
      found == Available(ask, ask.ods)
  IN
  /\ At(q, "postApplication", "begin")
  /\ IF /\ Cardinality(found) = Cardinality(ask.orgs)
        /\ Controls(job[q].valid, ask.ods, ask.orgs)
     THEN Goes(q, [job[q] EXCEPT !.step = "write", !.looked = found])
     ELSE Answer(q)
  /\ ReadOnly

\* The Admin API makes the application and its first credential.
PostApplication(q) ==
  LET ask == job[q].ask
      a   == posted.apps + 1
      c   == posted.clients + 1
  IN
  /\ At(q, "postApplication", "write")
  /\ a \in AppId /\ c \in ClientId
  /\ apps' = [b \in DOMAIN apps \cup {a} |->
                IF b = a THEN [orgs |-> ask.orgs, ods |-> ask.ods] ELSE apps[b]]
  /\ clients' = [d \in DOMAIN clients \cup {c} |->
                   IF d = c THEN [app |-> a, ods |-> ask.ods] ELSE clients[d]]
  /\ posted' = [posted EXCEPT !.apps = a, !.clients = c]
  /\ IF ask.provider THEN Goes(q, [job[q] EXCEPT !.step = "found", !.app = a, !.wrote = TRUE])
     ELSE Answer(q)
  /\ UNCHANGED <<version, edorgs, rows, shaky, left>>

CheckGone(q) ==
  LET a == job[q].app IN
  /\ At(q, "deleteApplication", "begin")
  /\ IF a \in DOMAIN apps /\ Controls(job[q].valid, Stores(a), apps[a].orgs)
     THEN Goes(q, [job[q] EXCEPT !.step = "write", !.stores = Stores(a), !.had = apps[a].orgs,
                                 !.remove = "find"])
     ELSE Answer(q)
  /\ ReadOnly

\* Mutant: the row is not removed.
RemoveNothing(q) ==
  /\ job[q].kind = "deleteApplication"
  /\ job[q].remove = "find"
  /\ IF job[q].step = "removing" THEN Answer(q) ELSE Goes(q, [job[q] EXCEPT !.remove = "done"])
  /\ ReadOnly

\* remove() is not awaited: it goes on beside the call of the Admin API, and
\* after it.
RemoveRow(q) ==
  /\ job[q].kind = "deleteApplication"
  /\ job[q].remove = "find"
  /\ IF RowsOf(job[q].app) = {} THEN UNCHANGED rows
     ELSE \E r \in RowsOf(job[q].app) : rows' = rows \ {r}
  /\ IF job[q].step = "removing" THEN Answer(q)
     ELSE Goes(q, [job[q] EXCEPT !.remove = "done", !.wrote = TRUE])
  /\ UNCHANGED <<version, edorgs, api, posted, shaky, left>>

Restricted(f, S) == [x \in S |-> f[x]]

\* Mutant: credentials outlive their application.
DeleteApplicationOnly(q) ==
  /\ At(q, "deleteApplication", "write")
  /\ apps' = Restricted(apps, DOMAIN apps \ {job[q].app})
  /\ IF job[q].remove = "done" THEN Answer(q)
     ELSE Goes(q, [job[q] EXCEPT !.step = "removing", !.wrote = TRUE])
  /\ UNCHANGED <<version, edorgs, clients, rows, posted, shaky, left>>

DeleteApplication(q) ==
  LET a == job[q].app IN
  /\ At(q, "deleteApplication", "write")
  /\ apps' = Restricted(apps, DOMAIN apps \ {a})
  /\ clients' = Restricted(clients, DOMAIN clients \ ClientsOf(a))
  /\ IF job[q].remove = "done" THEN Answer(q)
     ELSE Goes(q, [job[q] EXCEPT !.step = "removing", !.wrote = TRUE])
  /\ UNCHANGED <<version, edorgs, rows, posted, shaky, left>>

-----------------------------------------------------------------------------
(* API clients                                                              *)

\* The ids a user controls are those of organisations: only who controls all
\* of them gets to put a client.
CheckPutClient(q) ==
  /\ At(q, "putApiClient", "begin")
  /\ IF job[q].valid = Pair /\ job[q].client \in DOMAIN clients
     THEN Goes(q, [job[q] EXCEPT !.step = "write"])
     ELSE Answer(q)
  /\ ReadOnly

PutApiClient(q) ==
  LET c == job[q].client IN
  /\ At(q, "putApiClient", "write")
  /\ clients' = IF c \in DOMAIN clients THEN [clients EXCEPT ![c].ods = job[q].ask.ods] ELSE clients
  /\ Answer(q)
  /\ UNCHANGED <<version, edorgs, apps, rows, posted, shaky, left>>

CheckClient(q) ==
  LET a == job[q].app IN
  /\ job[q].kind \in {"postApiClient", "deleteApiClient"}
  /\ job[q].step = "begin"
  /\ IF /\ a \in DOMAIN apps
        /\ job[q].client \in DOMAIN clients \cup {0}
        /\ Controls(job[q].valid, Stores(a), apps[a].orgs)
     THEN Goes(q, [job[q] EXCEPT
            !.step = IF job[q].kind = "postApiClient" THEN "write" ELSE "checked",
            !.stores = Stores(a), !.had = apps[a].orgs])
     ELSE Answer(q)
  /\ ReadOnly

PostApiClient(q) ==
  LET a == job[q].app
      c == posted.clients + 1
  IN
  /\ At(q, "postApiClient", "write")
  /\ c \in ClientId
  /\ IF a \in DOMAIN apps
     THEN /\ clients' = [d \in DOMAIN clients \cup {c} |->
                           IF d = c THEN [app |-> a, ods |-> job[q].ask.ods] ELSE clients[d]]
          /\ posted' = [posted EXCEPT !.clients = c]
     ELSE UNCHANGED <<clients, posted>>
  /\ Answer(q)
  /\ UNCHANGED <<version, edorgs, apps, rows, shaky, left>>

\* Mutant: only an application without credentials is spared.
LastCredentialLate(a) == Cardinality(ClientsOf(a)) <= 0

LastCredential(a) == Cardinality(ClientsOf(a)) <= 1

CountClients(q) ==
  /\ At(q, "deleteApiClient", "checked")
  /\ IF LastCredential(job[q].app) THEN Answer(q)
     ELSE Goes(q, [job[q] EXCEPT !.step = "write"])
  /\ ReadOnly

DeleteApiClient(q) ==
  /\ At(q, "deleteApiClient", "write")
  /\ clients' = Restricted(clients, DOMAIN clients \ {job[q].client})
  /\ Answer(q)
  /\ UNCHANGED <<version, edorgs, apps, rows, posted, shaky, left>>

-----------------------------------------------------------------------------

\* A synchronisation inserts a row of an organisation, where there is one
\* already too, or deletes rows at an ODS, with which go its integration
\* applications when it goes itself.
EdorgsChange ==
  /\ Mishap
  /\ \E o \in Ods :
       \/ /\ \E x \in Org : edorgs' = edorgs \cup {<<o, x, left'.mishaps>>}
          /\ UNCHANGED rows
       \/ /\ \E gone \in SUBSET {e \in edorgs : e[1] = o} : edorgs' = edorgs \ gone
          /\ \E gone \in SUBSET {r \in rows : r.ods = o} : rows' = rows \ gone
  /\ shaky' = shaky \cup {a \in AppId : \E q \in Req : Busy(q, a) /\ job[q].kind = "putApplication"}
  /\ UNCHANGED <<version, api, job, posted>>

Handles(q) ==
  \/ Arrive(q) \/ Fails(q) \/ RemovalFails(q)
  \/ LookV2(q) \/ CheckV2(q) \/ CheckV3(q) \/ LookV3(q) \/ FindRow(q) \/ SaveRow(q)
  \/ PutApplication(q) \/ CheckNew(q) \/ PostApplication(q)
  \/ CheckGone(q) \/ RemoveRow(q) \/ DeleteApplication(q)
  \/ CheckPutClient(q) \/ PutApiClient(q) \/ CheckClient(q) \/ PostApiClient(q)
  \/ CountClients(q) \/ DeleteApiClient(q)

ApplicationsNext == EdorgsChange \/ \E q \in Req : Handles(q)

ApplicationsSpec == ApplicationsInit /\ [][ApplicationsNext]_vars

-----------------------------------------------------------------------------
(* Properties.                                                              *)

\* The request at q writes the organisations of application a.
Gives(q, a) ==
  /\ job[q].step = "write" /\ a \in DOMAIN apps'
  /\ \/ job[q].kind = "postApplication" /\ a \notin DOMAIN apps /\ job'[q] # job[q]
     \/ PutApplication(q) /\ job[q].app = a

\* An organisation was found twice, at two ODSs that share an odsInstanceId.
Twice(looked) == \E e, f \in looked : e # f /\ e[1] = f[1] /\ e[2] = f[2]

\* A request that gives an application its organisations gives none that it was
\* not asked for, and all it was asked for, each of which it found, whatever the
\* synchronisation does meanwhile and with however many data stores.  Counting
\* rows does not tell an organisation that is missing where it found another one
\* twice; PUT of v2 counts otherwise and is left aside
\* (admin-api.v3.controller.ts:363-421, 551-562, admin-api.v2.controller.ts:512-522).
GivenAsAsked ==
  [][\A q \in Req, a \in AppId :
       Gives(q, a) =>
         /\ apps'[a].orgs \subseteq job[q].ask.orgs
         /\ ((version = "v3" \/ job[q].kind = "postApplication") /\ ~ Twice(job[q].looked)) =>
              apps'[a].orgs = job[q].ask.orgs /\ Orgs(job[q].looked) = job[q].ask.orgs]_vars

\* Nobody checks the stores that a new credential of v3 is posted with, which
\* the application then has.
Unchecked(q) ==
  IF version = "v3" /\ job[q].kind = "postApiClient" THEN job[q].ask.ods ELSE {}

\* Request q changes or deletes application a, or a credential of it, as it read it.
Changes(q, a) ==
  /\ job[q].step = "write" /\ job'[q] # job[q] /\ UNCHANGED <<edorgs, left, rows>>
  /\ job[q].kind \notin {"putApiClient", "postApplication"}
  /\ job[q].app = a /\ a \in DOMAIN apps
  /\ apps[a].orgs = job[q].had /\ Stores(a) = job[q].stores

\* Whoever changes or deletes an application, or one of its credentials,
\* controls all its organisations at every store it has, before, and at every
\* store it has then, after, but for the stores a new credential of v3 names;
\* unless others changed the application after it was read (the checks for
\* unsafe operations, admin-api.v2.controller.ts:131-151,
\* admin-api.v3.controller.ts:743-757).
ChangedUnderControl ==
  [][\A q \in Req, a \in AppId :
       Changes(q, a) =>
         /\ job[q].stores \X job[q].had \subseteq job[q].valid
         /\ a \in DOMAIN apps' =>
              (Stores(a)' \ Unchecked(q)) \X apps'[a].orgs \subseteq job[q].valid]_vars

\* An application keeps a credential: "the last one may not be deleted",
\* unless requests overlap (admin-api.v2.controller.ts:832-862).
LastCredentialStays == \A a \in DOMAIN apps \ shaky : ClientsOf(a) # {}

\* Left to one request at a time, none of which fails half way or has what it
\* found change under it, an application has at most one row, the row names
\* organisations of the application and no other, all of them unless it names
\* one twice, and goes with it
\* (admin-api.v2.controller.ts:396-459, 531-548, 600-605).
RowsDescribeApplications ==
  \A a \in AppId \ shaky :
    (\A q \in Req : ~ Busy(q, a)) =>
      /\ \A r, s \in RowsOf(a) : r = s
      /\ \A r \in RowsOf(a) :
           /\ a \in DOMAIN apps /\ Orgs(r.edorgIds) \subseteq apps[a].orgs
           /\ Twice(r.edorgIds) \/ Orgs(r.edorgIds) = apps[a].orgs

=============================================================================
