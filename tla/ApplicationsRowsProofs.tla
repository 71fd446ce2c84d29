------------------------ MODULE ApplicationsRowsProofs ------------------------
(***************************************************************************)
(* The row of an integration application and its application agree when    *)
(* nobody is at work on it.                                                *)
(***************************************************************************)
EXTENDS ApplicationsProofs

\* There is no row of application a.
NoRow(a, rw) == \A r \in rw : r.app # a

\* Rows of organisations name no others, and all of them unless one is named
\* twice.
Tells(ids, orgs) == Orgs(ids) \subseteq orgs /\ (Twice(ids) \/ Orgs(ids) = orgs)

\* The rows of application a name its organisations.
Describe(a, ap, rw) ==
  \A r \in rw : r.app = a => a \in DOMAIN ap /\ Tells(r.edorgIds, ap[a].orgs)

\* A request writes in the order of its handler.
InOrder(j) ==
  /\ j.wrote => \/ j.kind = "putApplication" /\ j.step = "write"
                \/ j.kind = "postApplication" /\ j.step = "found"
                \/ j.kind = "deleteApplication" /\ j.step = "write" /\ j.remove = "done"
                \/ j.kind = "deleteApplication" /\ j.step = "removing"
  /\ j.remove # "no" => j.kind = "deleteApplication" /\ j.step \in {"write", "removing"}
  /\ j.kind = "deleteApplication" => j.step \in {"idle", "begin", "write", "removing"}
  /\ j.kind = "postApplication" /\ j.step \in {"begin", "write"} => j.app = 0

\* What a request that is alone at its application knows of the rows.
Knows(j, ed, ap, rw) ==
  /\ j.kind = "putApplication" => j.looked \subseteq ed
  /\ j.kind \in {"putApplication", "postApplication"} /\ j.step = "found" => NoRow(j.app, rw)
  /\ j.kind = "putApplication" /\ j.step = "write" =>
       \A r \in rw : r.app = j.app => Orgs(r.edorgIds) = Orgs(j.looked)
  /\ j.kind = "postApplication" /\ j.step = "found" =>
       j.app \in DOMAIN ap /\ Tells(j.looked, ap[j.app].orgs)
  /\ j.remove = "done" => NoRow(j.app, rw)

Told(j, sh, ed, ap, rw) ==
  /\ IsFiniteSet(j.looked) /\ InOrder(j)
  /\ j.step # "idle" /\ j.app \in AppId \ sh => Knows(j, ed, ap, rw)

AllTold == \A q \in Req : Told(job[q], shaky, edorgs, apps, rows)

RowsTidy == \A r \in rows : IsFiniteSet(r.edorgIds) /\ r.app <= posted.apps

OneRow(a, rw) == \A r, s \in rw : r.app = a /\ s.app = a => r = s

\* An application has one row, and as long as nobody has begun to write, a
\* true one.
RowsAgree ==
  \A a \in AppId \ shaky :
    /\ OneRow(a, rows)
    /\ (\A q \in Req : ~ (Busy(q, a) /\ job[q].wrote)) => Describe(a, apps, rows)

RowsInv == AppsInv /\ AllTold /\ RowsTidy /\ RowsAgree

-----------------------------------------------------------------------------
(* What a step changes.                                                     *)

\* No request knows what is so.
LEMMA IdleTold ==
  ASSUME NEW sh, NEW ed, NEW ap, NEW rw
  PROVE  Told(Idle, sh, ed, ap, rw)
<1>1. /\ Idle.looked = {} /\ Idle.step = "idle" /\ Idle.wrote = FALSE
      /\ Idle.kind = "putApplication" /\ Idle.remove = "no"
  BY DEF Idle
<1>2. IsFiniteSet({})
  BY FS_EmptySet
<1> QED BY <1>1, <1>2 DEF Told, InOrder

\* Whoever is alone at an application is alone.
LEMMA OnlyOne ==
  ASSUME AppsInv, NEW q \in Req, NEW a \in AppId \ shaky, Busy(q, a), NEW p \in Req, p # q
  PROVE  ~ Busy(p, a)
BY DEF AppsInv, Alone

\* Other applications are not touched: rows and organisations.
Apart(a) ==
  /\ \A r \in rows \cup rows' : r.app # a => (r \in rows <=> r \in rows')
  /\ \A b \in AppId : b # a =>
       /\ b \in DOMAIN apps <=> b \in DOMAIN apps'
       /\ b \in DOMAIN apps => apps'[b].orgs = apps[b].orgs

\* What others know stays true.
LEMMA OthersTold ==
  ASSUME RowsInv, NEW p \in Req, job'[p] = job[p], NEW a, Apart(a), edorgs' = edorgs,
         shaky \subseteq shaky', Busy(p, a) /\ a \in AppId => a \in shaky'
  PROVE  Told(job[p], shaky', edorgs, apps', rows')
<1> DEFINE j == job[p]
<1>1. Told(j, shaky, edorgs, apps, rows)
  BY DEF RowsInv, AllTold
<1>2. CASE j.step # "idle" /\ j.app \in AppId \ shaky'
  <2>1. j.app # a /\ j.app \in AppId
    BY <1>2, ApplicationsAssumption DEF Busy, AppId
  <2>2. Knows(j, edorgs, apps, rows)
    BY <1>1, <1>2 DEF Told
  <2>3. \A r \in rows' : r.app = j.app => r \in rows
    BY <2>1 DEF Apart
  <2>4. j.app \in DOMAIN apps => j.app \in DOMAIN apps' /\ apps'[j.app].orgs = apps[j.app].orgs
    BY <2>1 DEF Apart
  <2> HIDE DEF j
  <2>5. Knows(j, edorgs, apps', rows')
    BY <2>2, <2>3, <2>4 DEF Knows, NoRow
  <2> QED BY <1>1, <2>5 DEF Told, j
<1>3. CASE ~ (j.step # "idle" /\ j.app \in AppId \ shaky')
  BY <1>1, <1>3 DEF Told
<1> QED BY <1>2, <1>3

\* A request moves, and with it the application a, and its rows, alone.
LEMMA RowsMove ==
  ASSUME RowsInv, AppsInv', NEW q \in Req, NEW to, Goes(q, to), NEW a, Apart(a),
         edorgs' = edorgs, shaky \subseteq shaky', RowsTidy',
         job[q].step # "idle" => job[q].app \in {0, a},
         \A p \in Req : p # q /\ Busy(p, a) /\ a \in AppId => a \in shaky',
         Told(to, shaky', edorgs, apps', rows'),
         a \in AppId \ shaky' => OneRow(a, rows'),
         a \in AppId \ shaky' /\ ~ (to.step # "idle" /\ to.app = a /\ to.wrote) =>
           Describe(a, apps', rows')
  PROVE  RowsInv'
<1>1. job \in [Req -> JobType] /\ job'[q] = to /\ \A p \in Req : p # q => job'[p] = job[p]
  BY DEF Goes, RowsInv, AppsInv, JobsOK
<1>2. AllTold'
  <2> SUFFICES ASSUME NEW p \in Req PROVE Told(job'[p], shaky', edorgs', apps', rows')
    BY DEF AllTold
  <2>1. CASE p = q
    BY <1>1, <2>1
  <2>2. CASE p # q
    BY <1>1, <2>2, OthersTold
  <2> QED BY <2>1, <2>2
<1>3. RowsAgree'
  <2> SUFFICES ASSUME NEW b \in AppId \ shaky'
               PROVE  /\ OneRow(b, rows')
                      /\ (\A p \in Req : ~ (Busy(p, b)' /\ job'[p].wrote)) => Describe(b, apps', rows')
    BY DEF RowsAgree
  <2>1. CASE b = a
    <3>1. (\A p \in Req : ~ (Busy(p, b)' /\ job'[p].wrote)) =>
            ~ (to.step # "idle" /\ to.app = a /\ to.wrote)
      BY <1>1, <2>1 DEF Busy, AppId
    <3> QED BY <2>1, <3>1
  <2>2. CASE b # a
    <3>1. /\ OneRow(b, rows)
          /\ (\A p \in Req : ~ (Busy(p, b) /\ job[p].wrote)) => Describe(b, apps, rows)
      BY DEF RowsInv, RowsAgree
    <3>2. \A r \in rows' : r.app = b => r \in rows
      BY <2>2 DEF Apart
    <3>3. OneRow(b, rows')
      BY <3>1, <3>2 DEF OneRow
    <3>4. Describe(b, apps, rows) => Describe(b, apps', rows')
      BY <2>2, <3>2 DEF Describe, Apart
    <3>5. \A p \in Req : Busy(p, b) => Busy(p, b)' /\ job'[p] = job[p]
      <4>1. \A p \in Req : Busy(p, b) => p # q
        BY <2>2 DEF Busy
      <4> QED BY <1>1, <4>1 DEF Busy
    <3> QED BY <3>1, <3>3, <3>4, <3>5
  <2> QED BY <2>1, <2>2
<1> QED BY <1>2, <1>3 DEF RowsInv

\* A request that has not written moves, and touches nothing.
LEMMA RowsQuiet ==
  ASSUME RowsInv, AppsInv', NEW q \in Req, NEW to, Goes(q, to), job[q].step # "idle",
         UNCHANGED <<edorgs, apps, rows>>, posted'.apps = posted.apps, shaky' = shaky,
         ~ job[q].wrote, Told(to, shaky, edorgs, apps, rows)
  PROVE  RowsInv'
<1> DEFINE a == job[q].app
<1>1. Apart(a)
  BY DEF Apart
<1>2. RowsTidy'
  BY DEF RowsInv, RowsTidy
<1>3. \A p \in Req : p # q /\ Busy(p, a) /\ a \in AppId => a \in shaky
  BY DEF RowsInv, AppsInv, Alone, Busy
<1>4. a \in AppId \ shaky => OneRow(a, rows) /\ Describe(a, apps, rows)
  <2> SUFFICES ASSUME a \in AppId \ shaky PROVE OneRow(a, rows) /\ Describe(a, apps, rows)
    OBVIOUS
  <2>1. \A p \in Req : ~ (Busy(p, a) /\ job[p].wrote)
    BY <1>3
  <2> QED BY <2>1 DEF RowsInv, RowsAgree
<1> QED BY <1>1, <1>2, <1>3, <1>4, RowsMove

\* So does one that is answered.
LEMMA RowsAnswer ==
  ASSUME RowsInv, AppsInv', NEW q \in Req, Answer(q), job[q].step # "idle",
         UNCHANGED <<edorgs, apps, rows>>, posted'.apps = posted.apps, shaky' = shaky,
         ~ job[q].wrote
  PROVE  RowsInv'
BY IdleTold, RowsQuiet DEF Answer

-----------------------------------------------------------------------------
(* Rows that are looked for.                                                *)

\* What is found is of the table, and finite.
LEMMA AvailableFinite ==
  ASSUME AppsInv, NEW ask, NEW stores
  PROVE  IsFiniteSet(Available(ask, stores)) /\ Available(ask, stores) \subseteq edorgs
<1>1. Available(ask, stores) \subseteq edorgs
  BY DEF Available
<1> QED BY <1>1, FS_Subset DEF AppsInv, EdorgsOK

\* A row that may be kept has the organisations that were found.
LEMMA KeptSame ==
  ASSUME NEW ask, NEW looked, looked \subseteq edorgs, NEW r, IsFiniteSet(r.edorgIds), Keeps(ask, looked, r)
  PROVE  Orgs(r.edorgIds) = Orgs(looked)
<1> DEFINE found == {e \in edorgs : e[1] \in {l[1] : l \in looked} /\ e[2] \in Orgs(looked)}
<1>1. Orgs(found) = Orgs(looked)
  BY DEF Orgs
<1>2. Cardinality(found) = Cardinality(r.edorgIds) /\ found \subseteq r.edorgIds
  BY DEF Keeps
<1> HIDE DEF found
<1>3. found = r.edorgIds
  <2>1. IsFiniteSet(found)
    BY <1>2, FS_Subset
  <2>2. found # r.edorgIds => Cardinality(found) < Cardinality(r.edorgIds)
    BY <1>2, FS_Subset
  <2>3. Cardinality(found) \in Nat
    BY <2>1, FS_CardinalityType
  <2> QED BY <1>2, <2>2, <2>3
<1> QED BY <1>1, <1>3

-----------------------------------------------------------------------------
(* Steps that read.                                                         *)

\* What a request at a step is.
LEMMA RequestIs ==
  ASSUME RowsInv, NEW q \in Req
  PROVE  /\ job[q] \in JobType /\ JobOK(job[q], posted, clients)
         /\ Told(job[q], shaky, edorgs, apps, rows)
         /\ IsFiniteSet(job[q].looked) /\ InOrder(job[q])
         /\ job[q].step # "idle" /\ job[q].app \in AppId \ shaky => Knows(job[q], edorgs, apps, rows)
BY DEF RowsInv, AppsInv, JobsOK, JobOK, AllTold, Told

\* A step that finds nothing new about the rows.
LEMMA StepsOn ==
  ASSUME RowsInv, NEW q \in Req, ~ job[q].wrote, job[q].remove = "no", job[q].step # "idle",
         NEW to, ~ to.wrote, to.kind = job[q].kind, to.app = job[q].app,
         to.looked = job[q].looked, to.remove = "no",
         to.kind \in {"putApplication", "postApplication"} => to.step \in {"looked", "checked"},
         to.kind # "deleteApplication"
  PROVE  Told(to, shaky, edorgs, apps, rows)
<1>1. /\ IsFiniteSet(job[q].looked)
      /\ job[q].app \in AppId \ shaky => Knows(job[q], edorgs, apps, rows)
  BY RequestIs
<1>2. InOrder(to)
  BY DEF InOrder
<1>3. to.app \in AppId \ shaky => Knows(to, edorgs, apps, rows)
  BY <1>1 DEF Knows
<1> QED BY <1>1, <1>2, <1>3 DEF Told

\* Nothing was written before the steps that check.
LEMMA NotYet ==
  ASSUME RowsInv, NEW q \in Req
  PROVE  /\ job[q].step \in {"begin", "looked", "checked"} => ~ job[q].wrote
         /\ job[q].kind # "deleteApplication" => job[q].remove = "no"
         /\ job[q].step \in {"begin", "looked", "checked"} => job[q].remove = "no"
         /\ job[q].kind \in {"putApiClient", "postApiClient", "deleteApiClient"} => ~ job[q].wrote
BY RequestIs DEF InOrder

\* A PUT looks for the organisations.
LEMMA LooksRows ==
  ASSUME RowsInv, AppsInv', NEW q \in Req, LookV2(q) \/ LookV3(q)
  PROVE  RowsInv'
<1> DEFINE j == job[q]
<1>1. /\ j.kind = "putApplication" /\ j.step \in {"begin", "looked"}
      /\ UNCHANGED <<edorgs, apps, rows, posted, shaky>>
  BY DEF LookV2, LookV3, At, ReadOnly, api
<1>2. ~ j.wrote /\ j.remove = "no" /\ j \in JobType
  BY <1>1, NotYet, RequestIs
<1>3. CASE Answer(q)
  BY <1>1, <1>2, <1>3, RowsAnswer
<1>4. ASSUME NEW stores, NEW step \in {"looked", "checked"},
             Goes(q, [j EXCEPT !.step = step, !.looked = Available(j.ask, stores)])
      PROVE  RowsInv'
  <2> DEFINE found == Available(j.ask, stores)
             to == [j EXCEPT !.step = step, !.looked = found]
  <2>1. IsFiniteSet(found) /\ found \subseteq edorgs
    BY AvailableFinite DEF RowsInv
  <2>2. /\ to.kind = "putApplication" /\ to.step = step /\ to.looked = found
        /\ to.wrote = j.wrote /\ to.remove = j.remove
    BY <1>1, <1>2 DEF JobType
  <2>3. Goes(q, to)
    BY <1>4
  <2> HIDE DEF to, found
  <2>4. Told(to, shaky, edorgs, apps, rows)
    BY <1>2, <2>1, <2>2 DEF Told, InOrder, Knows
  <2> QED BY <1>1, <1>2, <2>3, <2>4, RowsQuiet
<1>5. CASE LookV2(q) /\ ~ Answer(q)
  <2>1. Goes(q, [j EXCEPT !.step = "looked", !.looked = Available(j.ask, j.ask.ods)])
    BY <1>5 DEF LookV2
  <2> QED BY <1>4, <2>1
<1>6. CASE LookV3(q) /\ ~ Answer(q)
  <2>1. Goes(q, [j EXCEPT !.step = "checked", !.looked = Available(j.ask, j.stores)])
    BY <1>6 DEF LookV3
  <2> QED BY <1>4, <2>1
<1> QED BY <1>3, <1>5, <1>6

\* A PUT, or a request on credentials, is checked.
LEMMA ChecksRows ==
  ASSUME RowsInv, AppsInv', NEW q \in Req,
         CheckV2(q) \/ CheckV3(q) \/ CheckPutClient(q) \/ CheckClient(q) \/ CountClients(q)
  PROVE  RowsInv'
<1> DEFINE j == job[q]
<1>1. /\ UNCHANGED <<edorgs, apps, rows, posted, shaky>>
      /\ j.step \in {"begin", "looked", "checked"}
      /\ \/ j.kind = "putApplication"
         \/ j.kind \in {"putApiClient", "postApiClient", "deleteApiClient"}
  BY DEF CheckV2, CheckV3, CheckPutClient, CheckClient, CountClients, At, ReadOnly, api
<1>2. ~ j.wrote /\ j.remove = "no" /\ j \in JobType
  BY <1>1, NotYet, RequestIs
<1>3. CASE Answer(q)
  BY <1>1, <1>2, <1>3, RowsAnswer
<1>4. ASSUME NEW to, Goes(q, to), to.kind = j.kind, to.app = j.app, to.looked = j.looked,
             to.wrote = j.wrote, to.remove = j.remove,
             j.kind = "putApplication" => to.step \in {"looked", "checked"}
      PROVE  RowsInv'
  <2>1. Told(to, shaky, edorgs, apps, rows)
    BY <1>1, <1>2, <1>4, StepsOn
  <2> QED BY <1>1, <1>2, <1>4, <2>1, RowsQuiet
<1>5. CASE (CheckV2(q) \/ CheckV3(q)) /\ ~ Answer(q)
  <2>1. PICK step \in {"looked", "checked"} :
          Goes(q, [j EXCEPT !.step = step, !.stores = Stores(j.app), !.had = apps[j.app].orgs])
    BY <1>5 DEF CheckV2, CheckV3
  <2> DEFINE to == [j EXCEPT !.step = step, !.stores = Stores(j.app), !.had = apps[j.app].orgs]
  <2>2. /\ to.kind = j.kind /\ to.app = j.app /\ to.looked = j.looked /\ to.wrote = j.wrote
        /\ to.remove = j.remove /\ to.step = step
    BY <1>2 DEF JobType
  <2> HIDE DEF to
  <2> QED BY <1>4, <2>1, <2>2 DEF to
<1>6. CASE (CheckPutClient(q) \/ CountClients(q)) /\ ~ Answer(q)
  <2> DEFINE to == [j EXCEPT !.step = "write"]
  <2>1. Goes(q, to) /\ j.kind # "putApplication"
    BY <1>6 DEF CheckPutClient, CountClients, At
  <2>2. /\ to.kind = j.kind /\ to.app = j.app /\ to.looked = j.looked /\ to.wrote = j.wrote
        /\ to.remove = j.remove
    BY <1>2 DEF JobType
  <2> HIDE DEF to
  <2> QED BY <1>4, <2>1, <2>2
<1>7. CASE CheckClient(q) /\ ~ Answer(q)
  <2> DEFINE to == [j EXCEPT !.step = IF j.kind = "postApiClient" THEN "write" ELSE "checked",
                             !.stores = Stores(j.app), !.had = apps[j.app].orgs]
  <2>1. Goes(q, to) /\ j.kind # "putApplication"
    BY <1>7 DEF CheckClient
  <2>2. /\ to.kind = j.kind /\ to.app = j.app /\ to.looked = j.looked /\ to.wrote = j.wrote
        /\ to.remove = j.remove
    BY <1>2 DEF JobType
  <2> HIDE DEF to
  <2> QED BY <1>4, <2>1, <2>2
<1> QED BY <1>3, <1>5, <1>6, <1>7

\* An application is about to be posted.
LEMMA ChecksNewRows ==
  ASSUME RowsInv, AppsInv', NEW q \in Req, CheckNew(q)
  PROVE  RowsInv'
<1> DEFINE j == job[q]
           found == Available(j.ask, j.ask.ods)
           to == [j EXCEPT !.step = "write", !.looked = found]
<1>1. /\ j.kind = "postApplication" /\ j.step = "begin"
      /\ UNCHANGED <<edorgs, apps, rows, posted, shaky>>
  BY DEF CheckNew, At, ReadOnly, api
<1>2. ~ j.wrote /\ j.remove = "no" /\ j.app = 0 /\ j \in JobType
  BY <1>1, NotYet, RequestIs DEF InOrder
<1>3. CASE Answer(q)
  BY <1>1, <1>2, <1>3, RowsAnswer
<1>4. CASE ~ Answer(q)
  <2>1. Goes(q, to)
    BY <1>4 DEF CheckNew
  <2>2. IsFiniteSet(found)
    BY AvailableFinite DEF RowsInv
  <2>3. /\ to.kind = "postApplication" /\ to.step = "write" /\ to.looked = found
        /\ to.wrote = j.wrote /\ to.remove = j.remove /\ to.app = j.app
    BY <1>1, <1>2 DEF JobType
  <2> HIDE DEF to, found
  <2>4. Told(to, shaky, edorgs, apps, rows)
    BY <1>2, <2>2, <2>3 DEF Told, InOrder, Knows
  <2> QED BY <1>1, <1>2, <2>1, <2>4, RowsQuiet
<1> QED BY <1>3, <1>4

\* An application is about to be deleted.
LEMMA ChecksGoneRows ==
  ASSUME RowsInv, AppsInv', NEW q \in Req, CheckGone(q)
  PROVE  RowsInv'
<1> DEFINE j == job[q]
           to == [j EXCEPT !.step = "write", !.stores = Stores(j.app), !.had = apps[j.app].orgs,
                           !.remove = "find"]
<1>1. /\ j.kind = "deleteApplication" /\ j.step = "begin"
      /\ UNCHANGED <<edorgs, apps, rows, posted, shaky>>
  BY DEF CheckGone, At, ReadOnly, api
<1>2. ~ j.wrote /\ j \in JobType /\ IsFiniteSet(j.looked)
  BY <1>1, NotYet, RequestIs
<1>3. CASE Answer(q)
  BY <1>1, <1>2, <1>3, RowsAnswer
<1>4. CASE ~ Answer(q)
  <2>1. Goes(q, to)
    BY <1>4 DEF CheckGone
  <2>2. /\ to.kind = "deleteApplication" /\ to.step = "write" /\ to.looked = j.looked
        /\ to.wrote = j.wrote /\ to.remove = "find"
    BY <1>1, <1>2 DEF JobType
  <2> HIDE DEF to
  <2>3. Told(to, shaky, edorgs, apps, rows)
    BY <1>2, <2>2 DEF Told, InOrder, Knows
  <2> QED BY <1>1, <1>2, <2>1, <2>3, RowsQuiet
<1> QED BY <1>3, <1>4


-----------------------------------------------------------------------------
(* Steps of a PUT.                                                          *)

\* Nobody else is busy with the application of a request, unless it is shaky.
LEMMA OthersElsewhere ==
  ASSUME RowsInv, NEW q \in Req, job[q].step # "idle"
  PROVE  /\ \A p \in Req : p # q /\ Busy(p, job[q].app) /\ job[q].app \in AppId =>
              job[q].app \in shaky
         /\ job[q].app \in AppId \ shaky =>
              /\ OneRow(job[q].app, rows)
              /\ ~ job[q].wrote => Describe(job[q].app, apps, rows)
<1> DEFINE a == job[q].app
<1>1. ASSUME NEW p \in Req, p # q, Busy(p, a), a \in AppId PROVE a \in shaky
  BY <1>1 DEF RowsInv, AppsInv, Alone, Busy
<1>2. a \in AppId \ shaky => OneRow(a, rows)
  BY DEF RowsInv, RowsAgree
<1>3. ASSUME a \in AppId \ shaky, ~ job[q].wrote PROVE Describe(a, apps, rows)
  <2>1. \A p \in Req : ~ (Busy(p, a) /\ job[p].wrote)
    BY <1>1, <1>3
  <2> QED BY <1>3, <2>1 DEF RowsInv, RowsAgree
<1> QED BY <1>1, <1>2, <1>3

\* A PUT finds the row, or finds that there is none.
LEMMA FindsRows ==
  ASSUME RowsInv, AppsInv', NEW q \in Req, FindRow(q)
  PROVE  RowsInv'
<1> DEFINE j == job[q]
           a == j.app
<1>1. /\ j.kind = "putApplication" /\ j.step = "checked"
      /\ UNCHANGED <<edorgs, apps, rows, posted, shaky>>
  BY DEF FindRow, At, ReadOnly, api
<1>2. /\ ~ j.wrote /\ j.remove = "no" /\ j \in JobType /\ IsFiniteSet(j.looked)
      /\ a \in AppId \ shaky => Knows(j, edorgs, apps, rows)
  BY <1>1, NotYet, RequestIs
<1>3. CASE Answer(q)
  BY <1>1, <1>2, <1>3, RowsAnswer
<1>4. ASSUME NEW step \in {"found", "write"}, Goes(q, [j EXCEPT !.step = step]),
             a \in AppId \ shaky /\ step = "found" => NoRow(a, rows),
             a \in AppId \ shaky /\ step = "write" =>
               \A r \in rows : r.app = a => Orgs(r.edorgIds) = Orgs(j.looked)
      PROVE  RowsInv'
  <2> DEFINE to == [j EXCEPT !.step = step]
  <2>1. /\ to.kind = "putApplication" /\ to.step = step /\ to.app = a /\ to.looked = j.looked
        /\ to.wrote = j.wrote /\ to.remove = j.remove
    BY <1>1, <1>2 DEF JobType
  <2>2. Goes(q, to)
    BY <1>4
  <2> HIDE DEF to
  <2>3. IsFiniteSet(to.looked) /\ InOrder(to)
    BY <1>2, <2>1 DEF InOrder
  <2>4. to.app \in AppId \ shaky => Knows(to, edorgs, apps, rows)
    BY <1>1, <1>2, <1>4, <2>1 DEF Knows
  <2>5. Told(to, shaky, edorgs, apps, rows)
    BY <2>3, <2>4 DEF Told
  <2> QED BY <1>1, <1>2, <2>2, <2>5, RowsQuiet
<1>5. CASE RowsOf(a) = {} /\ ~ Answer(q)
  <2>1. PICK step \in {"found", "write"} : Goes(q, [j EXCEPT !.step = step])
    BY <1>5 DEF FindRow
  <2>2. \A r \in rows : r.app # a
    BY <1>5 DEF RowsOf
  <2> QED BY <1>4, <2>1, <2>2 DEF NoRow
<1>6. CASE RowsOf(a) # {} /\ ~ Answer(q)
  <2>1. PICK r \in RowsOf(a) : Keeps(j.ask, j.looked, r) /\ Goes(q, [j EXCEPT !.step = "write"])
    BY <1>6 DEF FindRow
  <2>2. r \in rows /\ r.app = a /\ IsFiniteSet(r.edorgIds)
    BY DEF RowsOf, RowsInv, RowsTidy
  <2>3. ASSUME a \in AppId \ shaky
        PROVE  \A s \in rows : s.app = a => Orgs(s.edorgIds) = Orgs(j.looked)
    <3>1. j.looked \subseteq edorgs /\ AppsInv
      BY <1>1, <1>2, <2>3 DEF Knows, RowsInv
    <3>2. Orgs(r.edorgIds) = Orgs(j.looked)
      BY <1>2, <2>1, <2>2, <3>1, KeptSame
    <3>3. OneRow(a, rows)
      BY <1>1, <2>3, OthersElsewhere
    <3> QED BY <2>2, <3>2, <3>3 DEF OneRow
  <2> QED BY <1>4, <2>1, <2>3
<1> QED BY <1>3, <1>5, <1>6

\* The Admin API puts the application.
LEMMA PutsRows ==
  ASSUME RowsInv, AppsInv', NEW q \in Req, PutApplication(q)
  PROVE  RowsInv'
<1> DEFINE j == job[q]
           a == j.app
<1>1. /\ j.kind = "putApplication" /\ j.step = "write" /\ Goes(q, Idle)
      /\ UNCHANGED <<edorgs, rows, posted>> /\ shaky \subseteq shaky'
  BY DEF PutApplication, At, Answer
<1>2. Knows(j, edorgs, apps, rows) \/ a \notin AppId \ shaky
  BY <1>1, RequestIs
<1>3. Apart(a) /\ DOMAIN apps' = DOMAIN apps
  <2>1. AppsOK
    BY DEF RowsInv, AppsInv
  <2>2. \A b \in DOMAIN apps : b # a => apps'[b] = apps[b]
    BY <2>1 DEF PutApplication, AppsOK
  <2>3. DOMAIN apps' = DOMAIN apps
    BY PutApplicationKeeps DEF RowsInv
  <2> QED BY <1>1, <2>2, <2>3 DEF Apart
<1>4. RowsTidy'
  BY <1>1 DEF RowsInv, RowsTidy
<1>5. Told(Idle, shaky', edorgs, apps', rows') /\ Idle.step = "idle"
  BY IdleTold DEF Idle
<1>6. ASSUME a \in AppId \ shaky' PROVE OneRow(a, rows') /\ Describe(a, apps', rows')
  <2>1. OneRow(a, rows) /\ (~ j.wrote => Describe(a, apps, rows))
    BY <1>1, <1>6, OthersElsewhere
  <2>2. CASE a \in DOMAIN apps
    <3>1. apps'[a].orgs = Orgs(j.looked)
      BY <2>2, PutApplicationKeeps DEF RowsInv
    <3>2. \A r \in rows : r.app = a => Orgs(r.edorgIds) = Orgs(j.looked)
      BY <1>1, <1>2, <1>6 DEF Knows
    <3> QED BY <1>1, <1>3, <2>1, <2>2, <3>1, <3>2 DEF Describe, Tells
  <2>3. CASE a \notin DOMAIN apps
    <3>1. UNCHANGED apps /\ ~ j.wrote
      BY <1>6, <2>3 DEF PutApplication
    <3> QED BY <1>1, <2>1, <3>1
  <2> QED BY <2>2, <2>3
<1>7. \A p \in Req : p # q /\ Busy(p, a) /\ a \in AppId => a \in shaky'
  BY <1>1, OthersElsewhere
<1> QED BY <1>1, <1>3, <1>4, <1>5, <1>6, <1>7, RowsMove

\* A row is saved, for an application that is put or has been posted.
LEMMA SavesRows ==
  ASSUME RowsInv, AppsInv', NEW q \in Req, SaveRow(q)
  PROVE  RowsInv'
<1> DEFINE j == job[q]
           a == j.app
<1>1. /\ j.kind \in {"putApplication", "postApplication"} /\ j.step = "found"
      /\ UNCHANGED <<edorgs, apps, shaky>> /\ posted' = [posted EXCEPT !.rows = @ + 1]
  BY DEF SaveRow, api
<1>2. /\ IsFiniteSet(j.looked) /\ InOrder(j) /\ j \in JobType
      /\ a \in AppId \ shaky => Knows(j, edorgs, apps, rows)
  BY <1>1, RequestIs
<1>3. posted'.apps = posted.apps /\ a <= posted.apps
  BY <1>1, RequestIs DEF RowsInv, AppsInv, CountsOK, JobOK, Names
<1>4. PICK o : rows' = rows \cup {[id |-> posted.rows + 1, app |-> a, ods |-> o,
                                   edorgIds |-> j.looked]}
  BY DEF SaveRow
<1> DEFINE row == [id |-> posted.rows + 1, app |-> a, ods |-> o, edorgIds |-> j.looked]
<1>5. rows' = rows \cup {row} /\ row.app = a /\ row.edorgIds = j.looked
  BY <1>4
<1> HIDE DEF row
<1>6. Apart(a)
  BY <1>1, <1>5 DEF Apart
<1>7. RowsTidy'
  BY <1>2, <1>3, <1>5 DEF RowsInv, RowsTidy
<1>8. a \in AppId \ shaky => NoRow(a, rows)
  BY <1>1, <1>2 DEF Knows
<1>9. a \in AppId \ shaky =>
        OneRow(a, rows') /\ \A r \in rows' : r.app = a => r.edorgIds = j.looked
  BY <1>5, <1>8 DEF NoRow, OneRow
<1>10. \A p \in Req : p # q /\ Busy(p, a) /\ a \in AppId => a \in shaky
  BY <1>1, OthersElsewhere
<1>11. CASE j.kind = "postApplication"
  <2>1. Goes(q, Idle) /\ Idle.step = "idle"
    BY <1>11 DEF SaveRow, Answer, Idle
  <2>2. Told(Idle, shaky', edorgs, apps', rows')
    BY IdleTold
  <2>3. a \in AppId \ shaky => Describe(a, apps', rows')
    BY <1>1, <1>2, <1>9, <1>11 DEF Knows, Describe
  <2> QED BY <1>1, <1>6, <1>7, <1>9, <1>10, <2>1, <2>2, <2>3, RowsMove
<1>12. CASE j.kind = "putApplication"
  <2> DEFINE to == [j EXCEPT !.step = "write", !.wrote = TRUE]
  <2>1. Goes(q, to)
    BY <1>12 DEF SaveRow
  <2>2. /\ to.kind = "putApplication" /\ to.step = "write" /\ to.app = a
        /\ to.looked = j.looked /\ to.wrote /\ to.remove = j.remove
    BY <1>2, <1>12 DEF JobType
  <2> HIDE DEF to
  <2>3. IsFiniteSet(to.looked) /\ InOrder(to)
    BY <1>2, <1>12, <2>2 DEF InOrder
  <2>4. to.app \in AppId \ shaky => Knows(to, edorgs, apps', rows')
    BY <1>1, <1>2, <1>9, <1>12, <2>2 DEF Knows, InOrder
  <2>5. Told(to, shaky', edorgs, apps', rows')
    BY <1>1, <2>3, <2>4 DEF Told
  <2> QED BY <1>1, <1>6, <1>7, <1>9, <1>10, <2>1, <2>2, <2>5, RowsMove
<1> QED BY <1>1, <1>11, <1>12

-----------------------------------------------------------------------------
(* Applications that come and go.                                           *)

\* The Admin API makes an application, of which there is no row.
LEMMA PostsRows ==
  ASSUME RowsInv, AppsInv', NEW q \in Req, PostApplication(q)
  PROVE  RowsInv'
<1> DEFINE j == job[q]
           a == posted.apps + 1
<1>1. /\ j.kind = "postApplication" /\ j.step = "write"
      /\ UNCHANGED <<edorgs, rows, shaky>>
      /\ posted' = [posted EXCEPT !.apps = a, !.clients = posted.clients + 1]
  BY DEF PostApplication, At
<1>2. /\ IsFiniteSet(j.looked) /\ InOrder(j) /\ j \in JobType
      /\ j.app = 0 /\ Tells(j.looked, j.ask.orgs) /\ j.remove = "no"
  BY <1>1, RequestIs DEF InOrder, JobOK, Given, Whole, Tells
<1>3. posted \in [apps : 0..MaxApps, clients : 0..MaxClients, rows : Nat]
  BY DEF RowsInv, AppsInv, CountsOK
<1>4. posted'.apps = a /\ posted.apps \in Nat
  <2>1. posted'.apps = a
    <3> HIDE DEF a
    <3> QED BY <1>1, <1>3
  <2> QED BY <1>3, <2>1, ApplicationsAssumption
<1>5. \A r \in rows : r.app \in Nat /\ r.app <= posted.apps /\ IsFiniteSet(r.edorgIds)
  BY ApplicationsAssumption DEF RowsInv, RowsTidy, AppsInv, RowsOK, AppId
<1>6. RowsTidy' /\ NoRow(a, rows) /\ rows' = rows
  BY <1>1, <1>4, <1>5 DEF RowsTidy, NoRow
<1>7. /\ DOMAIN apps' = DOMAIN apps \cup {a} /\ apps'[a].orgs = j.ask.orgs
      /\ \A b \in DOMAIN apps : apps'[b] = apps[b]
  BY PostApplicationKeeps DEF RowsInv
<1>8. ASSUME NEW p \in Req PROVE ~ Busy(p, a)
  <2>1. job[p].app \in Nat /\ job[p].app <= posted.apps
    BY RequestIs, ApplicationsAssumption DEF JobOK, JobType, Names
  <2> QED BY <1>4, <2>1 DEF Busy
<1> HIDE DEF a
<1>9. Apart(a)
  BY <1>1, <1>7 DEF Apart
<1>10. OneRow(a, rows') /\ Describe(a, apps', rows')
  BY <1>6 DEF NoRow, OneRow, Describe
<1>11. CASE Answer(q)
  <2>1. Told(Idle, shaky', edorgs, apps', rows')
    BY IdleTold
  <2> QED BY <1>1, <1>2, <1>6, <1>8, <1>9, <1>10, <1>11, <2>1, RowsMove DEF Answer
<1>12. CASE ~ Answer(q)
  <2> DEFINE to == [j EXCEPT !.step = "found", !.app = a, !.wrote = TRUE]
  <2>1. Goes(q, to)
    BY <1>12 DEF PostApplication, a
  <2>2. /\ to.kind = "postApplication" /\ to.step = "found" /\ to.app = a
        /\ to.looked = j.looked /\ to.wrote /\ to.remove = "no"
    BY <1>1, <1>2 DEF JobType
  <2> HIDE DEF to
  <2>3. IsFiniteSet(to.looked) /\ InOrder(to)
    BY <1>2, <2>2 DEF InOrder
  <2>4. Knows(to, edorgs, apps', rows')
    BY <1>2, <1>6, <1>7, <2>2 DEF Knows
  <2>5. Told(to, shaky', edorgs, apps', rows')
    BY <2>3, <2>4 DEF Told
  <2> QED BY <1>1, <1>2, <1>6, <1>8, <1>9, <1>10, <2>1, <2>5, RowsMove
<1> QED BY <1>11, <1>12

\* The row of an application is removed, before or after it.
LEMMA RemovesRows ==
  ASSUME RowsInv, AppsInv', NEW q \in Req, RemoveRow(q)
  PROVE  RowsInv'
<1> DEFINE j == job[q]
           a == j.app
<1>1. /\ j.kind = "deleteApplication" /\ j.remove = "find"
      /\ UNCHANGED <<edorgs, apps, posted, shaky>>
  BY DEF RemoveRow, api
<1>2. /\ IsFiniteSet(j.looked) /\ InOrder(j) /\ j \in JobType /\ j.step \in {"write", "removing"}
  BY <1>1, RequestIs DEF InOrder
<1>3. rows' \subseteq rows /\ \A r \in rows : r.app # a => r \in rows'
  BY DEF RemoveRow, RowsOf
<1>4. Apart(a) /\ RowsTidy'
  BY <1>1, <1>3 DEF Apart, RowsInv, RowsTidy
<1>5. a \in AppId \ shaky => NoRow(a, rows')
  <2> SUFFICES ASSUME a \in AppId \ shaky PROVE NoRow(a, rows')
    OBVIOUS
  <2>1. OneRow(a, rows)
    BY <1>2, OthersElsewhere
  <2> QED BY <1>3, <2>1 DEF RemoveRow, RowsOf, NoRow, OneRow
<1>6. a \in AppId \ shaky => OneRow(a, rows') /\ Describe(a, apps', rows')
  BY <1>5 DEF NoRow, OneRow, Describe
<1>7. \A p \in Req : p # q /\ Busy(p, a) /\ a \in AppId => a \in shaky
  BY <1>2, OthersElsewhere
<1>8. CASE Answer(q)
  <2>1. Told(Idle, shaky', edorgs, apps', rows')
    BY IdleTold
  <2> QED BY <1>1, <1>4, <1>6, <1>7, <1>8, <2>1, RowsMove DEF Answer
<1>9. CASE ~ Answer(q)
  <2> DEFINE to == [j EXCEPT !.remove = "done", !.wrote = TRUE]
  <2>1. Goes(q, to) /\ j.step = "write"
    BY <1>2, <1>9 DEF RemoveRow
  <2>2. /\ to.kind = "deleteApplication" /\ to.step = "write" /\ to.app = a
        /\ to.looked = j.looked /\ to.wrote /\ to.remove = "done"
    BY <1>1, <1>2, <2>1 DEF JobType
  <2> HIDE DEF to
  <2>3. IsFiniteSet(to.looked) /\ InOrder(to)
    BY <1>2, <2>2 DEF InOrder
  <2>4. to.app \in AppId \ shaky => Knows(to, edorgs, apps', rows')
    BY <1>5, <2>2 DEF Knows
  <2>5. Told(to, shaky', edorgs, apps', rows')
    BY <1>1, <2>3, <2>4 DEF Told
  <2> QED BY <1>1, <1>4, <1>6, <1>7, <2>1, <2>5, RowsMove
<1> QED BY <1>8, <1>9

\* An application is deleted: its row is gone, or about to be removed.
LEMMA DeletesRows ==
  ASSUME RowsInv, AppsInv', NEW q \in Req, DeleteApplication(q)
  PROVE  RowsInv'
<1> DEFINE j == job[q]
           a == j.app
<1>1. /\ j.kind = "deleteApplication" /\ j.step = "write"
      /\ UNCHANGED <<edorgs, rows, posted, shaky>>
      /\ apps' = [b \in DOMAIN apps \ {a} |-> apps[b]]
  BY DEF DeleteApplication, At, Restricted
<1>2. /\ IsFiniteSet(j.looked) /\ InOrder(j) /\ j \in JobType
      /\ a \in AppId \ shaky => Knows(j, edorgs, apps, rows)
  BY <1>1, RequestIs
<1>3. Apart(a) /\ RowsTidy'
  BY <1>1 DEF Apart, RowsInv, RowsTidy
<1>4. a \in AppId \ shaky => OneRow(a, rows)
  BY <1>1, OthersElsewhere
<1>5. \A p \in Req : p # q /\ Busy(p, a) /\ a \in AppId => a \in shaky
  BY <1>1, OthersElsewhere
<1>6. CASE j.remove = "done"
  <2>1. a \in AppId \ shaky => Describe(a, apps', rows')
    BY <1>1, <1>2, <1>6 DEF Knows, NoRow, Describe
  <2>2. Told(Idle, shaky', edorgs, apps', rows')
    BY IdleTold
  <2>3. Goes(q, Idle)
    BY <1>6 DEF DeleteApplication, Answer
  <2> QED BY <1>1, <1>3, <1>4, <1>5, <2>1, <2>2, <2>3, RowsMove
<1>7. CASE j.remove # "done"
  <2> DEFINE to == [j EXCEPT !.step = "removing", !.wrote = TRUE]
  <2>1. Goes(q, to)
    BY <1>7 DEF DeleteApplication
  <2>2. /\ to.kind = "deleteApplication" /\ to.step = "removing" /\ to.app = a
        /\ to.looked = j.looked /\ to.wrote /\ to.remove = j.remove
    BY <1>1, <1>2 DEF JobType
  <2> HIDE DEF to
  <2>3. IsFiniteSet(to.looked) /\ InOrder(to)
    BY <1>2, <2>2 DEF InOrder
  <2>4. Knows(to, edorgs, apps', rows')
    BY <1>7, <2>2 DEF Knows
  <2>5. Told(to, shaky', edorgs, apps', rows')
    BY <2>3, <2>4 DEF Told
  <2>6. to.step # "idle"
    BY <2>2
  <2> QED BY <1>1, <1>3, <1>4, <1>5, <2>1, <2>2, <2>5, <2>6, RowsMove
<1> QED BY <1>6, <1>7

\* A call fails: whoever had written leaves the application shaky, and so does
\* a removal that fails; a removal that nobody awaits goes on.
LEMMA FailsRows ==
  ASSUME RowsInv, AppsInv', NEW q \in Req, Fails(q) \/ RemovalFails(q)
  PROVE  RowsInv'
<1> DEFINE j == job[q]
           a == j.app
<1>1. /\ j.step # "idle" /\ UNCHANGED <<edorgs, apps, rows, posted>>
      /\ shaky \subseteq shaky' /\ (j.wrote => a \in shaky')
  BY DEF Fails, RemovalFails, At, api
<1>2. Apart(a) /\ RowsTidy'
  BY <1>1 DEF Apart, RowsInv, RowsTidy
<1>3. a \in AppId \ shaky' => OneRow(a, rows') /\ Describe(a, apps', rows')
  BY <1>1, OthersElsewhere
<1>4. \A p \in Req : p # q /\ Busy(p, a) /\ a \in AppId => a \in shaky'
  BY <1>1, OthersElsewhere
<1>5. IsFiniteSet(j.looked) /\ InOrder(j) /\ j \in JobType
  BY RequestIs
<1>6. CASE Goes(q, Idle)
  <2>1. Told(Idle, shaky', edorgs, apps', rows') /\ Idle.step = "idle"
    BY IdleTold DEF Idle
  <2> QED BY <1>1, <1>2, <1>3, <1>4, <1>6, <2>1, RowsMove
<1>7. CASE Fails(q) /\ ~ Goes(q, Idle)
  <2> DEFINE to == [j EXCEPT !.step = "removing"]
  <2>1. /\ j.kind = "deleteApplication" /\ j.step = "write" /\ j.remove = "find"
        /\ Goes(q, to)
    BY <1>7 DEF Fails, Answer, At
  <2>2. /\ to.kind = "deleteApplication" /\ to.step = "removing" /\ to.app = a
        /\ to.looked = j.looked /\ to.wrote = j.wrote /\ to.remove = "find"
    BY <1>5, <2>1 DEF JobType
  <2> HIDE DEF to
  <2>3. Told(to, shaky', edorgs, apps', rows')
    BY <1>5, <2>1, <2>2 DEF Told, InOrder, Knows
  <2> QED BY <1>1, <1>2, <1>3, <1>4, <2>1, <2>2, <2>3, RowsMove
<1>8. CASE RemovalFails(q)
  <2> DEFINE to == [j EXCEPT !.remove = "done"]
  <2>1. /\ j.kind = "deleteApplication" /\ j.step = "write" /\ a \in shaky' /\ Goes(q, to)
    BY <1>8 DEF RemovalFails, At
  <2>2. /\ to.kind = "deleteApplication" /\ to.step = "write" /\ to.app = a
        /\ to.looked = j.looked /\ to.wrote = j.wrote /\ to.remove = "done"
    BY <1>5, <2>1 DEF JobType
  <2> HIDE DEF to
  <2>3. Told(to, shaky', edorgs, apps', rows')
    BY <1>5, <2>1, <2>2 DEF Told, InOrder
  <2> QED BY <1>1, <1>2, <1>3, <1>4, <2>1, <2>2, <2>3, RowsMove
<1> QED BY <1>6, <1>7, <1>8

\* A request arrives, and has read nothing.
LEMMA ArrivesRows ==
  ASSUME RowsInv, AppsInv', NEW q \in Req, NEW new, Arrives(q, new), job[q].step = "idle",
         UNCHANGED <<edorgs, apps, rows, posted>>,
         new.step = "begin", new.looked = {}, ~ new.wrote, new.remove = "no",
         new.kind = "postApplication" => new.app = 0
  PROVE  RowsInv'
<1> DEFINE a == new.app
<1>1. Goes(q, new) /\ shaky \subseteq shaky'
      /\ \A p \in Req : Busy(p, a) => a \in shaky'
  BY DEF Arrives
<1>2. Apart(a) /\ RowsTidy'
  BY DEF Apart, RowsInv, RowsTidy
<1>3. a \in AppId \ shaky' => OneRow(a, rows') /\ Describe(a, apps', rows')
  BY <1>1 DEF RowsInv, RowsAgree
<1>4. InOrder(new)
  BY DEF InOrder
<1>5. IsFiniteSet(new.looked) /\ Knows(new, edorgs, apps', rows')
  BY FS_EmptySet DEF Knows
<1>6. Told(new, shaky', edorgs, apps', rows')
  BY <1>4, <1>5 DEF Told
<1> QED BY <1>1, <1>2, <1>3, <1>6, RowsMove

\* A request of any kind arrives.
LEMMA ArriveRows ==
  ASSUME RowsInv, AppsInv', NEW q \in Req, Arrive(q)
  PROVE  RowsInv'
<1> DEFINE New(kind, valid, a, c, ask) ==
      [Idle EXCEPT !.kind = kind, !.step = "begin", !.valid = valid, !.app = a,
                   !.client = c, !.ask = ask]
<1>1. job[q].step = "idle" /\ UNCHANGED <<edorgs, apps, rows, posted>>
  BY DEF Arrive, api
<1>2. PICK valid \in Control :
        \/ \E ask \in Ask : Arrives(q, New("postApplication", valid, 0, 0, ask))
        \/ \E a \in DOMAIN apps :
             \/ \E ask \in Ask : Arrives(q, New("putApplication", valid, a, 0, ask))
             \/ Arrives(q, New("deleteApplication", valid, a, 0, NoAsk))
             \/ \E at \in AskStores :
                  Arrives(q, New("postApiClient", valid, a, 0, [NoAsk EXCEPT !.ods = at]))
             \/ \E c \in ClientsOf(a) :
                  \/ \E at \in AskStores :
                       Arrives(q, New("putApiClient", valid, a, c, [NoAsk EXCEPT !.ods = at]))
                  \/ Arrives(q, New("deleteApiClient", valid, a, c, NoAsk))
  BY DEF Arrive
<1>3. ASSUME NEW kind \in Kind, NEW a \in Nat, NEW c \in Nat, NEW ask,
             Arrives(q, New(kind, valid, a, c, ask)), kind = "postApplication" => a = 0
      PROVE  RowsInv'
  <2> DEFINE new == New(kind, valid, a, c, ask)
  <2>1. /\ new.step = "begin" /\ new.looked = {} /\ ~ new.wrote /\ new.remove = "no"
        /\ new.kind = kind /\ new.app = a
    BY DEF Idle
  <2>2. Arrives(q, new)
    BY <1>3
  <2> HIDE DEF New, new
  <2> QED BY <1>1, <1>3, <2>1, <2>2, ArrivesRows
<1> HIDE DEF New
<1>4. \A a \in DOMAIN apps : a \in Nat /\ \A c \in ClientsOf(a) : c \in Nat
  BY ApplicationsAssumption DEF RowsInv, AppsInv, CountsOK, AppsOK, ClientsOK, ClientsOf
<1> QED BY <1>2, <1>3, <1>4 DEF Kind

\* Credentials are nothing to the rows.
LEMMA ClientsRows ==
  ASSUME RowsInv, AppsInv', NEW q \in Req, PutApiClient(q) \/ PostApiClient(q) \/ DeleteApiClient(q)
  PROVE  RowsInv'
<1>1. /\ job[q].kind \in {"putApiClient", "postApiClient", "deleteApiClient"}
      /\ job[q].step = "write" /\ Answer(q) /\ UNCHANGED <<edorgs, apps, rows, shaky>>
      /\ posted' = posted \/ posted' = [posted EXCEPT !.clients = posted.clients + 1]
  BY DEF PutApiClient, PostApiClient, DeleteApiClient, At
<1>2. posted'.apps = posted.apps
  BY <1>1 DEF RowsInv, AppsInv, CountsOK
<1> QED BY <1>1, <1>2, NotYet, RowsAnswer

-----------------------------------------------------------------------------
(* All the steps.                                                           *)

\* To begin with there are no rows.
LEMMA RowsBegin ==
  ASSUME ApplicationsInit
  PROVE  RowsInv
<1>1. AppsInv
  BY BeginsInOrder
<1>2. rows = {} /\ job = [q \in Req |-> Idle]
  BY DEF ApplicationsInit
<1>3. AllTold
  BY <1>2, IdleTold DEF AllTold
<1>4. RowsTidy /\ RowsAgree
  BY <1>2 DEF RowsTidy, RowsAgree, OneRow, Describe
<1> QED BY <1>1, <1>3, <1>4 DEF RowsInv

\* When the organisations change, whoever puts an application no longer knows;
\* rows may go.
LEMMA EdorgsChangeRows ==
  ASSUME RowsInv, AppsInv', EdorgsChange
  PROVE  RowsInv'
<1>1. UNCHANGED <<apps, job, posted>> /\ shaky \subseteq shaky' /\ rows' \subseteq rows
  BY DEF EdorgsChange, api
<1>2. RowsTidy'
  BY <1>1 DEF RowsInv, RowsTidy
<1>3. RowsAgree'
  BY <1>1 DEF RowsInv, RowsAgree, OneRow, Describe, Busy
<1>4. ASSUME NEW q \in Req PROVE Told(job[q], shaky', edorgs', apps, rows')
  <2> DEFINE j == job[q]
  <2>1. /\ IsFiniteSet(j.looked) /\ InOrder(j)
        /\ j.step # "idle" /\ j.app \in AppId \ shaky => Knows(j, edorgs, apps, rows)
    BY RequestIs
  <2>2. ASSUME j.step # "idle", j.app \in AppId \ shaky' PROVE Knows(j, edorgs', apps, rows')
    <3>1. j.kind # "putApplication"
      BY <2>2, ApplicationsAssumption DEF EdorgsChange, Busy, AppId
    <3>2. Knows(j, edorgs, apps, rows)
      BY <1>1, <2>1, <2>2
    <3> HIDE DEF j
    <3> QED BY <1>1, <3>1, <3>2 DEF Knows, NoRow
  <2> QED BY <2>1, <2>2 DEF Told
<1>5. AllTold'
  BY <1>1, <1>4 DEF AllTold
<1> QED BY <1>2, <1>3, <1>5 DEF RowsInv

\* Every step keeps the rows in order.
LEMMA RowsStep ==
  ASSUME RowsInv, [ApplicationsNext]_vars
  PROVE  RowsInv'
<1>1. AppsInv'
  BY StepsKeep DEF RowsInv
<1>2. CASE EdorgsChange
  BY <1>1, <1>2, EdorgsChangeRows
<1>3. ASSUME NEW q \in Req, Handles(q) PROVE RowsInv'
  <2>1. CASE Arrive(q) \/ Fails(q) \/ RemovalFails(q)
    BY <1>1, <2>1, ArriveRows, FailsRows
  <2>2. CASE LookV2(q) \/ CheckV2(q) \/ CheckV3(q) \/ LookV3(q)
    BY <1>1, <2>2, LooksRows, ChecksRows
  <2>3. CASE FindRow(q) \/ SaveRow(q) \/ PutApplication(q)
    BY <1>1, <2>3, FindsRows, SavesRows, PutsRows
  <2>4. CASE CheckNew(q) \/ PostApplication(q)
    BY <1>1, <2>4, ChecksNewRows, PostsRows
  <2>5. CASE CheckGone(q) \/ RemoveRow(q) \/ DeleteApplication(q)
    BY <1>1, <2>5, ChecksGoneRows, RemovesRows, DeletesRows
  <2>6. CASE CheckPutClient(q) \/ CheckClient(q) \/ CountClients(q)
    BY <1>1, <2>6, ChecksRows
  <2>7. CASE PutApiClient(q) \/ PostApiClient(q) \/ DeleteApiClient(q)
    BY <1>1, <2>7, ClientsRows
  <2> QED BY <1>3, <2>1, <2>2, <2>3, <2>4, <2>5, <2>6, <2>7 DEF Handles
<1>4. CASE UNCHANGED vars
  <2>1. UNCHANGED <<edorgs, apps, rows, job, posted, shaky>>
    BY <1>4 DEF vars, api
  <2>2. AllTold'
    BY <2>1 DEF RowsInv, AllTold
  <2>3. RowsTidy' /\ RowsAgree'
    BY <2>1 DEF RowsInv, RowsTidy, RowsAgree, Busy
  <2> QED BY <1>1, <2>2, <2>3 DEF RowsInv
<1> QED BY <1>2, <1>3, <1>4 DEF ApplicationsNext

\* The rows and what requests know of them stay in order, for any number of
\* requests and any bounds: the strengthening of the property below.
THEOREM RowsInvariance == ApplicationsSpec => []RowsInv
<1>1. ApplicationsInit => RowsInv
  BY RowsBegin
<1>2. RowsInv /\ [ApplicationsNext]_vars => RowsInv'
  BY RowsStep
<1> QED BY <1>1, <1>2, PTL DEF ApplicationsSpec

\* The row of an integration application, which no transaction keeps beside
\* the Admin API, names what the application has and no more, all of it unless
\* it names an organisation twice, and is there no longer than it, where one
\* request at a time was at work and none was left half way.
THEOREM RowsAreTrue == ApplicationsSpec => []RowsDescribeApplications
<1>1. RowsInv => RowsDescribeApplications
  <2> SUFFICES ASSUME RowsInv, NEW a \in AppId \ shaky, \A q \in Req : ~ Busy(q, a)
               PROVE  /\ \A r, s \in RowsOf(a) : r = s
                      /\ \A r \in RowsOf(a) :
                           /\ a \in DOMAIN apps /\ Orgs(r.edorgIds) \subseteq apps[a].orgs
                           /\ Twice(r.edorgIds) \/ Orgs(r.edorgIds) = apps[a].orgs
    BY DEF RowsDescribeApplications
  <2>1. OneRow(a, rows) /\ Describe(a, apps, rows)
    BY DEF RowsInv, RowsAgree
  <2> QED BY <2>1 DEF OneRow, Describe, Tells, RowsOf
<1> QED BY <1>1, RowsInvariance, PTL

=============================================================================
