------------------------------- MODULE SyncOds --------------------------------
(***************************************************************************)
(* The delta synchronisation of one tenant (sync-ods.ts): a transaction    *)
(* compares the metadata fetched before it with the rows it reads, one     *)
(* query after another, and then writes the difference.  Nothing keeps two *)
(* of them from overlapping: each reads what was committed before the      *)
(* read, and its writes become visible at its commit.                      *)
(*                                                                         *)
(* An ODS is matched by its odsInstanceId, or by its dbName when it has    *)
(* none: its Key.  The compared columns of an ODS are one Label; those of  *)
(* an education organisation are left out but for its parent.              *)
(***************************************************************************)
EXTENDS Naturals, FiniteSets, Functions

CONSTANTS
  Key,         \* what ODSs are matched by
  EdorgId,     \* educationOrganizationIds
  Label,       \* values of the compared columns of an ODS
  Tree,        \* hierarchies the metadata may show: functions to parents
  NoOds, Root, \* no such ODS in the metadata; no parent in its tree
  Sync,        \* transactions that may be under way at a time
  OneOdsSyncs, \* the environment creates and deletes single ODSs (Starting Blocks v2)
  MaxId,       \* bounds the rows of each table
  MaxChanges,  \* bounds the changes of the metadata
  MaxMishaps   \* bounds the transactions that a failure ends

ASSUME SyncAssumption ==
  /\ \A t \in Tree :
       /\ DOMAIN t \subseteq EdorgId
       /\ \A e \in DOMAIN t : t[e] \in (DOMAIN t \cup {Root}) \ {e}
  /\ IsFiniteSet(Key) /\ IsFiniteSet(EdorgId)
  /\ Root \notin EdorgId
  /\ NoOds \notin [label : Label, tree : Tree]
  /\ OneOdsSyncs \in BOOLEAN
  /\ MaxId \in Nat /\ MaxChanges \in Nat /\ MaxMishaps \in Nat

VARIABLES
  meta,      \* what the Admin API or the lambda answers
  odss,      \* table ods
  edorgs,    \* table edorg; parent is parentId
  phase,     \* where each synchronisation stands
  scope,     \* the whole tenant, or the key of one ODS
  seen,      \* what it has fetched and read so far
  result,    \* how its last transaction ended, with hasChanges
  disturbed, \* history: another transaction committed since its first read
  changes,   \* history: changes of the metadata, bounded by MaxChanges
  mishaps    \* history: failures so far, bounded by MaxMishaps

tables == <<odss, edorgs>>
progress == <<phase, scope, seen, result, disturbed>>
vars == <<meta, tables, progress, changes, mishaps>>

Id    == 1..MaxId
NoRow == 0
Tenant == "tenant"

Metadata == [Key -> {NoOds} \cup [label : Label, tree : Tree]]
OdsRow   == [id : Id, key : Key, label : Label]
EdorgRow == [id : Id, ods : Id, eo : EdorgId, parent : Id \cup {NoRow}]

Nothing == [meta |-> [k \in Key |-> NoOds], list |-> {}, again |-> {}, rows |-> {}]

Ids(rows) == {r.id : r \in rows}

\* The constraints of the tables.
References(o, e) == \A r \in e : r.ods \in Ids(o) /\ (r.parent = NoRow \/ r.parent \in Ids(e))
Natural(e) == \A r, x \in e : (r.ods = x.ods /\ r.eo = x.eo) => r = x

SyncTypeOK ==
  /\ meta \in Metadata
  /\ odss \in SUBSET OdsRow /\ edorgs \in SUBSET EdorgRow
  /\ \A o, x \in odss : o.id = x.id => o = x
  /\ \A e, x \in edorgs : e.id = x.id => e = x
  /\ References(odss, edorgs) /\ Natural(edorgs)
  /\ phase \in [Sync -> {"idle", "fetched", "listed", "relisted", "loaded"}]
  /\ scope \in [Sync -> Key \cup {Tenant}]
  /\ seen \in [Sync -> [meta : Metadata, list : SUBSET OdsRow, again : SUBSET OdsRow,
                        rows : SUBSET EdorgRow]]
  /\ result \in [Sync -> {"none", "failed", "same", "changed"}]
  /\ disturbed \in [Sync -> BOOLEAN]
  /\ changes \in Nat /\ mishaps \in Nat

SyncInit ==
  /\ meta = Nothing.meta
  /\ odss = {} /\ edorgs = {}
  /\ phase = [s \in Sync |-> "idle"]
  /\ scope = [s \in Sync |-> Tenant]
  /\ seen = [s \in Sync |-> Nothing]
  /\ result = [s \in Sync |-> "none"]
  /\ disturbed = [s \in Sync |-> FALSE]
  /\ changes = 0 /\ mishaps = 0

-----------------------------------------------------------------------------
(* Reading: the metadata, then in the transaction the ODSs, the ODSs again  *)
(* and the education organisations of the tenant.                           *)

Goes(s, from, to) == phase[s] = from /\ phase' = [phase EXCEPT ![s] = to]

Fetch(s, what) ==
  /\ Goes(s, "idle", "fetched")
  /\ scope' = [scope EXCEPT ![s] = what]
  /\ seen' = [seen EXCEPT ![s].meta = meta]
  /\ UNCHANGED <<meta, tables, result, disturbed, changes, mishaps>>

\* createOds() of Starting Blocks v2 synchronises the ODS it just created.
FetchOds(s, k) == OneOdsSyncs /\ meta[k] # NoOds /\ Fetch(s, k)

ListOdss(s) ==
  /\ Goes(s, "fetched", "listed")
  /\ seen' = [seen EXCEPT ![s].list = odss]
  /\ UNCHANGED <<meta, tables, scope, result, disturbed, changes, mishaps>>

ListOdssAgain(s) ==
  /\ scope[s] = Tenant
  /\ Goes(s, "listed", "relisted")
  /\ seen' = [seen EXCEPT ![s].again = odss]
  /\ UNCHANGED <<meta, tables, scope, result, disturbed, changes, mishaps>>

LoadEdorgs(s) ==
  /\ Goes(s, IF scope[s] = Tenant THEN "relisted" ELSE "listed", "loaded")
  /\ seen' = [seen EXCEPT ![s].rows = edorgs]
  /\ UNCHANGED <<meta, tables, scope, result, disturbed, changes, mishaps>>

-----------------------------------------------------------------------------
(* The differences.  A Map built from rows keeps the last row of a key.     *)

Last(rows) == CHOOSE r \in rows : \A x \in rows : x.id <= r.id

OfKey(rows, k) == {o \in rows : o.key = k}
Present(m)     == {k \in Key : m[k] # NoOds}
Kept(list, m)  == {Last(OfKey(list, k)) : k \in {x \in Present(m) : OfKey(list, x) # {}}}

\* computeOdsListDeltas(): keys to insert, rows to update, rows to delete.
OdsInserts(list, m) == {k \in Present(m) : OfKey(list, k) = {}}

\* Mutant: the comparison of the columns is left out.
OdsUpdatesNone(list, m) == {}

OdsUpdates(list, m) ==
  {[o EXCEPT !.label = m[o.key].label] :
     o \in {x \in Kept(list, m) : x.label # m[x.key].label}}

OdsDeletes(list, m) == list \ Kept(list, m)

\* computeOdsTreeDeltas() for the entity o, its tree and the rows compared
\* with it; ids gives the ids of the rows to insert.
Named(rows, eo) == {e \in rows : e.eo = eo}

\* Mutant: organisations are inserted that have rows.
MissingAll(o, tree, rows) == {<<o.id, eo>> : eo \in DOMAIN tree}

Missing(o, tree, rows) == {<<o.id, eo>> : eo \in {x \in DOMAIN tree : Named(rows, x) = {}}}

IdOf(o, eo, rows, ids) ==
  IF Named(rows, eo) = {} THEN ids[<<o.id, eo>>] ELSE Last(Named(rows, eo)).id

ParentOf(o, eo, tree, rows, ids) ==
  IF tree[eo] = Root THEN NoRow ELSE IdOf(o, tree[eo], rows, ids)

EdorgInserts(o, tree, rows, ids) ==
  {[id |-> ids[p], ods |-> o.id, eo |-> p[2], parent |-> ParentOf(o, p[2], tree, rows, ids)] :
     p \in Missing(o, tree, rows)}

\* Mutant: the parent is written whatever it was.
EdorgUpdatesAlways(o, tree, rows, ids) ==
  {[Last(Named(rows, eo)) EXCEPT !.parent = ParentOf(o, eo, tree, rows, ids)] :
     eo \in {x \in DOMAIN tree : Named(rows, x) # {} /\ tree[x] # Root}}

\* A parent that is gone from the tree is not taken from the row.
EdorgUpdates(o, tree, rows, ids) ==
  {[Last(Named(rows, eo)) EXCEPT !.parent = ParentOf(o, eo, tree, rows, ids)] :
     eo \in {x \in DOMAIN tree : /\ Named(rows, x) # {}
                                 /\ tree[x] # Root
                                 /\ Last(Named(rows, x)).parent
                                      # ParentOf(o, x, tree, rows, ids)}}

EdorgDeletes(tree, rows) ==
  {e \in rows : e.eo \notin DOMAIN tree \/ e # Last(Named(rows, e.eo))}

-----------------------------------------------------------------------------
(* Writing.                                                                 *)

\* Identity columns: ids that no table and no transaction refers to.
UnusedOdsIds ==
  Id \ (Ids(odss) \cup {e.ods : e \in edorgs}
        \cup UNION {Ids(seen[s].list \cup seen[s].again) \cup {e.ods : e \in seen[s].rows} : s \in Sync})

UnusedEdorgIds ==
  Id \ UNION ({Ids(edorgs) \cup {e.parent : e \in edorgs}}
              \cup {Ids(seen[s].rows) \cup {e.parent : e \in seen[s].rows} : s \in Sync})

Fits(S, T) == Cardinality(S) <= Cardinality(T)
Numbered(S, T) == CHOOSE f \in Injection(S, T) : TRUE

NewOdss(keys, m) ==
  LET ids == Numbered(keys, UnusedOdsIds)
  IN  {[id |-> ids[k], key |-> k, label |-> m[k].label] : k \in keys}

\* save(): rows are written under their id, present or not.
Written(table, rows) == {r \in table : r.id \notin Ids(rows)} \cup rows

\* Mutant: the tables have no foreign keys.
AcceptedWithoutReferences(o, e1, e2, e3) == Natural(e2)

\* The constraints hold after the writes of ODSs, of organisations, of deletions.
Accepted(o, e1, e2, e3) ==
  /\ References(o, e1) /\ References(o, e2) /\ References(o, e3)
  /\ Natural(e2)

Ends(s, how) ==
  /\ phase' = [phase EXCEPT ![s] = "idle"]
  /\ scope' = [scope EXCEPT ![s] = Tenant]
  /\ seen' = [seen EXCEPT ![s] = Nothing]
  /\ result' = [result EXCEPT ![s] = how]

Reading(t) == phase[t] \in {"listed", "relisted", "loaded"}

Commits(s, o, e, how) ==
  /\ odss' = o /\ edorgs' = e
  /\ disturbed' = [t \in Sync |-> t # s /\ (disturbed[t] \/ Reading(t))]
  /\ Ends(s, how)

RollsBack(s) ==
  /\ disturbed' = [disturbed EXCEPT ![s] = FALSE]
  /\ Ends(s, "failed")
  /\ UNCHANGED tables

\* Mutant: deletions do not count as changes.
HasChangesButDeletions(saved, gone, ins, upd, del) == saved \cup ins \cup upd # {}

HasChanges(saved, gone, ins, upd, del) == saved \cup gone \cup ins \cup upd \cup del # {}

\* The writes of either function: ODSs are saved, ODSs are deleted with their
\* organisations, organisations are inserted, updated and deleted.
Write(s, legal, saved, gone, ins, upd, del) ==
  LET o  == {r \in Written(odss, saved) : r.id \notin Ids(gone)}
      e1 == {e \in edorgs : e.ods \notin Ids(gone)}
      e2 == Written(e1 \cup ins, upd)
      e3 == {e \in e2 : e.id \notin Ids(del)}
  IN  IF legal /\ Accepted(o, e1, e2, e3)
      THEN Commits(s, o, e3, IF HasChanges(saved, gone, ins, upd, del) THEN "changed" ELSE "same")
      ELSE RollsBack(s)

\* Mutant: only the ODSs about to be saved are looked up.
EntitiesSaved(again, m, saved) == saved

\* The ODS entities whose trees are compared: those about to be saved, and
\* of the second read those that are not.
Entities(again, m, saved) ==
  saved \cup {o \in Kept(again, m) : OfKey(saved, o.key) = {}}

\* Mutant: the rows of the whole tenant are compared with each ODS.
RowsOfTenant(rows, o) == rows

RowsOf(rows, o) == {e \in rows : e.ods = o.id}

\* persistSyncTenant().  When any ODS was saved, an organisation inserted
\* under an ODS that was not has lost its ods, and odsId is NOT NULL.
PersistTenant(s) ==
  LET m     == seen[s].meta
      new   == OdsInserts(seen[s].list, m)
      saved == NewOdss(new, m) \cup OdsUpdates(seen[s].list, m)
      ents  == Entities(seen[s].again, m, saved)
      tree(o) == m[o.key].tree
      rows(o) == RowsOf(seen[s].rows, o)
      adds  == UNION {Missing(o, tree(o), rows(o)) : o \in ents}
      ids   == Numbered(adds, UnusedEdorgIds)
      ins   == UNION {EdorgInserts(o, tree(o), rows(o), ids) : o \in ents}
  IN  /\ phase[s] = "loaded" /\ scope[s] = Tenant
      /\ Fits(new, UnusedOdsIds) /\ Fits(adds, UnusedEdorgIds)
      /\ Write(s, saved = {} \/ \A e \in ins : e.ods \in Ids(saved),
               saved, OdsDeletes(seen[s].list, m), ins,
               UNION {EdorgUpdates(o, tree(o), rows(o), ids) : o \in ents},
               UNION {EdorgDeletes(tree(o), rows(o)) : o \in ents})
      /\ UNCHANGED <<meta, changes, mishaps>>

\* persistSyncOds(): the rows of the whole tenant are compared with one tree.
PersistOds(s) ==
  LET m     == seen[s].meta
      k     == scope[s]
      mine  == OfKey(seen[s].list, k)
      saved == IF mine = {} THEN NewOdss({k}, m) ELSE {}
      rows  == seen[s].rows
      tree  == m[k].tree
  IN  /\ phase[s] = "loaded" /\ k # Tenant
      /\ Fits({k}, UnusedOdsIds)
      /\ \E o \in mine \cup saved :
           LET adds == Missing(o, tree, rows)
               ids  == Numbered(adds, UnusedEdorgIds)
           IN  /\ Fits(adds, UnusedEdorgIds)
               /\ Write(s, TRUE, saved, {}, EdorgInserts(o, tree, rows, ids),
                        EdorgUpdates(o, tree, rows, ids), EdorgDeletes(tree, rows))
      /\ UNCHANGED <<meta, changes, mishaps>>

\* persistSyncDeleteOds(), once the ODS was removed from the environment.
DeleteOds(o) ==
  LET left == {e \in edorgs : e.ods # o.id}
  IN  /\ OneOdsSyncs /\ meta[o.key] = NoOds
      /\ References(odss \ {o}, left)
      /\ odss' = odss \ {o}
      /\ edorgs' = left
      /\ disturbed' = [t \in Sync |-> disturbed[t] \/ Reading(t)]
      /\ UNCHANGED <<meta, phase, scope, seen, result, changes, mishaps>>

\* The transaction is rolled back by an error, a deadlock or a crash.
Fails(s) ==
  /\ phase[s] # "idle"
  /\ mishaps < MaxMishaps
  /\ mishaps' = mishaps + 1
  /\ RollsBack(s)
  /\ UNCHANGED <<meta, changes>>

\* Someone changes one ODS of the environment.
MetadataChanges(k) ==
  /\ changes < MaxChanges
  /\ changes' = changes + 1
  /\ \E x \in {NoOds} \cup [label : Label, tree : Tree] :
       x # meta[k] /\ meta' = [meta EXCEPT ![k] = x]
  /\ UNCHANGED <<tables, progress, mishaps>>

-----------------------------------------------------------------------------
Step(s) ==
  \/ Fetch(s, Tenant) \/ ListOdss(s) \/ ListOdssAgain(s) \/ LoadEdorgs(s)
  \/ PersistTenant(s) \/ PersistOds(s)

SyncNext ==
  \/ \E s \in Sync : Step(s) \/ Fails(s)
  \/ \E s \in Sync, k \in Key : FetchOds(s, k)
  \/ \E o \in odss : DeleteOds(o)
  \/ \E k \in Key : MetadataChanges(k)

SyncSpec == SyncInit /\ [][SyncNext]_vars

\* The scheduler requests a synchronisation of the environment again and again.
FairSyncSpec == SyncSpec /\ \A s \in Sync : WF_vars(Step(s))

-----------------------------------------------------------------------------
(* Properties.                                                              *)

Under(o) == {e \in edorgs : e.ods = o.id}

\* The tables show the metadata m: one row for each ODS, with its label and
\* its organisations, and with their parents as far as the tree has any.
Mirrors(m) ==
  /\ {o.key : o \in odss} = Present(m)
  /\ \A o, x \in odss : o.key = x.key => o = x
  /\ \A o \in odss :
       /\ o.label = m[o.key].label
       /\ {e.eo : e \in Under(o)} = DOMAIN m[o.key].tree
       /\ \A e \in Under(o) : m[o.key].tree[e.eo] # Root =>
            \E p \in Under(o) : p.id = e.parent /\ p.eo = m[o.key].tree[e.eo]

Committing(s) == phase[s] = "loaded" /\ phase'[s] = "idle" /\ result'[s] # "failed"

\* A synchronisation of the tenant that commits and was not disturbed leaves
\* the tables showing what it fetched, whatever earlier ones left behind:
\* duplicates of overlapping insertions are healed.
SoloSyncMirrors ==
  [][\A s \in Sync : (Committing(s) /\ scope[s] = Tenant /\ ~disturbed[s]) =>
       \E m \in {seen[s].meta} : Mirrors(m)']_vars

\* No ODS is deleted but one that the metadata s fetched does not show, or a
\* duplicate of one that s read under a later id: that row remains unless
\* somebody else committed meanwhile.
SparesOdss(s) ==
  \A o \in odss : \/ o.id \in Ids(odss') \/ o.key \notin Present(seen[s].meta)
                 \/ \E x \in seen[s].list : /\ x.key = o.key /\ x.id > o.id
                                            /\ x.id \in Ids(odss') \/ disturbed[s]

\* No organisation is deleted of an ODS that stays and whose tree shows it.
SparesEdorgs(s) ==
  LET m == seen[s].meta
  IN  \A e \in edorgs, o \in odss : e.ods = o.id =>
        \/ e.id \in Ids(edorgs') \/ o.id \notin Ids(odss')
        \/ o.key \notin Present(m) \/ e.eo \notin DOMAIN m[o.key].tree

\* A synchronisation deletes only rows that are absent from the metadata it
\* fetched, or duplicates; every other row keeps its id, and with it the
\* ownerships that refer to it, even when several overlap.
OnlyAbsentRowsDeleted ==
  [][\A s \in Sync : Committing(s) => SparesOdss(s) /\ SparesEdorgs(s)]_vars

\* Whoever changes the tables says so: hasChanges decides whether the callers
\* flush the ownership cache.
ChangesReported ==
  [][\A s \in Sync : result'[s] = "same" /\ Committing(s) => UNCHANGED tables]_vars

\* A synchronisation of the tenant that nobody disturbed and that finds the
\* tables showing what it fetched has no changes: the same metadata again
\* writes nothing and flushes no cache.
SameAgain ==
  [][\A s \in Sync :
       (Committing(s) /\ scope[s] = Tenant /\ ~disturbed[s] /\ Mirrors(seen[s].meta)) =>
         result'[s] = "same"]_vars

\* The constraints refuse a synchronisation, which no mishap ended.
Refused(s) ==
  phase[s] = "loaded" /\ phase'[s] = "idle" /\ result'[s] = "failed" /\ UNCHANGED mishaps

\* An ODS is new or has changed, and another, that has not, has an organisation
\* without a row.
LosesOds(m) ==
  /\ \E k \in Present(m) : \A o \in Kept(odss, m) : o.key = k => o.label # m[k].label
  /\ \E o \in Kept(odss, m) : /\ o.label = m[o.key].label
                              /\ ~ DOMAIN m[o.key].tree \subseteq {e.eo : e \in Under(o)}

\* An organisation stays and its parent goes: it has no parent any more, or the
\* parent is of an ODS that goes.
LosesParent(m) ==
  LET of(e)    == {o \in Kept(odss, m) : o.id = e.ods}
      stays(e) == \E o \in of(e) : e.eo \in DOMAIN m[o.key].tree
  IN  \E e, p \in edorgs :
        /\ e.parent = p.id /\ of(e) # {}
        /\ \/ of(p) = {}
           \/ ~ stays(p) /\ \E o \in of(e) :
                e.eo \in DOMAIN m[o.key].tree /\ m[o.key].tree[e.eo] = Root

\* A synchronisation of the tenant that nobody disturbed is refused for one of
\* two reasons, both of them in what it found: it would insert an organisation
\* that has lost its ODS, or delete a parent that a row still names.
RefusedForAReason ==
  [][\A s \in Sync : (Refused(s) /\ scope[s] = Tenant /\ ~disturbed[s]) =>
       LosesOds(seen[s].meta) \/ LosesParent(seen[s].meta)]_vars

\* admin-api-sync-integration.md:169: "delta computation handles inserts,
\* updates, and targeted deletes": once the metadata stays as it is, the tables
\* come to show it.
TablesConverge == <>[]Mirrors(meta)

=============================================================================
