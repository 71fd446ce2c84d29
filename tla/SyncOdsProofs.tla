---------------------------- MODULE SyncOdsProofs ----------------------------
(***************************************************************************)
(* For any ODSs, hierarchies of organisations and number of transactions:  *)
(* a synchronisation that nobody disturbs leaves the tables showing what   *)
(* it fetched, and none of them breaks the tables.                         *)
(***************************************************************************)
EXTENDS SyncOds, FiniteSetTheorems, FunctionTheorems, TLAPS

\* No two rows of one id.
Distinct(rows) == \A r, x \in rows : r.id = x.id => r = x

\* The ODSs in the table, or remembered by a transaction.
Mentioned == odss \cup UNION {seen[s].list \cup seen[s].again : s \in Sync}

\* An id names one ODS, whoever mentions it.
OdsNamed == \A o, x \in Mentioned : o.id = x.id => o.key = x.key

Reads == [meta : Metadata, list : SUBSET OdsRow, again : SUBSET OdsRow, rows : SUBSET EdorgRow]

TablesOK ==
  /\ odss \subseteq OdsRow /\ edorgs \subseteq EdorgRow
  /\ Distinct(odss) /\ Distinct(edorgs)
  /\ References(odss, edorgs) /\ Natural(edorgs)

SeenOK ==
  /\ seen \in [Sync -> Reads]
  /\ \A s \in Sync : /\ Distinct(seen[s].list) /\ Distinct(seen[s].again)
                     /\ Distinct(seen[s].rows)

ProgressOK ==
  /\ phase \in [Sync -> {"idle", "fetched", "listed", "relisted", "loaded"}]
  /\ scope \in [Sync -> Key \cup {Tenant}]
  /\ result \in [Sync -> {"none", "failed", "same", "changed"}]
  /\ disturbed \in [Sync -> BOOLEAN]
  /\ \A s \in Sync : phase[s] # "idle" /\ scope[s] # Tenant => seen[s].meta[scope[s]] # NoOds

CountsOK == meta \in Metadata /\ changes \in Nat /\ mishaps \in Nat

\* Who is not disturbed has read the tables as they are.
ReadAsTheyAre ==
  \A s \in Sync : ~ disturbed[s] =>
    /\ Reading(s) => seen[s].list = odss
    /\ phase[s] \in {"relisted", "loaded"} /\ scope[s] = Tenant => seen[s].again = odss
    /\ phase[s] = "loaded" => seen[s].rows = edorgs

SyncInv == TablesOK /\ SeenOK /\ OdsNamed /\ ProgressOK /\ CountsOK /\ ReadAsTheyAre

-----------------------------------------------------------------------------
(* Rows and their numbers.                                                  *)

\* Of rows with ids one is the last.
LEMMA LastIn ==
  ASSUME NEW rows, rows # {}, \A r \in rows : r.id \in Id, SyncAssumption
  PROVE  Last(rows) \in rows /\ \A x \in rows : x.id <= Last(rows).id
<1> DEFINE before == OpToRel(<, Nat)
           left == {MaxId - r.id : r \in rows}
<1>1. left \subseteq Nat /\ left # {}
  BY DEF Id, SyncAssumption
<1>2. \E n \in left : \A k \in left : ~ (<<k, n>> \in before)
  <2> HIDE DEF left, before
  <2>1. IsWellFoundedOn(before, Nat)
    BY NatLessThanWellFounded DEF before
  <2> QED BY <1>1, <2>1, WFMin
<1>3. PICK n \in left : \A k \in left : ~ (k < n)
  BY <1>1, <1>2 DEF OpToRel
<1>4. PICK r \in rows : n = MaxId - r.id
  BY <1>3
<1>5. \A x \in rows : x.id <= r.id
  BY <1>3, <1>4 DEF Id, SyncAssumption
<1> QED BY <1>4, <1>5 DEF Last

\* Ids are handed out to distinct rows.
LEMMA NumberedInjects ==
  ASSUME NEW S, IsFiniteSet(S), NEW T, IsFiniteSet(T), Fits(S, T)
  PROVE  /\ Numbered(S, T) \in [S -> T]
         /\ \A a, b \in S : Numbered(S, T)[a] = Numbered(S, T)[b] => a = b
<1> DEFINE m == Cardinality(S)
           n == Cardinality(T)
<1>1. m \in Nat /\ n \in Nat /\ m <= n
  BY FS_CardinalityType DEF Fits
<1>2. PICK f : f \in Bijection(1..m, S)
  BY FS_CardinalityType, Fun_ExistsBij
<1>3. PICK g : g \in Bijection(1..n, T)
  BY FS_CardinalityType, Fun_ExistsBij
<1>4. PICK h : h \in Bijection(S, 1..m)
  BY <1>2, Fun_BijInverse
<1> HIDE DEF m, n
<1>5. /\ h \in [S -> 1..m] /\ \A a, b \in S : h[a] = h[b] => a = b
      /\ g \in [1..n -> T] /\ \A i, k \in 1..n : g[i] = g[k] => i = k
  BY <1>3, <1>4, Fun_BijectionProperties
<1> DEFINE e == [a \in S |-> g[h[a]]]
<1>6. e \in [S -> T] /\ \A a, b \in S : e[a] = e[b] => a = b
  BY <1>1, <1>5
<1> HIDE DEF e
<1>7. e \in Injection(S, T)
  BY <1>6, Fun_IsInj
<1>8. Numbered(S, T) \in Injection(S, T)
  BY <1>7 DEF Numbered
<1> QED BY <1>8, Fun_InjectionProperties

\* New ids are free, and there are finitely many.
LEMMA UnusedFree ==
  ASSUME SyncInv, SyncAssumption
  PROVE  /\ IsFiniteSet(UnusedOdsIds) /\ IsFiniteSet(UnusedEdorgIds)
         /\ UnusedOdsIds \subseteq Id /\ UnusedEdorgIds \subseteq Id
         /\ \A i \in UnusedOdsIds : /\ \A o \in Mentioned : o.id # i
                                    /\ \A e \in edorgs : e.ods # i
                                    /\ \A s \in Sync : \A e \in seen[s].rows : e.ods # i
         /\ \A i \in UnusedEdorgIds : /\ \A e \in edorgs : e.id # i
                                      /\ \A s \in Sync : \A e \in seen[s].rows : e.id # i
<1>1. UnusedOdsIds \subseteq Id /\ UnusedEdorgIds \subseteq Id
  BY DEF UnusedOdsIds, UnusedEdorgIds
<1>2. IsFiniteSet(Id)
  BY FS_Interval DEF Id, SyncAssumption
<1>3. IsFiniteSet(UnusedOdsIds) /\ IsFiniteSet(UnusedEdorgIds)
  BY <1>1, <1>2, FS_Subset
<1>4. ASSUME NEW i \in UnusedOdsIds
      PROVE  /\ \A o \in Mentioned : o.id # i
             /\ \A e \in edorgs : e.ods # i
             /\ \A s \in Sync : \A e \in seen[s].rows : e.ods # i
  BY DEF UnusedOdsIds, Mentioned, Ids
<1>5. ASSUME NEW i \in UnusedEdorgIds
      PROVE  /\ \A e \in edorgs : e.id # i
             /\ \A s \in Sync : \A e \in seen[s].rows : e.id # i
  <2> DEFINE now == Ids(edorgs) \cup {e.parent : e \in edorgs}
             then(s) == Ids(seen[s].rows) \cup {e.parent : e \in seen[s].rows}
  <2>1. i \notin UNION ({now} \cup {then(s) : s \in Sync})
    BY DEF UnusedEdorgIds
  <2>2. i \notin now /\ \A s \in Sync : i \notin then(s)
    <3> HIDE DEF now, then
    <3> QED BY <2>1
  <2> QED BY <2>2 DEF Ids
<1> QED BY <1>1, <1>3, <1>4, <1>5

-----------------------------------------------------------------------------
(* The differences of the ODSs.                                             *)

\* The rows kept are the last of their keys.
LEMMA KeptRows ==
  ASSUME SyncAssumption, NEW list \in SUBSET OdsRow, NEW m
  PROVE  /\ Kept(list, m) \subseteq list
         /\ \A o \in Kept(list, m) : o.key \in Present(m)
         /\ \A o, x \in Kept(list, m) : o.key = x.key => o = x
         /\ \A k \in Present(m) : OfKey(list, k) # {} => \E o \in Kept(list, m) : o.key = k
<1>1. ASSUME NEW k, OfKey(list, k) # {}
      PROVE  Last(OfKey(list, k)) \in list /\ Last(OfKey(list, k)).key = k
  <2>1. Last(OfKey(list, k)) \in OfKey(list, k)
    BY <1>1, LastIn DEF OfKey, OdsRow
  <2> QED BY <2>1 DEF OfKey
<1> QED BY <1>1 DEF Kept

\* The rows to update are rows kept, with the label of the metadata.
LEMMA UpdatedOdss ==
  ASSUME SyncAssumption, NEW list \in SUBSET OdsRow, NEW m \in Metadata
  PROVE  /\ OdsUpdates(list, m) \subseteq OdsRow
         /\ \A u \in OdsUpdates(list, m) :
              /\ u.label = m[u.key].label
              /\ \E o \in Kept(list, m) : /\ o.id = u.id /\ o.key = u.key
                                          /\ o.label # m[o.key].label
         /\ \A o \in Kept(list, m) : o.label # m[o.key].label =>
              \E u \in OdsUpdates(list, m) : u.id = o.id /\ u.key = o.key
<1>1. Kept(list, m) \subseteq OdsRow /\ \A o \in Kept(list, m) : o.key \in Present(m)
  BY KeptRows
<1>2. \A k \in Present(m) : m[k].label \in Label
  BY DEF Present, Metadata
<1>3. ASSUME NEW o \in Kept(list, m)
      PROVE  LET u == [o EXCEPT !.label = m[o.key].label]
             IN  u \in OdsRow /\ u.id = o.id /\ u.key = o.key /\ u.label = m[o.key].label
  BY <1>1, <1>2 DEF OdsRow
<1> DEFINE new(o) == [o EXCEPT !.label = m[o.key].label]
<1>4. \A o \in Kept(list, m) : /\ new(o) \in OdsRow /\ new(o).id = o.id /\ new(o).key = o.key
                               /\ new(o).label = m[o.key].label
  BY <1>3
<1>5. OdsUpdates(list, m) =
        {new(o) : o \in {x \in Kept(list, m) : x.label # m[x.key].label}}
  BY DEF OdsUpdates
<1> HIDE DEF new
<1>6. ASSUME NEW u \in OdsUpdates(list, m)
      PROVE  /\ u \in OdsRow /\ u.label = m[u.key].label
             /\ \E o \in Kept(list, m) : /\ o.id = u.id /\ o.key = u.key
                                         /\ o.label # m[o.key].label
  <2>1. PICK o \in Kept(list, m) : o.label # m[o.key].label /\ u = new(o)
    BY <1>5
  <2> QED BY <1>4, <2>1
<1>7. ASSUME NEW o \in Kept(list, m), o.label # m[o.key].label
      PROVE  \E u \in OdsUpdates(list, m) : u.id = o.id /\ u.key = o.key
  <2>1. new(o) \in OdsUpdates(list, m)
    BY <1>5, <1>7
  <2> QED BY <1>4, <2>1
<1> QED BY <1>6, <1>7

\* The ODSs to insert have the labels of the metadata and ids of their own.
LEMMA NewRows ==
  ASSUME SyncAssumption, SyncInv, NEW m \in Metadata, NEW keys \in SUBSET Present(m),
         Fits(keys, UnusedOdsIds)
  PROVE  /\ NewOdss(keys, m) \subseteq OdsRow
         /\ Distinct(NewOdss(keys, m))
         /\ \A o \in NewOdss(keys, m) :
              o.id \in UnusedOdsIds /\ o.key \in keys /\ o.label = m[o.key].label
         /\ \A k \in keys : \E o \in NewOdss(keys, m) : o.key = k
         /\ \A o, x \in NewOdss(keys, m) : o.key = x.key => o = x
<1> DEFINE ids == Numbered(keys, UnusedOdsIds)
<1>1. IsFiniteSet(keys)
  BY FS_Subset DEF SyncAssumption, Present
<1>2. ids \in [keys -> UnusedOdsIds] /\ \A k, x \in keys : ids[k] = ids[x] => k = x
  BY <1>1, NumberedInjects, UnusedFree
<1>3. \A k \in keys : k \in Key /\ m[k].label \in Label
  BY DEF Present, Metadata
<1>4. UnusedOdsIds \subseteq Id
  BY UnusedFree
<1> DEFINE new(k) == [id |-> ids[k], key |-> k, label |-> m[k].label]
<1>5. NewOdss(keys, m) = {new(k) : k \in keys}
  BY DEF NewOdss
<1> HIDE DEF ids
<1>6. \A k \in keys : /\ new(k) \in OdsRow /\ new(k).id = ids[k] /\ new(k).key = k
                      /\ new(k).label = m[k].label /\ ids[k] \in UnusedOdsIds
  BY <1>2, <1>3, <1>4 DEF OdsRow
<1> HIDE DEF new
<1>7. \A o \in NewOdss(keys, m) : o.key \in keys /\ o = new(o.key)
  BY <1>5, <1>6
<1>8. \A k \in keys : new(k) \in NewOdss(keys, m)
  BY <1>5
<1>9. Distinct(NewOdss(keys, m))
  BY <1>2, <1>6, <1>7 DEF Distinct
<1>10. NewOdss(keys, m) \subseteq OdsRow
  BY <1>6, <1>7
<1>11. \A o \in NewOdss(keys, m) : o.id \in UnusedOdsIds /\ o.label = m[o.key].label
  BY <1>6, <1>7
<1> QED BY <1>6, <1>7, <1>8, <1>9, <1>10, <1>11

\* What a synchronisation of the tenant saves.
Saved(list, m) == NewOdss(OdsInserts(list, m), m) \cup OdsUpdates(list, m)

\* The ODSs saved: one of a key, as the metadata shows it.
LEMMA SavedRows ==
  ASSUME SyncAssumption, SyncInv, NEW list \in SUBSET OdsRow, Distinct(list),
         \A o \in list : \E x \in Mentioned : x.id = o.id /\ x.key = o.key,
         NEW m \in Metadata, Fits(OdsInserts(list, m), UnusedOdsIds)
  PROVE  /\ Saved(list, m) \subseteq OdsRow
         /\ Distinct(Saved(list, m))
         /\ \A o, x \in Saved(list, m) : o.key = x.key => o = x
         /\ \A o \in Saved(list, m) :
              /\ o.key \in Present(m) /\ o.label = m[o.key].label
              /\ \/ o.id \in UnusedOdsIds /\ OfKey(list, o.key) = {}
                 \/ \E x \in Kept(list, m) : /\ x.id = o.id /\ x.key = o.key
                                             /\ x.label # m[x.key].label
         /\ \A k \in Present(m) : OfKey(list, k) = {} =>
              \E o \in Saved(list, m) : o.key = k
         /\ \A x \in Kept(list, m) : x.label # m[x.key].label =>
              \E o \in Saved(list, m) : o.key = x.key /\ o.id = x.id
<1> DEFINE new == OdsInserts(list, m)
           N == NewOdss(new, m)
           U == OdsUpdates(list, m)
           K == Kept(list, m)
<1>1. new \in SUBSET Present(m) /\ \A k \in new : OfKey(list, k) = {}
  BY DEF OdsInserts
<1>2. /\ N \subseteq OdsRow /\ Distinct(N)
      /\ \A o \in N : o.id \in UnusedOdsIds /\ o.key \in new /\ o.label = m[o.key].label
      /\ \A k \in new : \E o \in N : o.key = k
      /\ \A o, x \in N : o.key = x.key => o = x
  BY <1>1, NewRows
<1>3. /\ K \subseteq list /\ \A o \in K : o.key \in Present(m)
      /\ \A o, x \in K : o.key = x.key => o = x
  BY KeptRows
<1>4. /\ U \subseteq OdsRow
      /\ \A u \in U : /\ u.label = m[u.key].label
                      /\ \E o \in K : o.id = u.id /\ o.key = u.key /\ o.label # m[o.key].label
      /\ \A o \in K : o.label # m[o.key].label => \E u \in U : u.id = o.id /\ u.key = o.key
  BY UpdatedOdss
<1>5. \A k \in Present(m) : OfKey(list, k) = {} => k \in new
  BY DEF OdsInserts
<1>6. \A n \in N, u \in U : n.id # u.id /\ n.key # u.key
  <2> SUFFICES ASSUME NEW n \in N, NEW u \in U PROVE n.id # u.id /\ n.key # u.key
    OBVIOUS
  <2>1. PICK o \in K : o.id = u.id /\ o.key = u.key
    BY <1>4
  <2>2. o \in list /\ OfKey(list, o.key) # {}
    BY <1>3, <2>1 DEF OfKey
  <2>3. \E x \in Mentioned : x.id = o.id
    BY <2>2
  <2> QED BY <1>1, <1>2, <2>1, <2>2, <2>3, UnusedFree
<1> HIDE DEF new, N, U, K
<1>7. \A u, v \in U : u.id = v.id \/ u.key = v.key => u = v
  <2> SUFFICES ASSUME NEW u \in U, NEW v \in U, u.id = v.id \/ u.key = v.key PROVE u = v
    OBVIOUS
  <2>1. PICK o \in K : o.id = u.id /\ o.key = u.key
    BY <1>4
  <2>2. PICK x \in K : x.id = v.id /\ x.key = v.key
    BY <1>4
  <2>3. o = x
    BY <1>3, <2>1, <2>2 DEF Distinct
  <2> QED BY <1>4, <2>1, <2>2, <2>3 DEF OdsRow
<1>8. Saved(list, m) = N \cup U
  BY DEF Saved, N, U, new
<1>9. Distinct(Saved(list, m)) /\ \A o, x \in Saved(list, m) : o.key = x.key => o = x
  BY <1>2, <1>6, <1>7, <1>8 DEF Distinct
<1>10. ASSUME NEW o \in Saved(list, m)
       PROVE  /\ o.key \in Present(m) /\ o.label = m[o.key].label
              /\ \/ o.id \in UnusedOdsIds /\ OfKey(list, o.key) = {}
                 \/ \E x \in K : x.id = o.id /\ x.key = o.key /\ x.label # m[x.key].label
  BY <1>1, <1>2, <1>3, <1>4, <1>8
<1>11. Saved(list, m) \subseteq OdsRow
  BY <1>2, <1>4, <1>8
<1>12. \A k \in Present(m) : OfKey(list, k) = {} => \E o \in Saved(list, m) : o.key = k
  BY <1>2, <1>5, <1>8
<1>13. \A x \in K : x.label # m[x.key].label =>
         \E o \in Saved(list, m) : o.key = x.key /\ o.id = x.id
  BY <1>4, <1>8
<1> QED BY <1>9, <1>10, <1>11, <1>12, <1>13 DEF K

-----------------------------------------------------------------------------
(* The differences of the organisations of one ODS.                         *)

\* Entity o, its tree, the rows it is compared with, and ids for what is added.
Comparing(o, tree, rows, adds, ids) ==
  /\ o \in OdsRow /\ tree \in Tree /\ rows \subseteq EdorgRow
  /\ Missing(o, tree, rows) \subseteq adds
  /\ ids \in [adds -> UnusedEdorgIds]

\* The last row of an organisation is a row of it.
LEMMA LastNamed ==
  ASSUME SyncAssumption, NEW rows, rows \subseteq EdorgRow, NEW eo, Named(rows, eo) # {}
  PROVE  /\ Last(Named(rows, eo)) \in rows /\ Last(Named(rows, eo)).eo = eo
         /\ Last(Named(rows, eo)) \in EdorgRow
<1>1. Last(Named(rows, eo)) \in Named(rows, eo)
  BY LastIn DEF Named, EdorgRow
<1> QED BY <1>1 DEF Named

\* Every organisation of the tree has an id, and so has its parent.
LEMMA IdsOfTree ==
  ASSUME SyncAssumption, NEW o, NEW tree, NEW rows, NEW adds, NEW ids,
         Comparing(o, tree, rows, adds, ids), NEW eo \in DOMAIN tree
  PROVE  /\ IdOf(o, eo, rows, ids) \in Id
         /\ ParentOf(o, eo, tree, rows, ids) \in Id \cup {NoRow}
         /\ eo \in EdorgId
<1>1. \A x \in DOMAIN tree : Named(rows, x) = {} => <<o.id, x>> \in adds
  BY DEF Comparing, Missing
<1>2. UnusedEdorgIds \subseteq Id
  BY DEF UnusedEdorgIds
<1>3. ASSUME NEW x \in DOMAIN tree PROVE IdOf(o, x, rows, ids) \in Id
  <2>1. CASE Named(rows, x) = {}
    BY <1>1, <1>2, <2>1 DEF Comparing, IdOf
  <2>2. CASE Named(rows, x) # {}
    BY <2>2, LastNamed DEF Comparing, IdOf, EdorgRow
  <2> QED BY <2>1, <2>2
<1>4. tree[eo] \in DOMAIN tree \cup {Root} /\ eo \in EdorgId
  BY DEF Comparing, SyncAssumption
<1> QED BY <1>3, <1>4 DEF ParentOf

\* A row to insert is an organisation of the tree that has no row.
LEMMA InsertedEdorgs ==
  ASSUME SyncAssumption, NEW o, NEW tree, NEW rows, NEW adds, NEW ids,
         Comparing(o, tree, rows, adds, ids)
  PROVE  /\ \A i \in EdorgInserts(o, tree, rows, ids) :
              /\ i \in EdorgRow /\ i.ods = o.id /\ i.eo \in DOMAIN tree
              /\ Named(rows, i.eo) = {} /\ <<o.id, i.eo>> \in adds
              /\ i.id = ids[<<o.id, i.eo>>] /\ i.id \in UnusedEdorgIds
              /\ i.parent = ParentOf(o, i.eo, tree, rows, ids)
         /\ \A eo \in DOMAIN tree : Named(rows, eo) = {} =>
              \E i \in EdorgInserts(o, tree, rows, ids) :
                i.eo = eo /\ i.ods = o.id /\ i.id = IdOf(o, eo, rows, ids)
<1> DEFINE new(eo) == [id |-> ids[<<o.id, eo>>], ods |-> o.id, eo |-> eo,
                       parent |-> ParentOf(o, eo, tree, rows, ids)]
           E == {x \in DOMAIN tree : Named(rows, x) = {}}
<1>1. \A x \in E : <<o.id, x>> \in adds
  BY DEF Comparing, Missing
<1>2. UnusedEdorgIds \subseteq Id
  BY DEF UnusedEdorgIds
<1>3. ASSUME NEW x \in E
      PROVE  /\ ids[<<o.id, x>>] \in UnusedEdorgIds /\ new(x) \in EdorgRow
             /\ new(x).id = ids[<<o.id, x>>] /\ new(x).ods = o.id /\ new(x).eo = x
             /\ new(x).parent = ParentOf(o, x, tree, rows, ids)
  <2>1. ids[<<o.id, x>>] \in UnusedEdorgIds
    BY <1>1 DEF Comparing
  <2>2. x \in EdorgId /\ ParentOf(o, x, tree, rows, ids) \in Id \cup {NoRow}
    BY IdsOfTree
  <2>3. o.id \in Id
    BY DEF Comparing, OdsRow
  <2> QED BY <1>2, <2>1, <2>2, <2>3 DEF EdorgRow
<1>4. ASSUME NEW i \in EdorgInserts(o, tree, rows, ids) PROVE \E x \in E : i = new(x)
  <2>1. PICK p \in Missing(o, tree, rows) :
          i = [id |-> ids[p], ods |-> o.id, eo |-> p[2],
               parent |-> ParentOf(o, p[2], tree, rows, ids)]
    BY DEF EdorgInserts
  <2>2. PICK x \in E : p = <<o.id, x>>
    BY DEF Missing
  <2> QED BY <2>1, <2>2
<1>5. ASSUME NEW x \in E PROVE new(x) \in EdorgInserts(o, tree, rows, ids)
  <2>1. <<o.id, x>> \in Missing(o, tree, rows)
    BY DEF Missing
  <2> QED BY <2>1 DEF EdorgInserts
<1> HIDE DEF new
<1>6. ASSUME NEW i \in EdorgInserts(o, tree, rows, ids)
      PROVE  /\ i \in EdorgRow /\ i.ods = o.id /\ i.eo \in DOMAIN tree
             /\ Named(rows, i.eo) = {} /\ <<o.id, i.eo>> \in adds
             /\ i.id = ids[<<o.id, i.eo>>] /\ i.id \in UnusedEdorgIds
             /\ i.parent = ParentOf(o, i.eo, tree, rows, ids)
  <2>1. PICK x \in E : i = new(x)
    BY <1>4
  <2>2. i.eo = x
    BY <1>3, <2>1
  <2> QED BY <1>1, <1>3, <2>1, <2>2
<1>7. ASSUME NEW eo \in DOMAIN tree, Named(rows, eo) = {}
      PROVE  \E i \in EdorgInserts(o, tree, rows, ids) :
               i.eo = eo /\ i.ods = o.id /\ i.id = IdOf(o, eo, rows, ids)
  BY <1>3, <1>5, <1>7 DEF IdOf
<1> QED BY <1>6, <1>7

\* A row to update is a row read, with another parent.
LEMMA UpdatedEdorgs ==
  ASSUME SyncAssumption, NEW o, NEW tree, NEW rows, NEW adds, NEW ids,
         Comparing(o, tree, rows, adds, ids)
  PROVE  /\ \A u \in EdorgUpdates(o, tree, rows, ids) :
              /\ u \in EdorgRow /\ u.eo \in DOMAIN tree /\ Named(rows, u.eo) # {}
              /\ \E r \in rows : /\ r = Last(Named(rows, u.eo))
                                 /\ u.id = r.id /\ u.ods = r.ods /\ u.eo = r.eo
              /\ u.parent = ParentOf(o, u.eo, tree, rows, ids)
         /\ \A eo \in DOMAIN tree :
              LET r == Last(Named(rows, eo)) IN
              /\ Named(rows, eo) # {} /\ tree[eo] # Root
              /\ r.parent # ParentOf(o, eo, tree, rows, ids)
              => \E u \in EdorgUpdates(o, tree, rows, ids) :
                   u.id = r.id /\ u.ods = r.ods /\ u.eo = eo
<1> DEFINE last(eo) == Last(Named(rows, eo))
           new(eo) == [last(eo) EXCEPT !.parent = ParentOf(o, eo, tree, rows, ids)]
           E == {x \in DOMAIN tree : /\ Named(rows, x) # {}
                                     /\ tree[x] # Root
                                     /\ last(x).parent # ParentOf(o, x, tree, rows, ids)}
<1>1. EdorgUpdates(o, tree, rows, ids) = {new(x) : x \in E}
  BY DEF EdorgUpdates
<1>2. ASSUME NEW x \in E
      PROVE  /\ new(x) \in EdorgRow /\ last(x) \in rows /\ last(x).eo = x
             /\ new(x).id = last(x).id /\ new(x).ods = last(x).ods /\ new(x).eo = x
             /\ new(x).parent = ParentOf(o, x, tree, rows, ids)
  <2>1. last(x) \in rows /\ last(x) \in EdorgRow /\ last(x).eo = x
    BY LastNamed DEF Comparing
  <2>2. ParentOf(o, x, tree, rows, ids) \in Id \cup {NoRow}
    BY IdsOfTree
  <2> HIDE DEF last
  <2> QED BY <2>1, <2>2 DEF EdorgRow
<1> HIDE DEF new
<1>3. ASSUME NEW u \in EdorgUpdates(o, tree, rows, ids)
      PROVE  /\ u \in EdorgRow /\ u.eo \in DOMAIN tree /\ Named(rows, u.eo) # {}
             /\ \E r \in rows : /\ r = Last(Named(rows, u.eo))
                                /\ u.id = r.id /\ u.ods = r.ods /\ u.eo = r.eo
             /\ u.parent = ParentOf(o, u.eo, tree, rows, ids)
  <2>1. PICK x \in E : u = new(x)
    BY <1>1
  <2>2. u.eo = x
    BY <1>2, <2>1
  <2> QED BY <1>2, <2>1, <2>2
<1>4. ASSUME NEW eo \in E
      PROVE  \E u \in EdorgUpdates(o, tree, rows, ids) :
               u.id = last(eo).id /\ u.ods = last(eo).ods /\ u.eo = eo
  <2>1. new(eo) \in EdorgUpdates(o, tree, rows, ids)
    BY <1>1
  <2> QED BY <1>2, <2>1
<1> QED BY <1>3, <1>4

-----------------------------------------------------------------------------
(* What is written.                                                         *)

\* Rows written keep the table without two rows of one id.
LEMMA WrittenDistinct ==
  ASSUME NEW table, Distinct(table), NEW rows, Distinct(rows)
  PROVE  Distinct(Written(table, rows))
BY DEF Distinct, Written, Ids

\* The tables after the writes.
OdssAfter(saved, gone) == {r \in Written(odss, saved) : r.id \notin Ids(gone)}

EdorgsAfter(gone, ins, upd, del) ==
  {e \in Written({x \in edorgs : x.ods \notin Ids(gone)} \cup ins, upd) : e.id \notin Ids(del)}

\* A transaction commits its writes, all of them, or none.
LEMMA WritesOrNot ==
  ASSUME NEW s \in Sync, NEW legal, NEW saved, NEW gone, NEW ins, NEW upd, NEW del,
         Write(s, legal, saved, gone, ins, upd, del)
  PROVE  \/ RollsBack(s)
         \/ /\ Commits(s, OdssAfter(saved, gone), EdorgsAfter(gone, ins, upd, del),
                       IF HasChanges(saved, gone, ins, upd, del) THEN "changed" ELSE "same")
            /\ References(OdssAfter(saved, gone), EdorgsAfter(gone, ins, upd, del))
            /\ Natural(EdorgsAfter(gone, ins, upd, del))
BY DEF Write, Accepted, OdssAfter, EdorgsAfter, Natural

\* The end of a transaction: it forgets what it has read.
LEMMA EndsInOrder ==
  ASSUME SyncInv, NEW s \in Sync, NEW how \in {"failed", "same", "changed"}, Ends(s, how)
  PROVE  /\ SeenOK'
         /\ phase' \in [Sync -> {"idle", "fetched", "listed", "relisted", "loaded"}]
         /\ scope' \in [Sync -> Key \cup {Tenant}]
         /\ result' \in [Sync -> {"none", "failed", "same", "changed"}]
         /\ \A t \in Sync : phase'[t] # "idle" /\ scope'[t] # Tenant =>
              seen'[t].meta[scope'[t]] # NoOds
         /\ phase'[s] = "idle" /\ seen'[s].list = {} /\ seen'[s].again = {}
         /\ result'[s] = how
         /\ \A t \in Sync : t # s => /\ phase'[t] = phase[t] /\ scope'[t] = scope[t]
                                     /\ seen'[t] = seen[t] /\ result'[t] = result[t]
<1>1. /\ phase' = [phase EXCEPT ![s] = "idle"] /\ scope' = [scope EXCEPT ![s] = Tenant]
      /\ seen' = [seen EXCEPT ![s] = Nothing] /\ result' = [result EXCEPT ![s] = how]
  BY DEF Ends
<1>2. /\ phase \in [Sync -> {"idle", "fetched", "listed", "relisted", "loaded"}]
      /\ scope \in [Sync -> Key \cup {Tenant}] /\ seen \in [Sync -> Reads]
      /\ result \in [Sync -> {"none", "failed", "same", "changed"}]
  BY DEF SyncInv, SeenOK, ProgressOK
<1>3. /\ Nothing \in Reads /\ Nothing.list = {} /\ Nothing.again = {} /\ Nothing.rows = {}
  BY DEF Nothing, Reads, Metadata
<1>4. /\ phase'[s] = "idle" /\ seen'[s] = Nothing /\ result'[s] = how
      /\ \A t \in Sync : t # s => /\ phase'[t] = phase[t] /\ scope'[t] = scope[t]
                                  /\ seen'[t] = seen[t] /\ result'[t] = result[t]
  BY <1>1, <1>2
<1>5. seen' \in [Sync -> Reads]
  BY <1>1, <1>2, <1>3
<1>6. SeenOK'
  BY <1>3, <1>4, <1>5 DEF SyncInv, SeenOK, Distinct
<1>7. \A t \in Sync : phase'[t] # "idle" /\ scope'[t] # Tenant => seen'[t].meta[scope'[t]] # NoOds
  BY <1>4 DEF SyncInv, ProgressOK
<1> QED BY <1>1, <1>2, <1>3, <1>4, <1>6, <1>7

-----------------------------------------------------------------------------
(* How a transaction ends.                                                  *)

\* A transaction that is rolled back leaves the tables as they are.
LEMMA RollsBackKeeps ==
  ASSUME SyncInv, NEW s \in Sync, RollsBack(s), UNCHANGED meta, changes' \in Nat, mishaps' \in Nat
  PROVE  SyncInv'
<1>1. /\ UNCHANGED <<odss, edorgs>> /\ disturbed' = [disturbed EXCEPT ![s] = FALSE]
      /\ Ends(s, "failed")
  BY DEF RollsBack, tables
<1>2. /\ SeenOK'
      /\ phase' \in [Sync -> {"idle", "fetched", "listed", "relisted", "loaded"}]
      /\ scope' \in [Sync -> Key \cup {Tenant}]
      /\ result' \in [Sync -> {"none", "failed", "same", "changed"}]
      /\ \A t \in Sync : phase'[t] # "idle" /\ scope'[t] # Tenant =>
           seen'[t].meta[scope'[t]] # NoOds
      /\ phase'[s] = "idle" /\ seen'[s].list = {} /\ seen'[s].again = {}
      /\ \A t \in Sync : t # s => /\ phase'[t] = phase[t] /\ scope'[t] = scope[t]
                                  /\ seen'[t] = seen[t]
  BY <1>1, EndsInOrder
<1>3. disturbed \in [Sync -> BOOLEAN]
  BY DEF SyncInv, ProgressOK
<1>4. ProgressOK'
  BY <1>1, <1>2, <1>3 DEF ProgressOK
<1>5. Mentioned' \subseteq Mentioned
  BY <1>1, <1>2 DEF Mentioned
<1>6. OdsNamed'
  BY <1>5 DEF SyncInv, OdsNamed
<1>7. ReadAsTheyAre'
  <2> SUFFICES ASSUME NEW t \in Sync, ~ disturbed'[t]
               PROVE  /\ Reading(t)' => seen'[t].list = odss'
                      /\ phase'[t] \in {"relisted", "loaded"} /\ scope'[t] = Tenant =>
                           seen'[t].again = odss'
                      /\ phase'[t] = "loaded" => seen'[t].rows = edorgs'
    BY DEF ReadAsTheyAre
  <2>1. CASE t = s
    BY <1>2, <2>1 DEF Reading
  <2>2. CASE t # s
    BY <1>1, <1>2, <1>3, <2>2 DEF SyncInv, ReadAsTheyAre, Reading
  <2> QED BY <2>1, <2>2
<1>8. TablesOK' /\ CountsOK'
  BY <1>1 DEF SyncInv, TablesOK, CountsOK, Distinct, References, Natural, Ids
<1> QED BY <1>2, <1>4, <1>6, <1>7, <1>8 DEF SyncInv

\* The tables may change to what their constraints allow, as long as an id
\* that is mentioned names the ODS it named.
LEMMA TablesChange ==
  ASSUME SyncAssumption, SyncInv, seen' = seen \/ (\E s \in Sync : seen'[s].list = {}
           /\ seen'[s].again = {} /\ \A t \in Sync : t # s => seen'[t] = seen[t]),
         Distinct(odss'),
         \A r \in odss' : \/ r.id \in UnusedOdsIds
                          \/ \E x \in Mentioned : x.id = r.id /\ x.key = r.key
  PROVE  OdsNamed'
<1>1. \A x \in Mentioned' : x \in odss' \/ x \in Mentioned
  BY DEF Mentioned
<1>2. \A x \in Mentioned' : \/ x \in odss' /\ x.id \in UnusedOdsIds
                            \/ \E y \in Mentioned : y.id = x.id /\ y.key = x.key
  BY <1>1
<1> SUFFICES ASSUME NEW o \in Mentioned', NEW x \in Mentioned', o.id = x.id
             PROVE  o.key = x.key
  BY DEF OdsNamed
<1>3. CASE o.id \in UnusedOdsIds
  BY <1>2, <1>3, UnusedFree DEF Distinct
<1>4. CASE o.id \notin UnusedOdsIds
  BY <1>2, <1>4 DEF SyncInv, OdsNamed
<1> QED BY <1>3, <1>4

\* A transaction commits.
LEMMA CommitsKeeps ==
  ASSUME SyncAssumption, SyncInv, NEW s \in Sync, NEW o, NEW e, NEW how \in {"same", "changed"},
         Commits(s, o, e, how), UNCHANGED <<meta, changes, mishaps>>,
         o \subseteq OdsRow, Distinct(o), e \subseteq EdorgRow, Distinct(e),
         References(o, e), Natural(e),
         \A r \in o : \/ r.id \in UnusedOdsIds
                      \/ \E x \in Mentioned : x.id = r.id /\ x.key = r.key
  PROVE  SyncInv'
<1>1. /\ odss' = o /\ edorgs' = e /\ Ends(s, how)
      /\ disturbed' = [t \in Sync |-> t # s /\ (disturbed[t] \/ Reading(t))]
  BY DEF Commits
<1>2. /\ SeenOK'
      /\ phase' \in [Sync -> {"idle", "fetched", "listed", "relisted", "loaded"}]
      /\ scope' \in [Sync -> Key \cup {Tenant}]
      /\ result' \in [Sync -> {"none", "failed", "same", "changed"}]
      /\ \A t \in Sync : phase'[t] # "idle" /\ scope'[t] # Tenant =>
           seen'[t].meta[scope'[t]] # NoOds
      /\ phase'[s] = "idle" /\ seen'[s].list = {} /\ seen'[s].again = {}
      /\ \A t \in Sync : t # s => /\ phase'[t] = phase[t] /\ scope'[t] = scope[t]
                                  /\ seen'[t] = seen[t]
  BY <1>1, EndsInOrder
<1>3. disturbed' \in [Sync -> BOOLEAN]
  BY <1>1 DEF Reading, SyncInv, ProgressOK
<1>4. ProgressOK'
  BY <1>2, <1>3 DEF ProgressOK
<1>5. TablesOK'
  BY <1>1 DEF TablesOK, Distinct, References, Natural, Ids
<1>6. OdsNamed'
  BY <1>1, <1>2, TablesChange DEF Distinct
<1>7. ReadAsTheyAre'
  <2> SUFFICES ASSUME NEW t \in Sync, ~ disturbed'[t]
               PROVE  /\ Reading(t)' => seen'[t].list = odss'
                      /\ phase'[t] \in {"relisted", "loaded"} /\ scope'[t] = Tenant =>
                           seen'[t].again = odss'
                      /\ phase'[t] = "loaded" => seen'[t].rows = edorgs'
    BY DEF ReadAsTheyAre
  <2>1. CASE t = s
    BY <1>2, <2>1 DEF Reading
  <2>2. CASE t # s
    BY <1>1, <1>2, <2>2 DEF Reading
  <2> QED BY <2>1, <2>2
<1>8. CountsOK'
  BY DEF SyncInv, CountsOK
<1> QED BY <1>2, <1>4, <1>5, <1>6, <1>7, <1>8 DEF SyncInv

\* A transaction writes rows whose ids are their own.
LEMMA WriteKeeps ==
  ASSUME SyncAssumption, SyncInv, NEW s \in Sync, UNCHANGED <<meta, changes, mishaps>>,
         NEW legal, NEW saved, NEW gone, NEW ins, NEW upd, NEW del,
         Write(s, legal, saved, gone, ins, upd, del),
         saved \subseteq OdsRow, Distinct(saved),
         \A r \in saved : \/ r.id \in UnusedOdsIds
                          \/ \E x \in Mentioned : x.id = r.id /\ x.key = r.key,
         ins \subseteq EdorgRow, Distinct(ins), \A i \in ins : i.id \in UnusedEdorgIds,
         upd \subseteq EdorgRow, Distinct(upd)
  PROVE  SyncInv'
<1> DEFINE o == OdssAfter(saved, gone)
           e == EdorgsAfter(gone, ins, upd, del)
           how == IF HasChanges(saved, gone, ins, upd, del) THEN "changed" ELSE "same"
           now == {x \in edorgs : x.ods \notin Ids(gone)}
<1>1. CASE RollsBack(s)
  BY <1>1, RollsBackKeeps DEF SyncInv, CountsOK
<1>2. CASE Commits(s, o, e, how) /\ References(o, e) /\ Natural(e)
  <2>1. o \subseteq odss \cup saved
    BY DEF OdssAfter, Written
  <2>2. /\ odss \subseteq OdsRow /\ edorgs \subseteq EdorgRow
        /\ Distinct(odss) /\ Distinct(edorgs) /\ odss \subseteq Mentioned
    BY DEF SyncInv, TablesOK, Mentioned
  <2>3. Distinct(o)
    <3>1. Distinct(Written(odss, saved))
      BY <2>2, WrittenDistinct
    <3> QED BY <3>1 DEF OdssAfter, Distinct
  <2>4. Distinct(now \cup ins)
    <3>1. \A x \in now, i \in ins : x.id # i.id
      BY UnusedFree
    <3> QED BY <2>2, <3>1 DEF Distinct
  <2>5. Distinct(e)
    <3>1. Distinct(Written(now \cup ins, upd))
      BY <2>4, WrittenDistinct
    <3> QED BY <3>1 DEF EdorgsAfter, Distinct
  <2>6. e \subseteq EdorgRow
    BY <2>2 DEF EdorgsAfter, Written
  <2>7. \A r \in o : \/ r.id \in UnusedOdsIds
                     \/ \E x \in Mentioned : x.id = r.id /\ x.key = r.key
    BY <2>1, <2>2
  <2>8. how \in {"same", "changed"} /\ o \subseteq OdsRow
    BY <2>1, <2>2
  <2> HIDE DEF o, e, how
  <2> QED BY <1>2, <2>3, <2>5, <2>6, <2>7, <2>8, CommitsKeeps
<1> QED BY <1>1, <1>2, WritesOrNot

-----------------------------------------------------------------------------
(* A synchronisation of the tenant.                                         *)

SavedBy(s)    == Saved(seen[s].list, seen[s].meta)
GoneBy(s)     == OdsDeletes(seen[s].list, seen[s].meta)
EntitiesOf(s) == Entities(seen[s].again, seen[s].meta, SavedBy(s))

TreeOf(s, o)  == seen[s].meta[o.key].tree
ReadOf(s, o)  == RowsOf(seen[s].rows, o)
AddedBy(s)    == UNION {Missing(o, TreeOf(s, o), ReadOf(s, o)) : o \in EntitiesOf(s)}
IdsOf(s)      == Numbered(AddedBy(s), UnusedEdorgIds)
InsertedBy(s) ==
  UNION {EdorgInserts(o, TreeOf(s, o), ReadOf(s, o), IdsOf(s)) : o \in EntitiesOf(s)}
UpdatedBy(s)  ==
  UNION {EdorgUpdates(o, TreeOf(s, o), ReadOf(s, o), IdsOf(s)) : o \in EntitiesOf(s)}
DeletedBy(s)  == UNION {EdorgDeletes(TreeOf(s, o), ReadOf(s, o)) : o \in EntitiesOf(s)}

\* The action by these names.
LEMMA TenantWrites ==
  ASSUME NEW s \in Sync, PersistTenant(s)
  PROVE  /\ phase[s] = "loaded" /\ scope[s] = Tenant /\ UNCHANGED <<meta, changes, mishaps>>
         /\ Fits(OdsInserts(seen[s].list, seen[s].meta), UnusedOdsIds)
         /\ Fits(AddedBy(s), UnusedEdorgIds)
         /\ \E legal : Write(s, legal, SavedBy(s), GoneBy(s), InsertedBy(s), UpdatedBy(s), DeletedBy(s))
BY DEF PersistTenant, SavedBy, GoneBy, EntitiesOf, TreeOf, ReadOf, AddedBy, IdsOf, InsertedBy,
       UpdatedBy, DeletedBy, Saved

\* What a transaction has read is typed, and mentioned.
LEMMA SeenTyped ==
  ASSUME SyncInv, NEW s \in Sync
  PROVE  /\ seen[s].meta \in Metadata
         /\ seen[s].list \in SUBSET OdsRow /\ seen[s].again \in SUBSET OdsRow
         /\ seen[s].rows \subseteq EdorgRow
         /\ Distinct(seen[s].list) /\ Distinct(seen[s].again) /\ Distinct(seen[s].rows)
         /\ seen[s].list \subseteq Mentioned /\ seen[s].again \subseteq Mentioned
BY DEF SyncInv, SeenOK, Reads, Mentioned

\* What is saved has its own ids.
LEMMA SavedInOrder ==
  ASSUME SyncAssumption, SyncInv, NEW s \in Sync, PersistTenant(s)
  PROVE  /\ SavedBy(s) \subseteq OdsRow /\ Distinct(SavedBy(s))
         /\ \A o, x \in SavedBy(s) : o.key = x.key => o = x
         /\ \A o \in SavedBy(s) :
              /\ o.key \in Present(seen[s].meta)
              /\ \/ o.id \in UnusedOdsIds
                 \/ \E x \in Mentioned : x.id = o.id /\ x.key = o.key
<1>1. Fits(OdsInserts(seen[s].list, seen[s].meta), UnusedOdsIds)
  BY TenantWrites
<1>2. Kept(seen[s].list, seen[s].meta) \subseteq seen[s].list
  BY SeenTyped, KeptRows
<1> QED BY <1>1, <1>2, SeenTyped, SavedRows DEF SavedBy

\* One entity of an id, one of a key.
LEMMA EntitiesInOrder ==
  ASSUME SyncAssumption, SyncInv, NEW s \in Sync, PersistTenant(s)
  PROVE  /\ EntitiesOf(s) \subseteq OdsRow /\ Distinct(EntitiesOf(s))
         /\ \A o, x \in EntitiesOf(s) : o.key = x.key => o = x
         /\ \A o \in EntitiesOf(s) : o.key \in Present(seen[s].meta) /\ TreeOf(s, o) \in Tree
<1> DEFINE m == seen[s].meta
           S == SavedBy(s)
           K == Kept(seen[s].again, m)
           E == EntitiesOf(s)
<1>1. /\ S \subseteq OdsRow /\ Distinct(S) /\ \A o, x \in S : o.key = x.key => o = x
      /\ \A o \in S : /\ o.key \in Present(m)
                      /\ \/ o.id \in UnusedOdsIds
                         \/ \E x \in Mentioned : x.id = o.id /\ x.key = o.key
  BY SavedInOrder
<1>2. /\ K \subseteq OdsRow /\ K \subseteq Mentioned /\ \A o \in K : o.key \in Present(m)
      /\ \A o, x \in K : o.key = x.key => o = x
  BY SeenTyped, KeptRows
<1>3. E = S \cup {o \in K : OfKey(S, o.key) = {}}
  BY DEF EntitiesOf, Entities
<1> HIDE DEF S, K, E, m
<1>4. \A o, x \in E : o.key = x.key => o = x
  BY <1>1, <1>2, <1>3 DEF OfKey
<1>5. \A o \in E : /\ o \in OdsRow /\ o.key \in Present(m)
                   /\ \/ o \in S /\ o.id \in UnusedOdsIds
                      \/ \E x \in Mentioned : x.id = o.id /\ x.key = o.key
  BY <1>1, <1>2, <1>3
<1>6. ASSUME NEW o \in E, NEW x \in E, o.id = x.id PROVE o = x
  <2>1. CASE o.id \in UnusedOdsIds
    <3>1. o \in S /\ x \in S
      BY <1>5, <1>6, <2>1, UnusedFree
    <3> QED BY <1>1, <1>6, <3>1 DEF Distinct
  <2>2. CASE o.id \notin UnusedOdsIds
    <3>1. o.key = x.key
      BY <1>5, <1>6, <2>2 DEF SyncInv, OdsNamed
    <3> QED BY <1>4, <3>1
  <2> QED BY <2>1, <2>2
<1>7. \A o \in E : TreeOf(s, o) \in Tree
  BY <1>5, SeenTyped DEF TreeOf, m, Present, Metadata
<1> QED BY <1>4, <1>5, <1>6, <1>7 DEF Distinct, E, m

\* Every entity is compared with its own tree and rows.
LEMMA AllCompared ==
  ASSUME SyncAssumption, SyncInv, NEW s \in Sync, PersistTenant(s)
  PROVE  /\ \A o \in EntitiesOf(s) :
              Comparing(o, TreeOf(s, o), ReadOf(s, o), AddedBy(s), IdsOf(s))
         /\ \A p, q \in AddedBy(s) : IdsOf(s)[p] = IdsOf(s)[q] => p = q
<1>1. \A o \in EntitiesOf(s) : Missing(o, TreeOf(s, o), ReadOf(s, o)) \subseteq AddedBy(s)
  BY DEF AddedBy
<1>2. \A o \in EntitiesOf(s) : o \in OdsRow /\ TreeOf(s, o) \in Tree
  BY EntitiesInOrder
<1>3. \A o : ReadOf(s, o) \subseteq EdorgRow
  BY SeenTyped DEF ReadOf, RowsOf
<1>4. AddedBy(s) \subseteq Id \X EdorgId
  <2> SUFFICES ASSUME NEW p \in AddedBy(s) PROVE p \in Id \X EdorgId
    OBVIOUS
  <2>1. PICK o \in EntitiesOf(s) : p \in Missing(o, TreeOf(s, o), ReadOf(s, o))
    BY DEF AddedBy
  <2>2. PICK eo \in DOMAIN TreeOf(s, o) : p = <<o.id, eo>>
    BY <2>1 DEF Missing
  <2>3. o.id \in Id /\ eo \in EdorgId
    BY <1>2, <2>2 DEF OdsRow, SyncAssumption
  <2> QED BY <2>2, <2>3
<1>5. IsFiniteSet(AddedBy(s))
  <2>1. IsFiniteSet(Id)
    BY FS_Interval DEF Id, SyncAssumption
  <2>2. IsFiniteSet(Id \X EdorgId)
    BY <2>1, FS_Product DEF SyncAssumption
  <2> QED BY <1>4, <2>2, FS_Subset
<1>6. Fits(AddedBy(s), UnusedEdorgIds)
  BY TenantWrites
<1>7. /\ IdsOf(s) \in [AddedBy(s) -> UnusedEdorgIds]
      /\ \A p, q \in AddedBy(s) : IdsOf(s)[p] = IdsOf(s)[q] => p = q
  BY <1>5, <1>6, NumberedInjects, UnusedFree DEF IdsOf
<1> QED BY <1>1, <1>2, <1>3, <1>7 DEF Comparing

\* The organisations inserted have ids of their own.
LEMMA InsertedInOrder ==
  ASSUME SyncAssumption, SyncInv, NEW s \in Sync, PersistTenant(s)
  PROVE  /\ InsertedBy(s) \subseteq EdorgRow /\ Distinct(InsertedBy(s))
         /\ \A i \in InsertedBy(s) : i.id \in UnusedEdorgIds
         /\ \A i \in InsertedBy(s) : \E o \in EntitiesOf(s) :
              /\ i.ods = o.id /\ i.eo \in DOMAIN TreeOf(s, o)
              /\ Named(ReadOf(s, o), i.eo) = {}
              /\ <<o.id, i.eo>> \in AddedBy(s) /\ i.id = IdsOf(s)[<<o.id, i.eo>>]
              /\ i.parent = ParentOf(o, i.eo, TreeOf(s, o), ReadOf(s, o), IdsOf(s))
<1>1. ASSUME NEW i \in InsertedBy(s)
      PROVE  /\ i \in EdorgRow /\ i.id \in UnusedEdorgIds
             /\ \E o \in EntitiesOf(s) :
                  /\ i.ods = o.id /\ i.eo \in DOMAIN TreeOf(s, o)
                  /\ Named(ReadOf(s, o), i.eo) = {}
                  /\ <<o.id, i.eo>> \in AddedBy(s) /\ i.id = IdsOf(s)[<<o.id, i.eo>>]
                  /\ i.parent = ParentOf(o, i.eo, TreeOf(s, o), ReadOf(s, o), IdsOf(s))
  <2>1. PICK o \in EntitiesOf(s) : i \in EdorgInserts(o, TreeOf(s, o), ReadOf(s, o), IdsOf(s))
    BY DEF InsertedBy
  <2>2. Comparing(o, TreeOf(s, o), ReadOf(s, o), AddedBy(s), IdsOf(s))
    BY AllCompared
  <2>3. /\ i \in EdorgRow /\ i.ods = o.id /\ i.eo \in DOMAIN TreeOf(s, o)
        /\ Named(ReadOf(s, o), i.eo) = {} /\ <<o.id, i.eo>> \in AddedBy(s)
        /\ i.id = IdsOf(s)[<<o.id, i.eo>>] /\ i.id \in UnusedEdorgIds
        /\ i.parent = ParentOf(o, i.eo, TreeOf(s, o), ReadOf(s, o), IdsOf(s))
    <3> DEFINE tree == TreeOf(s, o)
               rows == ReadOf(s, o)
               adds == AddedBy(s)
               ids == IdsOf(s)
    <3>1. Comparing(o, tree, rows, adds, ids) /\ i \in EdorgInserts(o, tree, rows, ids)
      BY <2>1, <2>2
    <3> HIDE DEF tree, rows, adds, ids
    <3>2. /\ i \in EdorgRow /\ i.ods = o.id /\ i.eo \in DOMAIN tree
          /\ Named(rows, i.eo) = {} /\ <<o.id, i.eo>> \in adds
          /\ i.id = ids[<<o.id, i.eo>>] /\ i.id \in UnusedEdorgIds
          /\ i.parent = ParentOf(o, i.eo, tree, rows, ids)
      BY ONLY <3>1, SyncAssumption, InsertedEdorgs
    <3> QED BY <3>2 DEF tree, rows, adds, ids
  <2> QED BY <2>3
<1>2. ASSUME NEW i \in InsertedBy(s), NEW x \in InsertedBy(s), i.id = x.id PROVE i = x
  <2>1. PICK o \in EntitiesOf(s) :
          /\ i.ods = o.id /\ <<o.id, i.eo>> \in AddedBy(s) /\ i.id = IdsOf(s)[<<o.id, i.eo>>]
          /\ i.parent = ParentOf(o, i.eo, TreeOf(s, o), ReadOf(s, o), IdsOf(s))
    BY <1>1
  <2>2. PICK r \in EntitiesOf(s) :
          /\ x.ods = r.id /\ <<r.id, x.eo>> \in AddedBy(s) /\ x.id = IdsOf(s)[<<r.id, x.eo>>]
          /\ x.parent = ParentOf(r, x.eo, TreeOf(s, r), ReadOf(s, r), IdsOf(s))
    BY <1>1
  <2>3. <<o.id, i.eo>> = <<r.id, x.eo>>
    BY <1>2, <2>1, <2>2, AllCompared
  <2>4. o = r /\ i.eo = x.eo
    BY <2>3, EntitiesInOrder DEF Distinct
  <2>5. i \in EdorgRow /\ x \in EdorgRow /\ i.ods = x.ods /\ i.parent = x.parent
    BY <1>1, <2>1, <2>2, <2>4
  <2> QED BY <1>2, <2>4, <2>5 DEF EdorgRow
<1> QED BY <1>1, <1>2 DEF Distinct

\* No row is updated twice.
LEMMA UpdatedInOrder ==
  ASSUME SyncAssumption, SyncInv, NEW s \in Sync, PersistTenant(s)
  PROVE  /\ UpdatedBy(s) \subseteq EdorgRow /\ Distinct(UpdatedBy(s))
         /\ \A u \in UpdatedBy(s) : \E o \in EntitiesOf(s) :
              /\ u.ods = o.id /\ u.eo \in DOMAIN TreeOf(s, o)
              /\ Named(ReadOf(s, o), u.eo) # {}
              /\ \E r \in seen[s].rows : /\ r = Last(Named(ReadOf(s, o), u.eo))
                                         /\ u.id = r.id /\ u.ods = r.ods /\ u.eo = r.eo
              /\ u.parent = ParentOf(o, u.eo, TreeOf(s, o), ReadOf(s, o), IdsOf(s))
<1>1. ASSUME NEW u \in UpdatedBy(s)
      PROVE  /\ u \in EdorgRow
             /\ \E o \in EntitiesOf(s) :
                  /\ u.ods = o.id /\ u.eo \in DOMAIN TreeOf(s, o)
                  /\ Named(ReadOf(s, o), u.eo) # {}
                  /\ \E r \in seen[s].rows : /\ r = Last(Named(ReadOf(s, o), u.eo))
                                             /\ u.id = r.id /\ u.ods = r.ods /\ u.eo = r.eo
                  /\ u.parent = ParentOf(o, u.eo, TreeOf(s, o), ReadOf(s, o), IdsOf(s))
  <2>1. PICK o \in EntitiesOf(s) : u \in EdorgUpdates(o, TreeOf(s, o), ReadOf(s, o), IdsOf(s))
    BY DEF UpdatedBy
  <2>2. /\ u \in EdorgRow /\ u.eo \in DOMAIN TreeOf(s, o) /\ Named(ReadOf(s, o), u.eo) # {}
        /\ u.parent = ParentOf(o, u.eo, TreeOf(s, o), ReadOf(s, o), IdsOf(s))
        /\ \E r \in ReadOf(s, o) : /\ r = Last(Named(ReadOf(s, o), u.eo))
                                   /\ u.id = r.id /\ u.ods = r.ods /\ u.eo = r.eo
    BY <2>1, AllCompared, UpdatedEdorgs
  <2>3. \A r \in ReadOf(s, o) : r \in seen[s].rows /\ r.ods = o.id
    BY DEF ReadOf, RowsOf
  <2> QED BY <2>2, <2>3
<1>2. ASSUME NEW u \in UpdatedBy(s), NEW v \in UpdatedBy(s), u.id = v.id PROVE u = v
  <2>1. PICK o \in EntitiesOf(s) :
          /\ u.ods = o.id
          /\ \E r \in seen[s].rows : u.id = r.id /\ u.ods = r.ods /\ u.eo = r.eo
          /\ u.parent = ParentOf(o, u.eo, TreeOf(s, o), ReadOf(s, o), IdsOf(s))
    BY <1>1
  <2>2. PICK p \in EntitiesOf(s) :
          /\ v.ods = p.id
          /\ \E r \in seen[s].rows : v.id = r.id /\ v.ods = r.ods /\ v.eo = r.eo
          /\ v.parent = ParentOf(p, v.eo, TreeOf(s, p), ReadOf(s, p), IdsOf(s))
    BY <1>1
  <2>3. u.ods = v.ods /\ u.eo = v.eo
    BY <1>2, <2>1, <2>2, SeenTyped DEF Distinct
  <2>4. o = p
    BY <2>1, <2>2, <2>3, EntitiesInOrder DEF Distinct
  <2>5. u \in EdorgRow /\ v \in EdorgRow /\ u.parent = v.parent
    BY <1>1, <2>1, <2>2, <2>3, <2>4
  <2> QED BY <1>2, <2>3, <2>5 DEF EdorgRow
<1> QED BY <1>1, <1>2 DEF Distinct

\* The synchronisation of a tenant keeps the tables in order.
LEMMA PersistTenantKeeps ==
  ASSUME SyncAssumption, SyncInv, NEW s \in Sync, PersistTenant(s)
  PROVE  SyncInv'
<1>1. UNCHANGED <<meta, changes, mishaps>>
  BY TenantWrites
<1>2. PICK legal :
        Write(s, legal, SavedBy(s), GoneBy(s), InsertedBy(s), UpdatedBy(s), DeletedBy(s))
  BY TenantWrites
<1>3. /\ SavedBy(s) \subseteq OdsRow /\ Distinct(SavedBy(s))
      /\ \A o \in SavedBy(s) : \/ o.id \in UnusedOdsIds
                               \/ \E x \in Mentioned : x.id = o.id /\ x.key = o.key
  BY SavedInOrder
<1>4. /\ InsertedBy(s) \subseteq EdorgRow /\ Distinct(InsertedBy(s))
      /\ \A i \in InsertedBy(s) : i.id \in UnusedEdorgIds
  BY InsertedInOrder
<1>5. UpdatedBy(s) \subseteq EdorgRow /\ Distinct(UpdatedBy(s))
  BY UpdatedInOrder
<1> QED BY <1>1, <1>2, <1>3, <1>4, <1>5, WriteKeeps

-----------------------------------------------------------------------------
(* The other steps.                                                         *)

\* No ODS is deleted, rows are inserted under ids of their own, and updated
\* are rows that have been read.
WritesOfOds(s, saved, ins, upd, del) ==
  /\ Write(s, TRUE, saved, {}, ins, upd, del)
  /\ saved \subseteq OdsRow /\ Distinct(saved) /\ \A o \in saved : o.id \in UnusedOdsIds
  /\ ins \subseteq EdorgRow /\ Distinct(ins) /\ \A i \in ins : i.id \in UnusedEdorgIds
  /\ upd \subseteq EdorgRow /\ Distinct(upd)
  /\ \A u \in upd : \E r \in seen[s].rows : u.id = r.id /\ u.ods = r.ods /\ u.eo = r.eo

\* What the synchronisation of one ODS writes.
LEMMA OdsWrites ==
  ASSUME SyncAssumption, SyncInv, NEW s \in Sync, PersistOds(s)
  PROVE  /\ UNCHANGED <<meta, changes, mishaps>>
         /\ \E saved, ins, upd, del : WritesOfOds(s, saved, ins, upd, del)
<1> DEFINE m == seen[s].meta
           k == scope[s]
           mine == OfKey(seen[s].list, k)
           saved == IF mine = {} THEN NewOdss({k}, m) ELSE {}
           rows == seen[s].rows
           tree == m[k].tree
<1>1. /\ phase[s] = "loaded" /\ k # Tenant /\ Fits({k}, UnusedOdsIds)
      /\ UNCHANGED <<meta, changes, mishaps>>
  BY DEF PersistOds
<1>2. k \in Key /\ m[k] # NoOds /\ m \in Metadata
  BY <1>1, SeenTyped DEF SyncInv, ProgressOK
<1>3. {k} \in SUBSET Present(m) /\ tree \in Tree
  BY <1>2 DEF Present, Metadata
<1>4. /\ saved \subseteq OdsRow /\ Distinct(saved)
      /\ \A o \in saved : o.id \in UnusedOdsIds
  <2> DEFINE new == NewOdss({k}, m)
  <2>1. /\ new \subseteq OdsRow /\ Distinct(new)
        /\ \A o \in new : o.id \in UnusedOdsIds
    <3> HIDE DEF k, m
    <3> QED BY <1>1, <1>2, <1>3, NewRows
  <2>2. saved = new \/ saved = {}
    OBVIOUS
  <2> HIDE DEF new, saved
  <2> QED BY <2>1, <2>2 DEF Distinct
<1>5. PICK o \in mine \cup saved :
        LET adds == Missing(o, tree, rows)
            ids  == Numbered(adds, UnusedEdorgIds)
        IN  /\ Fits(adds, UnusedEdorgIds)
            /\ Write(s, TRUE, saved, {}, EdorgInserts(o, tree, rows, ids),
                     EdorgUpdates(o, tree, rows, ids), EdorgDeletes(tree, rows))
  BY DEF PersistOds
<1> DEFINE adds == Missing(o, tree, rows)
           ids  == Numbered(adds, UnusedEdorgIds)
           ins  == EdorgInserts(o, tree, rows, ids)
           upd  == EdorgUpdates(o, tree, rows, ids)
<1>6. o \in OdsRow /\ rows \subseteq EdorgRow /\ Distinct(rows)
  BY <1>4, SeenTyped DEF OfKey
<1>7. IsFiniteSet(adds)
  <2>1. adds \subseteq {o.id} \X EdorgId
    BY <1>3 DEF Missing, SyncAssumption
  <2>2. IsFiniteSet({o.id} \X EdorgId)
    BY FS_Singleton, FS_Product DEF SyncAssumption
  <2> QED BY <2>1, <2>2, FS_Subset
<1>8. ids \in [adds -> UnusedEdorgIds] /\ \A p, q \in adds : ids[p] = ids[q] => p = q
  BY <1>5, <1>7, NumberedInjects, UnusedFree
<1>9. Comparing(o, tree, rows, adds, ids)
  BY <1>3, <1>6, <1>8 DEF Comparing
<1>10. Write(s, TRUE, saved, {}, ins, upd, EdorgDeletes(tree, rows))
  BY <1>5
<1> HIDE DEF m, k, mine, saved, rows, tree, adds, ids
<1>11. ins \subseteq EdorgRow /\ Distinct(ins) /\ \A i \in ins : i.id \in UnusedEdorgIds
  <2>1. \A i \in ins : /\ i \in EdorgRow /\ i.ods = o.id /\ <<o.id, i.eo>> \in adds
                       /\ i.id = ids[<<o.id, i.eo>>] /\ i.id \in UnusedEdorgIds
                       /\ i.parent = ParentOf(o, i.eo, tree, rows, ids)
    BY <1>9, InsertedEdorgs
  <2>2. ASSUME NEW i \in ins, NEW x \in ins, i.id = x.id PROVE i = x
    <3>1. <<o.id, i.eo>> = <<o.id, x.eo>>
      <4>1. ids[<<o.id, i.eo>>] = ids[<<o.id, x.eo>>]
        BY <2>1, <2>2
      <4> QED BY <1>8, <2>1, <4>1
    <3>2. i.eo = x.eo /\ i.ods = x.ods /\ i.parent = x.parent
      <4>1. i.eo = x.eo
        BY <3>1
      <4>2. ParentOf(o, i.eo, tree, rows, ids) = ParentOf(o, x.eo, tree, rows, ids)
        BY <4>1
      <4>3. /\ i.ods = o.id /\ i.parent = ParentOf(o, i.eo, tree, rows, ids)
            /\ x.ods = o.id /\ x.parent = ParentOf(o, x.eo, tree, rows, ids)
        BY <2>1
      <4> QED BY <4>1, <4>2, <4>3
    <3>3. i \in EdorgRow /\ x \in EdorgRow
      BY <2>1
    <3> QED BY <2>2, <3>2, <3>3 DEF EdorgRow
  <2> QED BY <2>1, <2>2 DEF Distinct
<1>12. /\ upd \subseteq EdorgRow /\ Distinct(upd)
       /\ \A u \in upd : \E r \in rows : u.id = r.id /\ u.ods = r.ods /\ u.eo = r.eo
  <2>1. \A u \in upd : /\ u \in EdorgRow
                       /\ \E r \in rows : u.id = r.id /\ u.ods = r.ods /\ u.eo = r.eo
                       /\ u.parent = ParentOf(o, u.eo, tree, rows, ids)
    BY <1>9, UpdatedEdorgs
  <2>2. ASSUME NEW u \in upd, NEW v \in upd, u.id = v.id PROVE u = v
    <3>1. u.ods = v.ods /\ u.eo = v.eo
      BY <1>6, <2>1, <2>2 DEF Distinct
    <3> QED BY <2>1, <2>2, <3>1 DEF EdorgRow
  <2> QED BY <2>1, <2>2 DEF Distinct
<1> DEFINE del == EdorgDeletes(tree, rows)
<1>13. /\ Write(s, TRUE, saved, {}, ins, upd, del)
       /\ \A u \in upd : \E r \in seen[s].rows : u.id = r.id /\ u.ods = r.ods /\ u.eo = r.eo
  BY <1>10, <1>12 DEF rows
<1> HIDE DEF ins, upd, del
<1>14. WritesOfOds(s, saved, ins, upd, del)
  BY <1>4, <1>11, <1>12, <1>13 DEF WritesOfOds
<1> QED BY <1>1, <1>14

\* It keeps the tables in order.
LEMMA PersistOdsKeeps ==
  ASSUME SyncAssumption, SyncInv, NEW s \in Sync, PersistOds(s)
  PROVE  SyncInv'
<1>1. PICK saved, ins, upd, del : WritesOfOds(s, saved, ins, upd, del)
  BY OdsWrites
<1>2. UNCHANGED <<meta, changes, mishaps>>
  BY OdsWrites
<1> QED BY <1>1, <1>2, WriteKeeps DEF WritesOfOds

\* An ODS and its organisations are deleted.
LEMMA DeleteOdsKeeps ==
  ASSUME SyncAssumption, SyncInv, NEW o \in odss, DeleteOds(o)
  PROVE  SyncInv'
<1>1. /\ odss' = odss \ {o} /\ edorgs' = {e \in edorgs : e.ods # o.id}
      /\ References(odss', edorgs')
      /\ disturbed' = [t \in Sync |-> disturbed[t] \/ Reading(t)]
      /\ UNCHANGED <<meta, phase, scope, seen, result, changes, mishaps>>
  BY DEF DeleteOds
<1>2. TablesOK'
  BY <1>1 DEF SyncInv, TablesOK, Distinct, Natural, References, Ids
<1>3. Mentioned' \subseteq Mentioned
  BY <1>1 DEF Mentioned
<1>4. OdsNamed'
  BY <1>3 DEF SyncInv, OdsNamed
<1>5. ProgressOK' /\ SeenOK' /\ CountsOK'
  BY <1>1 DEF SyncInv, ProgressOK, SeenOK, CountsOK, Distinct, Reading
<1>6. ReadAsTheyAre'
  BY <1>1 DEF ReadAsTheyAre, Reading
<1> QED BY <1>2, <1>4, <1>5, <1>6 DEF SyncInv

\* A transaction reads, or what it is about is fetched.
LEMMA ReadKeeps ==
  ASSUME SyncInv, NEW s \in Sync, NEW new \in Reads,
         NEW to \in {"fetched", "listed", "relisted", "loaded"},
         UNCHANGED <<meta, odss, edorgs, result, disturbed, changes, mishaps>>,
         phase' = [phase EXCEPT ![s] = to], seen' = [seen EXCEPT ![s] = new],
         scope' \in [Sync -> Key \cup {Tenant}],
         \A t \in Sync : t # s => scope'[t] = scope[t],
         scope'[s] # Tenant => new.meta[scope'[s]] # NoOds,
         new.list \subseteq Mentioned, new.again \subseteq Mentioned,
         Distinct(new.list), Distinct(new.again), Distinct(new.rows),
         ~ disturbed[s] =>
           /\ to # "fetched" => new.list = odss
           /\ to \in {"relisted", "loaded"} /\ scope'[s] = Tenant => new.again = odss
           /\ to = "loaded" => new.rows = edorgs
  PROVE  SyncInv'
<1>1. phase \in [Sync -> {"idle", "fetched", "listed", "relisted", "loaded"}] /\ seen \in [Sync -> Reads]
  BY DEF SyncInv, ProgressOK, SeenOK
<1>2. /\ phase' \in [Sync -> {"idle", "fetched", "listed", "relisted", "loaded"}]
      /\ seen' \in [Sync -> Reads]
      /\ phase'[s] = to /\ seen'[s] = new
      /\ \A t \in Sync : t # s => phase'[t] = phase[t] /\ seen'[t] = seen[t]
  BY <1>1
<1>3. SeenOK'
  BY <1>2 DEF SyncInv, SeenOK, Distinct
<1>4. ProgressOK'
  BY <1>2 DEF SyncInv, ProgressOK
<1>5. Mentioned' \subseteq Mentioned
  BY <1>2 DEF Mentioned
<1>6. OdsNamed'
  BY <1>5 DEF SyncInv, OdsNamed
<1>7. ReadAsTheyAre'
  <2> SUFFICES ASSUME NEW t \in Sync, ~ disturbed[t]
               PROVE  /\ Reading(t)' => seen'[t].list = odss
                      /\ phase'[t] \in {"relisted", "loaded"} /\ scope'[t] = Tenant =>
                           seen'[t].again = odss
                      /\ phase'[t] = "loaded" => seen'[t].rows = edorgs
    BY DEF ReadAsTheyAre
  <2>1. CASE t = s
    BY <1>2, <2>1 DEF Reading
  <2>2. CASE t # s
    BY <1>2, <2>2 DEF SyncInv, ReadAsTheyAre, Reading
  <2> QED BY <2>1, <2>2
<1>8. TablesOK' /\ CountsOK'
  BY DEF SyncInv, TablesOK, CountsOK, Distinct, References, Natural, Ids
<1> QED BY <1>3, <1>4, <1>6, <1>7, <1>8 DEF SyncInv

\* The metadata is fetched.
LEMMA FetchKeeps ==
  ASSUME SyncInv, NEW s \in Sync, NEW what \in Key \cup {Tenant}, Fetch(s, what),
         what # Tenant => meta[what] # NoOds
  PROVE  SyncInv'
<1> DEFINE new == [seen[s] EXCEPT !.meta = meta]
<1>1. /\ phase' = [phase EXCEPT ![s] = "fetched"] /\ scope' = [scope EXCEPT ![s] = what]
      /\ seen' = [seen EXCEPT ![s] = new]
      /\ UNCHANGED <<meta, odss, edorgs, result, disturbed, changes, mishaps>>
  BY DEF Fetch, Goes, tables
<1>2. seen[s] \in Reads /\ meta \in Metadata /\ scope \in [Sync -> Key \cup {Tenant}]
  BY DEF SyncInv, SeenOK, CountsOK, ProgressOK
<1>3. /\ new \in Reads /\ new.meta = meta /\ new.list = seen[s].list
      /\ new.again = seen[s].again /\ new.rows = seen[s].rows
  BY <1>2 DEF Reads
<1>4. /\ scope' \in [Sync -> Key \cup {Tenant}] /\ scope'[s] = what
      /\ \A t \in Sync : t # s => scope'[t] = scope[t]
  BY <1>1, <1>2
<1> HIDE DEF new
<1> QED BY <1>1, <1>3, <1>4, SeenTyped, ReadKeeps

\* The ODSs are read.
LEMMA ListKeeps ==
  ASSUME SyncInv, NEW s \in Sync, ListOdss(s)
  PROVE  SyncInv'
<1> DEFINE new == [seen[s] EXCEPT !.list = odss]
<1>1. /\ phase' = [phase EXCEPT ![s] = "listed"] /\ phase[s] = "fetched"
      /\ seen' = [seen EXCEPT ![s] = new]
      /\ UNCHANGED <<meta, odss, edorgs, scope, result, disturbed, changes, mishaps>>
  BY DEF ListOdss, Goes, tables
<1>2. /\ seen[s] \in Reads /\ scope \in [Sync -> Key \cup {Tenant}]
      /\ odss \subseteq OdsRow /\ Distinct(odss) /\ odss \subseteq Mentioned
      /\ scope[s] # Tenant => seen[s].meta[scope[s]] # NoOds
  BY <1>1 DEF SyncInv, SeenOK, ProgressOK, TablesOK, Mentioned
<1>3. /\ new \in Reads /\ new.meta = seen[s].meta /\ new.list = odss
      /\ new.again = seen[s].again /\ new.rows = seen[s].rows
  BY <1>2 DEF Reads
<1> HIDE DEF new
<1> QED BY <1>1, <1>2, <1>3, SeenTyped, ReadKeeps

\* They are read again.
LEMMA ListAgainKeeps ==
  ASSUME SyncInv, NEW s \in Sync, ListOdssAgain(s)
  PROVE  SyncInv'
<1> DEFINE new == [seen[s] EXCEPT !.again = odss]
<1>1. /\ phase' = [phase EXCEPT ![s] = "relisted"] /\ phase[s] = "listed"
      /\ seen' = [seen EXCEPT ![s] = new]
      /\ UNCHANGED <<meta, odss, edorgs, scope, result, disturbed, changes, mishaps>>
  BY DEF ListOdssAgain, Goes, tables
<1>2. /\ seen[s] \in Reads /\ scope \in [Sync -> Key \cup {Tenant}]
      /\ odss \subseteq OdsRow /\ Distinct(odss) /\ odss \subseteq Mentioned
      /\ scope[s] # Tenant => seen[s].meta[scope[s]] # NoOds
      /\ ~ disturbed[s] => seen[s].list = odss
  BY <1>1 DEF SyncInv, SeenOK, ProgressOK, TablesOK, Mentioned, ReadAsTheyAre, Reading
<1>3. /\ new \in Reads /\ new.meta = seen[s].meta /\ new.list = seen[s].list
      /\ new.again = odss /\ new.rows = seen[s].rows
  BY <1>2 DEF Reads
<1> HIDE DEF new
<1> QED BY <1>1, <1>2, <1>3, SeenTyped, ReadKeeps

\* The organisations are read.
LEMMA LoadKeeps ==
  ASSUME SyncInv, NEW s \in Sync, LoadEdorgs(s)
  PROVE  SyncInv'
<1> DEFINE new == [seen[s] EXCEPT !.rows = edorgs]
<1>1. /\ phase' = [phase EXCEPT ![s] = "loaded"]
      /\ phase[s] = IF scope[s] = Tenant THEN "relisted" ELSE "listed"
      /\ seen' = [seen EXCEPT ![s] = new]
      /\ UNCHANGED <<meta, odss, edorgs, scope, result, disturbed, changes, mishaps>>
  BY DEF LoadEdorgs, Goes, tables
<1>2. /\ seen[s] \in Reads /\ scope \in [Sync -> Key \cup {Tenant}]
      /\ edorgs \subseteq EdorgRow /\ Distinct(edorgs)
      /\ scope[s] # Tenant => seen[s].meta[scope[s]] # NoOds
      /\ ~ disturbed[s] => /\ seen[s].list = odss
                           /\ scope[s] = Tenant => seen[s].again = odss
  BY <1>1 DEF SyncInv, SeenOK, ProgressOK, TablesOK, Mentioned, ReadAsTheyAre, Reading
<1>3. /\ new \in Reads /\ new.meta = seen[s].meta /\ new.list = seen[s].list
      /\ new.again = seen[s].again /\ new.rows = edorgs
  BY <1>2 DEF Reads
<1> HIDE DEF new
<1> QED BY <1>1, <1>2, <1>3, SeenTyped, ReadKeeps

\* The metadata changes.
LEMMA MetadataKeeps ==
  ASSUME SyncInv, NEW k \in Key, MetadataChanges(k)
  PROVE  SyncInv'
<1>1. /\ meta' \in Metadata /\ changes' \in Nat
      /\ UNCHANGED <<odss, edorgs, phase, scope, seen, result, disturbed, mishaps>>
  BY DEF MetadataChanges, SyncInv, CountsOK, Metadata, tables, progress
<1> QED BY <1>1 DEF SyncInv, CountsOK, TablesOK, SeenOK, OdsNamed, ProgressOK, ReadAsTheyAre,
           Mentioned, Distinct, References, Natural, Ids, Reading

\* To begin with the tables are empty and nothing is under way.
LEMMA SyncBegins ==
  ASSUME SyncAssumption, SyncInit
  PROVE  SyncInv
<1>1. Nothing \in Reads /\ Nothing.list = {} /\ Nothing.again = {} /\ Nothing.rows = {}
  BY DEF Nothing, Reads, Metadata
<1>2. /\ meta \in Metadata /\ odss = {} /\ edorgs = {} /\ seen = [s \in Sync |-> Nothing]
      /\ phase = [s \in Sync |-> "idle"] /\ scope = [s \in Sync |-> Tenant]
      /\ result = [s \in Sync |-> "none"] /\ disturbed = [s \in Sync |-> FALSE]
      /\ changes = 0 /\ mishaps = 0
  BY DEF SyncInit, Nothing, Metadata
<1>3. Mentioned = {}
  BY <1>1, <1>2 DEF Mentioned
<1>4. SeenOK
  BY <1>1, <1>2 DEF SeenOK, Distinct
<1>5. TablesOK /\ ProgressOK /\ CountsOK /\ ReadAsTheyAre
  BY <1>2 DEF TablesOK, ProgressOK, CountsOK, ReadAsTheyAre, Reading, Distinct, References,
              Natural, Ids
<1> QED BY <1>3, <1>4, <1>5 DEF SyncInv, OdsNamed

\* Every step keeps the tables in order.
LEMMA SyncKeeps ==
  ASSUME SyncAssumption, SyncInv, [SyncNext]_vars
  PROVE  SyncInv'
<1>1. ASSUME NEW s \in Sync, Step(s) PROVE SyncInv'
  <2>1. CASE Fetch(s, Tenant)
    BY <2>1, FetchKeeps
  <2>2. CASE ListOdss(s) \/ ListOdssAgain(s) \/ LoadEdorgs(s)
    BY <2>2, ListKeeps, ListAgainKeeps, LoadKeeps
  <2>3. CASE PersistTenant(s) \/ PersistOds(s)
    BY <2>3, PersistTenantKeeps, PersistOdsKeeps
  <2> QED BY <1>1, <2>1, <2>2, <2>3 DEF Step
<1>2. ASSUME NEW s \in Sync, Fails(s) PROVE SyncInv'
  BY <1>2, RollsBackKeeps DEF Fails, SyncInv, CountsOK
<1>3. ASSUME NEW s \in Sync, NEW k \in Key, FetchOds(s, k) PROVE SyncInv'
  BY <1>3, FetchKeeps DEF FetchOds
<1>4. ASSUME NEW o \in odss, DeleteOds(o) PROVE SyncInv'
  BY <1>4, DeleteOdsKeeps
<1>5. ASSUME NEW k \in Key, MetadataChanges(k) PROVE SyncInv'
  BY <1>5, MetadataKeeps
<1>6. CASE UNCHANGED vars
  BY <1>6 DEF vars, tables, progress, SyncInv, CountsOK, TablesOK, SeenOK, OdsNamed, ProgressOK,
     ReadAsTheyAre, Mentioned, Distinct, References, Natural, Ids, Reading
<1> QED BY <1>1, <1>2, <1>3, <1>4, <1>5, <1>6 DEF SyncNext

\* The tables, and what the transactions have read of them, stay in order.
THEOREM SyncInvariance == SyncSpec => []SyncInv
<1>1. SyncInit => SyncInv
  BY SyncBegins, SyncAssumption
<1>2. SyncInv /\ [SyncNext]_vars => SyncInv'
  BY SyncKeeps, SyncAssumption
<1> QED BY <1>1, <1>2, PTL DEF SyncSpec

\* Ids stay unique, organisations have their ODS and their parent, and an ODS
\* has an organisation once, however transactions overlap.
THEOREM SyncTyped == SyncSpec => []SyncTypeOK
<1>1. SyncInv => SyncTypeOK
  BY DEF SyncInv, TablesOK, SeenOK, ProgressOK, CountsOK, SyncTypeOK, Distinct, Reads
<1> QED BY <1>1, SyncInvariance, PTL

-----------------------------------------------------------------------------
(* Who commits, and what it reports.                                        *)

\* A transaction that commits has written.
LEMMA Committed ==
  ASSUME SyncInv, NEW s \in Sync, Committing(s),
         NEW legal, NEW saved, NEW gone, NEW ins, NEW upd, NEW del,
         Write(s, legal, saved, gone, ins, upd, del)
  PROVE  /\ odss' = OdssAfter(saved, gone) /\ edorgs' = EdorgsAfter(gone, ins, upd, del)
         /\ result'[s] = "same" => saved \cup gone \cup ins \cup upd \cup del = {}
<1> DEFINE how == IF HasChanges(saved, gone, ins, upd, del) THEN "changed" ELSE "same"
<1>1. ~ RollsBack(s)
  BY EndsInOrder DEF RollsBack, Committing
<1>2. Commits(s, OdssAfter(saved, gone), EdorgsAfter(gone, ins, upd, del), how)
  BY <1>1, WritesOrNot
<1>3. Ends(s, how) /\ how \in {"same", "changed"}
  BY <1>2 DEF Commits
<1>4. result'[s] = how
  <2> HIDE DEF how
  <2> QED BY <1>3, EndsInOrder
<1> QED BY <1>2, <1>4 DEF Commits, HasChanges

\* The end of a transaction.
Ending(s) == phase[s] = "loaded" /\ phase'[s] = "idle"

\* The end of one transaction leaves the others where they are.
LEMMA EndsItsOwn ==
  ASSUME SyncInv, NEW s \in Sync, NEW t \in Sync, Ending(s),
         PersistTenant(t) \/ PersistOds(t)
  PROVE  t = s
<1>1. \E legal, saved, gone, ins, upd, del : Write(t, legal, saved, gone, ins, upd, del)
  <2>1. CASE PersistTenant(t)
    BY <2>1, TenantWrites
  <2>2. CASE PersistOds(t)
    BY <2>2 DEF PersistOds
  <2> QED BY <2>1, <2>2
<1>2. \E how \in {"failed", "same", "changed"} : Ends(t, how)
  BY <1>1 DEF Write, Commits, RollsBack
<1>3. t # s => phase'[s] = phase[s]
  BY <1>2, EndsInOrder
<1> QED BY <1>3 DEF Ending

\* Without a mishap only the last step of a transaction ends it.
LEMMA PersistEnds ==
  ASSUME SyncInv, [SyncNext]_vars, NEW s \in Sync, Ending(s), ~ Fails(s)
  PROVE  PersistTenant(s) \/ PersistOds(s)
<1>1. phase \in [Sync -> {"idle", "fetched", "listed", "relisted", "loaded"}]
      /\ phase[s] = "loaded" /\ phase'[s] = "idle"
  BY DEF SyncInv, ProgressOK, Ending
<1>2. ASSUME NEW t \in Sync, NEW from, NEW to \in {"fetched", "listed", "relisted", "loaded"},
             Goes(t, from, to)
      PROVE  FALSE
  BY <1>1, <1>2 DEF Goes
<1>3. ASSUME NEW t \in Sync, NEW what, Fetch(t, what) PROVE FALSE
  BY <1>2, <1>3 DEF Fetch
<1>4. ASSUME NEW t \in Sync, Step(t) PROVE PersistTenant(s) \/ PersistOds(s)
  <2>1. ~ ListOdss(t) /\ ~ ListOdssAgain(t) /\ ~ LoadEdorgs(t)
    BY <1>2 DEF ListOdss, ListOdssAgain, LoadEdorgs
  <2>2. PersistTenant(t) \/ PersistOds(t)
    BY <1>3, <1>4, <2>1 DEF Step
  <2> QED BY <2>2, EndsItsOwn
<1>5. ASSUME NEW t \in Sync, Fails(t) PROVE FALSE
  <2>1. Ends(t, "failed") /\ t # s
    BY <1>5 DEF Fails, RollsBack
  <2> QED BY <1>1, <2>1, EndsInOrder
<1>6. ASSUME NEW t \in Sync, NEW k \in Key, FetchOds(t, k) PROVE FALSE
  BY <1>3, <1>6 DEF FetchOds
<1>7. ASSUME NEW o \in odss, DeleteOds(o) PROVE FALSE
  BY <1>1, <1>7 DEF DeleteOds
<1>8. ASSUME NEW k \in Key, MetadataChanges(k) PROVE FALSE
  BY <1>1, <1>8 DEF MetadataChanges, progress
<1>9. ~ UNCHANGED vars
  BY <1>1 DEF vars, progress
<1> QED BY <1>4, <1>5, <1>6, <1>7, <1>8, <1>9 DEF SyncNext

\* So it is what commits it.
LEMMA PersistCommits ==
  ASSUME SyncInv, [SyncNext]_vars, NEW s \in Sync, Committing(s)
  PROVE  PersistTenant(s) \/ PersistOds(s)
<1>1. ASSUME Fails(s) PROVE FALSE
  <2>1. Ends(s, "failed")
    BY <1>1 DEF Fails, RollsBack
  <2> QED BY <2>1, EndsInOrder DEF Committing
<1> QED BY <1>1, PersistEnds DEF Committing, Ending

\* Nothing written, nothing changed.
LEMMA NothingWritten ==
  OdssAfter({}, {}) = odss /\ EdorgsAfter({}, {}, {}, {}) = edorgs
BY DEF OdssAfter, EdorgsAfter, Written, Ids

\* Whoever changes the tables says so, which is what makes the callers flush
\* the ownership cache.
THEOREM SyncReports == SyncSpec => ChangesReported
<1>1. ASSUME SyncInv, [SyncNext]_vars, NEW s \in Sync, result'[s] = "same", Committing(s)
      PROVE  UNCHANGED tables
  <2>1. PersistTenant(s) \/ PersistOds(s)
    BY <1>1, PersistCommits
  <2>2. PICK legal, saved, gone, ins, upd, del : Write(s, legal, saved, gone, ins, upd, del)
    <3>1. CASE PersistTenant(s)
      BY <3>1, TenantWrites
    <3>2. CASE PersistOds(s)
      BY <3>2 DEF PersistOds
    <3> QED BY <2>1, <3>1, <3>2
  <2>3. /\ odss' = OdssAfter(saved, gone) /\ edorgs' = EdorgsAfter(gone, ins, upd, del)
        /\ saved \cup gone \cup ins \cup upd \cup del = {}
    BY <1>1, <2>2, Committed
  <2>4. saved = {} /\ gone = {} /\ ins = {} /\ upd = {} /\ del = {}
    BY <2>3
  <2> QED BY <2>3, <2>4, NothingWritten DEF tables
<1>2. SyncInv /\ [SyncNext]_vars =>
        [\A s \in Sync : result'[s] = "same" /\ Committing(s) => UNCHANGED tables]_vars
  BY <1>1
<1> QED BY <1>2, SyncInvariance, PTL DEF SyncSpec, ChangesReported

-----------------------------------------------------------------------------
(* A synchronisation of the tenant that nobody disturbs.                    *)

\* It has read the tables as they are, and is about to write.
Solo(s) == /\ SyncInv /\ PersistTenant(s)
           /\ seen[s].list = odss /\ seen[s].again = odss /\ seen[s].rows = edorgs

\* The tables it would leave.
OdssLeft(s)   == OdssAfter(SavedBy(s), GoneBy(s))
EdorgsLeft(s) == EdorgsAfter(GoneBy(s), InsertedBy(s), UpdatedBy(s), DeletedBy(s))

\* It leaves them if it commits.
LEMMA SoloWrites ==
  ASSUME NEW s \in Sync, Solo(s), Committing(s)
  PROVE  odss' = OdssLeft(s) /\ edorgs' = EdorgsLeft(s)
BY TenantWrites, Committed DEF Solo, OdssLeft, EdorgsLeft

\* What it saves, and what it keeps, are the ODSs of the metadata.
LEMMA SoloSaves ==
  ASSUME SyncAssumption, NEW s \in Sync, Solo(s)
  PROVE  LET m == seen[s].meta
             K == Kept(odss, m)
             S == SavedBy(s)
         IN  /\ \A o \in S : /\ o.label = m[o.key].label
                             /\ \/ o.id \in UnusedOdsIds /\ OfKey(odss, o.key) = {}
                                \/ \E x \in K : /\ x.id = o.id /\ x.key = o.key
                                                /\ x.label # m[x.key].label
             /\ \A k \in Present(m) : OfKey(odss, k) = {} => \E o \in S : o.key = k
             /\ \A x \in K : x.label # m[x.key].label => \E o \in S : o.key = x.key /\ o.id = x.id
             /\ K \subseteq odss /\ \A x \in K : x.key \in Present(m)
             /\ \A o, x \in K : o.key = x.key => o = x
             /\ \A k \in Present(m) : OfKey(odss, k) # {} => \E x \in K : x.key = k
<1> DEFINE list == seen[s].list
           m == seen[s].meta
<1>1. Fits(OdsInserts(list, m), UnusedOdsIds) /\ SyncInv
  BY TenantWrites DEF Solo
<1>2. list \in SUBSET OdsRow /\ list = odss /\ m \in Metadata /\ Distinct(list)
  BY SeenTyped DEF Solo
<1>3. \A o \in list : \E x \in Mentioned : x.id = o.id /\ x.key = o.key
  BY SeenTyped DEF Solo
<1>4. SavedBy(s) = Saved(list, m)
  BY DEF SavedBy
<1> HIDE DEF list, m
<1>5. /\ \A o \in Saved(list, m) :
           /\ o.label = m[o.key].label
           /\ \/ o.id \in UnusedOdsIds /\ OfKey(list, o.key) = {}
              \/ \E x \in Kept(list, m) : /\ x.id = o.id /\ x.key = o.key
                                          /\ x.label # m[x.key].label
      /\ \A k \in Present(m) : OfKey(list, k) = {} => \E o \in Saved(list, m) : o.key = k
      /\ \A x \in Kept(list, m) : x.label # m[x.key].label =>
           \E o \in Saved(list, m) : o.key = x.key /\ o.id = x.id
  BY <1>1, <1>2, <1>3, SavedRows
<1>6. /\ Kept(list, m) \subseteq list /\ \A x \in Kept(list, m) : x.key \in Present(m)
      /\ \A o, x \in Kept(list, m) : o.key = x.key => o = x
      /\ \A k \in Present(m) : OfKey(list, k) # {} => \E x \in Kept(list, m) : x.key = k
  BY <1>2, KeptRows
<1> QED BY <1>2, <1>4, <1>5, <1>6 DEF m

\* The entities it compares are the ODSs it leaves.
LEMMA SoloLeavesEntities ==
  ASSUME SyncAssumption, NEW s \in Sync, Solo(s)
  PROVE  OdssLeft(s) = EntitiesOf(s)
<1> DEFINE m == seen[s].meta
           K == Kept(odss, m)
           S == SavedBy(s)
           D == odss \ K
           E == S \cup {o \in K : OfKey(S, o.key) = {}}
<1>1. OdssLeft(s) = OdssAfter(S, D)
  BY DEF OdssLeft, Solo, GoneBy, OdsDeletes
<1>2. E = EntitiesOf(s)
  BY DEF EntitiesOf, Entities, Solo
<1>3. /\ \A o \in S : \/ o.id \in UnusedOdsIds /\ OfKey(odss, o.key) = {}
                      \/ \E x \in K : x.id = o.id /\ x.key = o.key
      /\ K \subseteq odss /\ \A o, x \in K : o.key = x.key => o = x
  <2>1. /\ \A o \in S : /\ o.label = m[o.key].label
                        /\ \/ o.id \in UnusedOdsIds /\ OfKey(odss, o.key) = {}
                           \/ \E x \in K : /\ x.id = o.id /\ x.key = o.key
                                           /\ x.label # m[x.key].label
        /\ K \subseteq odss /\ \A o, x \in K : o.key = x.key => o = x
    BY SoloSaves
  <2> HIDE DEF m, K, S
  <2> QED BY <2>1
<1>4. /\ Distinct(odss) /\ \A i \in UnusedOdsIds : \A o \in odss : o.id # i
  BY UnusedFree DEF Solo, SyncInv, TablesOK, Mentioned
<1> HIDE DEF m, K, S
<1>5. ASSUME NEW r \in E PROVE r \in OdssAfter(S, D)
  <2>1. CASE r \in S
    <3>1. ASSUME NEW d \in D, d.id = r.id PROVE FALSE
      BY <1>3, <1>4, <2>1, <3>1 DEF Distinct
    <3> QED BY <2>1, <3>1 DEF OdssAfter, Written, Ids
  <2>2. CASE r \in K /\ OfKey(S, r.key) = {}
    <3>1. ASSUME NEW o \in S, o.id = r.id PROVE FALSE
      <4>1. PICK x \in K : x.id = o.id /\ x.key = o.key
        BY <1>3, <1>4, <2>2, <3>1
      <4>2. x = r
        BY <1>3, <1>4, <2>2, <3>1, <4>1 DEF Distinct
      <4> QED BY <2>2, <4>1, <4>2 DEF OfKey
    <3>2. ASSUME NEW d \in D, d.id = r.id PROVE FALSE
      BY <1>3, <1>4, <2>2, <3>2 DEF Distinct
    <3> QED BY <1>3, <2>2, <3>1, <3>2 DEF OdssAfter, Written, Ids
  <2> QED BY <2>1, <2>2
<1>6. ASSUME NEW r \in OdssAfter(S, D) PROVE r \in E
  <2>1. CASE r \in S
    BY <2>1
  <2>2. CASE r \notin S
    <3>1. r \in odss /\ r.id \notin Ids(S) /\ r.id \notin Ids(D)
      BY <1>6, <2>2 DEF OdssAfter, Written
    <3>2. r \in K
      BY <3>1 DEF Ids
    <3>3. ASSUME NEW o \in S, o.key = r.key PROVE FALSE
      <4>1. OfKey(odss, o.key) # {}
        BY <3>1, <3>3 DEF OfKey
      <4>2. PICK x \in K : x.id = o.id /\ x.key = o.key
        BY <1>3, <4>1
      <4>3. x = r
        BY <1>3, <3>2, <3>3, <4>2
      <4> QED BY <3>1, <4>2, <4>3 DEF Ids
    <3> QED BY <3>2, <3>3 DEF OfKey
  <2> QED BY <2>1, <2>2
<1>7. OdssAfter(S, D) = E
  BY <1>5, <1>6
<1> QED BY <1>1, <1>2, <1>7

\* One row of each ODS of the metadata, with its label.
LEMMA SoloMirrorsOdss ==
  ASSUME SyncAssumption, NEW s \in Sync, Solo(s)
  PROVE  /\ {o.key : o \in OdssLeft(s)} = Present(seen[s].meta)
         /\ \A o, x \in OdssLeft(s) : o.key = x.key => o = x
         /\ \A o \in OdssLeft(s) : o.label = seen[s].meta[o.key].label
<1> DEFINE m == seen[s].meta
           K == Kept(odss, m)
           S == SavedBy(s)
           E == EntitiesOf(s)
<1>1. /\ \A o, x \in E : o.key = x.key => o = x
      /\ \A o \in E : o.key \in Present(m)
  BY EntitiesInOrder DEF Solo
<1>2. E = S \cup {o \in K : OfKey(S, o.key) = {}}
  BY DEF EntitiesOf, Entities, Solo
<1>3. /\ \A o \in S : o.label = m[o.key].label
      /\ \A k \in Present(m) : OfKey(odss, k) = {} => \E o \in S : o.key = k
      /\ \A x \in K : x.label # m[x.key].label => \E o \in S : o.key = x.key
      /\ \A k \in Present(m) : OfKey(odss, k) # {} => \E x \in K : x.key = k
  BY SoloSaves
<1>4. OdssLeft(s) = E
  BY SoloLeavesEntities
<1> HIDE DEF m, K, S, E
<1>5. ASSUME NEW k \in Present(m) PROVE \E o \in E : o.key = k
  <2>1. CASE OfKey(S, k) # {}
    BY <1>2, <2>1 DEF OfKey
  <2>2. CASE OfKey(S, k) = {}
    <3>1. OfKey(odss, k) # {}
      BY <1>3, <2>2 DEF OfKey
    <3>2. PICK x \in K : x.key = k
      BY <1>3, <3>1
    <3> QED BY <1>2, <2>2, <3>2
  <2> QED BY <2>1, <2>2
<1>6. \A o \in E : o.label = m[o.key].label
  BY <1>2, <1>3 DEF OfKey
<1>7. {o.key : o \in E} = Present(m)
  BY <1>1, <1>5
<1> QED BY <1>1, <1>4, <1>6, <1>7 DEF m

\* Of an ODS the table has an organisation once: the last row is the row.
LEMMA OnlyRow ==
  ASSUME SyncAssumption, NEW s \in Sync, Solo(s), NEW o, NEW e \in ReadOf(s, o)
  PROVE  /\ e \in edorgs /\ e.ods = o.id
         /\ Named(ReadOf(s, o), e.eo) # {} /\ Last(Named(ReadOf(s, o), e.eo)) = e
<1>1. e \in edorgs /\ e.ods = o.id /\ ReadOf(s, o) = {r \in edorgs : r.ods = o.id}
  BY DEF ReadOf, RowsOf, Solo
<1>2. e \in Named(ReadOf(s, o), e.eo)
  BY DEF Named
<1>3. ReadOf(s, o) \subseteq EdorgRow
  BY <1>1 DEF Solo, SyncInv, TablesOK
<1>4. Last(Named(ReadOf(s, o), e.eo)) \in ReadOf(s, o) /\ Last(Named(ReadOf(s, o), e.eo)).eo = e.eo
  BY <1>2, <1>3, LastNamed
<1> QED BY <1>1, <1>2, <1>4 DEF Solo, SyncInv, TablesOK, Natural

\* The rows deleted are rows of the table.
LEMMA SoloDeletes ==
  ASSUME SyncAssumption, NEW s \in Sync, Solo(s)
  PROVE  /\ DeletedBy(s) \subseteq edorgs
         /\ \A e \in DeletedBy(s), o \in EntitiesOf(s) :
              e.ods = o.id => e.eo \notin DOMAIN TreeOf(s, o)
         /\ \A e \in edorgs, o \in EntitiesOf(s) :
              e.ods = o.id /\ e.eo \notin DOMAIN TreeOf(s, o) => e \in DeletedBy(s)
<1>1. ASSUME NEW e \in DeletedBy(s)
      PROVE  /\ e \in edorgs
             /\ \A o \in EntitiesOf(s) : e.ods = o.id => e.eo \notin DOMAIN TreeOf(s, o)
  <2>1. PICK p \in EntitiesOf(s) : e \in EdorgDeletes(TreeOf(s, p), ReadOf(s, p))
    BY DEF DeletedBy
  <2>2. e \in ReadOf(s, p)
    BY <2>1 DEF EdorgDeletes
  <2>3. e \in edorgs /\ e.ods = p.id /\ e = Last(Named(ReadOf(s, p), e.eo))
    BY <2>2, OnlyRow
  <2>4. e.eo \notin DOMAIN TreeOf(s, p)
    BY <2>1, <2>3 DEF EdorgDeletes
  <2>5. \A o \in EntitiesOf(s) : e.ods = o.id => o = p
    BY <2>3, EntitiesInOrder DEF Distinct, Solo
  <2> QED BY <2>3, <2>4, <2>5
<1>2. ASSUME NEW e \in edorgs, NEW o \in EntitiesOf(s), e.ods = o.id, e.eo \notin DOMAIN TreeOf(s, o)
      PROVE  e \in DeletedBy(s)
  <2>1. e \in EdorgDeletes(TreeOf(s, o), ReadOf(s, o))
    BY <1>2 DEF EdorgDeletes, ReadOf, RowsOf, Solo
  <2> QED BY <2>1 DEF DeletedBy
<1> QED BY <1>1, <1>2

\* A row left under an ODS is an organisation of its tree, with the id and the
\* parent that the comparison gave it.
LEMMA SoloLeaves ==
  ASSUME SyncAssumption, NEW s \in Sync, Solo(s), NEW o \in EntitiesOf(s),
         NEW e \in EdorgsLeft(s), e.ods = o.id
  PROVE  /\ e.eo \in DOMAIN TreeOf(s, o)
         /\ e.id = IdOf(o, e.eo, ReadOf(s, o), IdsOf(s))
         /\ TreeOf(s, o)[e.eo] # Root =>
              e.parent = ParentOf(o, e.eo, TreeOf(s, o), ReadOf(s, o), IdsOf(s))
<1> DEFINE tree == TreeOf(s, o)
           rows == ReadOf(s, o)
           ids  == IdsOf(s)
<1>1. e \in Written({x \in edorgs : x.ods \notin Ids(GoneBy(s))} \cup InsertedBy(s), UpdatedBy(s))
      /\ e.id \notin Ids(DeletedBy(s))
  BY DEF EdorgsLeft, EdorgsAfter
<1>2. \A p \in EntitiesOf(s) : e.ods = p.id => p = o
  BY EntitiesInOrder DEF Distinct, Solo
<1>3. CASE e \in UpdatedBy(s)
  <2>1. PICK p \in EntitiesOf(s) :
          /\ e.ods = p.id /\ e.eo \in DOMAIN TreeOf(s, p)
          /\ Named(ReadOf(s, p), e.eo) # {}
          /\ \E r \in seen[s].rows : r = Last(Named(ReadOf(s, p), e.eo)) /\ e.id = r.id
          /\ e.parent = ParentOf(p, e.eo, TreeOf(s, p), ReadOf(s, p), IdsOf(s))
    BY <1>3, UpdatedInOrder DEF Solo
  <2>2. p = o
    BY <1>2, <2>1
  <2> QED BY <2>1, <2>2 DEF IdOf
<1>4. CASE e \in InsertedBy(s)
  <2>1. PICK p \in EntitiesOf(s) :
          /\ e.ods = p.id /\ e.eo \in DOMAIN TreeOf(s, p)
          /\ Named(ReadOf(s, p), e.eo) = {}
          /\ <<p.id, e.eo>> \in AddedBy(s) /\ e.id = IdsOf(s)[<<p.id, e.eo>>]
          /\ e.parent = ParentOf(p, e.eo, TreeOf(s, p), ReadOf(s, p), IdsOf(s))
    <3>1. SyncInv /\ PersistTenant(s)
      BY DEF Solo
    <3> QED BY <1>4, <3>1, InsertedInOrder
  <2>2. p = o
    BY <1>2, <2>1
  <2> QED BY <2>1, <2>2 DEF IdOf
<1>5. CASE e \in edorgs /\ e.id \notin Ids(UpdatedBy(s))
  <2>1. e \in rows
    BY <1>5 DEF ReadOf, RowsOf, Solo
  <2>2. Named(rows, e.eo) # {} /\ Last(Named(rows, e.eo)) = e
    BY <2>1, OnlyRow
  <2>3. e.eo \in DOMAIN tree
    BY <1>1, <1>5, SoloDeletes DEF Ids
  <2>4. e.id = IdOf(o, e.eo, rows, ids)
    BY <2>2 DEF IdOf
  <2>5. ASSUME tree[e.eo] # Root, e.parent # ParentOf(o, e.eo, tree, rows, ids) PROVE FALSE
    <3>1. Comparing(o, tree, rows, AddedBy(s), ids)
      BY AllCompared DEF Solo
    <3>2. \E u \in EdorgUpdates(o, tree, rows, ids) : u.id = e.id
      <4> HIDE DEF tree, rows, ids
      <4> QED BY <2>2, <2>3, <2>5, <3>1, UpdatedEdorgs
    <3>3. EdorgUpdates(o, tree, rows, ids) \subseteq UpdatedBy(s)
      BY DEF UpdatedBy
    <3> QED BY <1>5, <3>2, <3>3 DEF Ids
  <2> QED BY <2>3, <2>4, <2>5
<1> QED BY <1>1, <1>3, <1>4, <1>5 DEF Written

\* Every organisation of the tree has a row.
LEMMA SoloHas ==
  ASSUME SyncAssumption, NEW s \in Sync, Solo(s), NEW o \in EntitiesOf(s),
         NEW eo \in DOMAIN TreeOf(s, o)
  PROVE  \E e \in EdorgsLeft(s) : e.ods = o.id /\ e.eo = eo
<1> DEFINE tree == TreeOf(s, o)
           rows == ReadOf(s, o)
           ids  == IdsOf(s)
           now  == {x \in edorgs : x.ods \notin Ids(GoneBy(s))}
           all  == Written(now \cup InsertedBy(s), UpdatedBy(s))
<1>1. EdorgsLeft(s) = {e \in all : e.id \notin Ids(DeletedBy(s))}
  BY DEF EdorgsLeft, EdorgsAfter
<1>2. \A u \in UpdatedBy(s) : \E r \in edorgs : u.id = r.id /\ u.ods = r.ods /\ u.eo = r.eo
  BY UpdatedInOrder DEF Solo
<1>3. DeletedBy(s) \subseteq edorgs /\ Distinct(edorgs)
  BY SoloDeletes DEF Solo, SyncInv, TablesOK
<1>4. CASE Named(rows, eo) = {}
  <2>1. Comparing(o, tree, rows, AddedBy(s), ids)
    BY AllCompared DEF Solo
  <2>2. PICK i \in EdorgInserts(o, tree, rows, ids) : i.eo = eo /\ i.ods = o.id
    <3> HIDE DEF tree, rows, ids
    <3>1. eo \in DOMAIN tree
      BY DEF tree
    <3> QED BY <1>4, <2>1, <3>1, InsertedEdorgs
  <2>3. i \in InsertedBy(s)
    BY DEF InsertedBy
  <2>4. \A e \in edorgs : e.id # i.id
    BY <2>3, InsertedInOrder, UnusedFree DEF Solo
  <2>5. i.id \notin Ids(UpdatedBy(s)) /\ i.id \notin Ids(DeletedBy(s))
    BY <1>2, <1>3, <2>4 DEF Ids
  <2> QED BY <1>1, <2>2, <2>3, <2>5 DEF Written
<1>5. CASE Named(rows, eo) # {}
  <2>1. PICK e \in rows : e.eo = eo
    BY <1>5 DEF Named
  <2>2. e \in edorgs /\ e.ods = o.id
    BY OnlyRow
  <2>3. o.id \notin Ids(GoneBy(s))
    BY SoloLeavesEntities DEF OdssLeft, OdssAfter
  <2>4. e.id \notin Ids(DeletedBy(s))
    <3>1. ASSUME NEW d \in DeletedBy(s), d.id = e.id PROVE FALSE
      <4>1. d = e
        BY <1>3, <2>2, <3>1 DEF Distinct
      <4> QED BY <2>1, <2>2, <4>1, SoloDeletes
    <3> QED BY <3>1 DEF Ids
  <2>5. CASE e.id \in Ids(UpdatedBy(s))
    <3>1. PICK u \in UpdatedBy(s) : u.id = e.id
      BY <2>5 DEF Ids
    <3>2. u.ods = o.id /\ u.eo = eo
      BY <1>2, <1>3, <2>1, <2>2, <3>1 DEF Distinct
    <3> QED BY <1>1, <2>4, <3>1, <3>2 DEF Written
  <2>6. CASE e.id \notin Ids(UpdatedBy(s))
    BY <1>1, <2>1, <2>2, <2>3, <2>4, <2>6 DEF Written
  <2> QED BY <2>5, <2>6
<1> QED BY <1>4, <1>5


\* The tables show what was fetched.
LEMMA SoloMirrored ==
  ASSUME SyncAssumption, NEW s \in Sync, Solo(s), Committing(s), NEW m, m = seen[s].meta
  PROVE  Mirrors(m)'
<1>0. odss' = OdssLeft(s) /\ edorgs' = EdorgsLeft(s)
  BY SoloWrites
<1>1. /\ {o.key : o \in odss'} = Present(m)
      /\ \A o, x \in odss' : o.key = x.key => o = x
      /\ \A o \in odss' : o.label = m[o.key].label
  BY <1>0, SoloMirrorsOdss
<1>2. ASSUME NEW o \in odss'
      PROVE  /\ o \in EntitiesOf(s) /\ m[o.key].tree = TreeOf(s, o) /\ TreeOf(s, o) \in Tree
  <2>1. o \in EntitiesOf(s)
    BY <1>0, SoloLeavesEntities
  <2> QED BY <2>1, EntitiesInOrder DEF TreeOf, Solo
<1>3. ASSUME NEW o \in odss'
      PROVE  {e.eo : e \in Under(o)'} = DOMAIN m[o.key].tree
  <2>1. \A e \in Under(o)' : e.eo \in DOMAIN TreeOf(s, o)
    BY <1>0, <1>2, SoloLeaves DEF Under
  <2>2. \A eo \in DOMAIN TreeOf(s, o) : \E e \in Under(o)' : e.eo = eo
    BY <1>0, <1>2, SoloHas DEF Under
  <2> QED BY <1>2, <2>1, <2>2
<1>4. ASSUME NEW o \in odss', NEW e \in Under(o)', m[o.key].tree[e.eo] # Root
      PROVE  \E p \in Under(o)' : p.id = e.parent /\ p.eo = m[o.key].tree[e.eo]
  <2> DEFINE tree == TreeOf(s, o)
             over == tree[e.eo]
  <2>1. e \in edorgs' /\ e.ods = o.id /\ o \in EntitiesOf(s)
        /\ m[o.key].tree = tree /\ tree \in Tree
    BY <1>2 DEF Under
  <2>2. /\ e.eo \in DOMAIN tree
        /\ e.parent = ParentOf(o, e.eo, tree, ReadOf(s, o), IdsOf(s))
    BY <1>0, <1>4, <2>1, SoloLeaves
  <2>3. over \in DOMAIN tree /\ over # Root
    BY <1>4, <2>1, <2>2 DEF SyncAssumption
  <2>4. PICK p \in edorgs' : p.ods = o.id /\ p.eo = over
    BY <1>0, <2>1, <2>3, SoloHas
  <2>5. p.id = IdOf(o, over, ReadOf(s, o), IdsOf(s))
    BY <1>0, <2>1, <2>4, SoloLeaves
  <2>6. e.parent = IdOf(o, over, ReadOf(s, o), IdsOf(s))
    BY <2>2, <2>3 DEF ParentOf
  <2> QED BY <2>1, <2>4, <2>5, <2>6 DEF Under
<1> QED BY <1>1, <1>3, <1>4 DEF Mirrors

\* A synchronisation of the tenant that nobody disturbed leaves the tables
\* showing what it fetched, whatever earlier ones left in them.
THEOREM SoloMirrors == SyncSpec => SoloSyncMirrors
<1>1. ASSUME SyncInv, [SyncNext]_vars, NEW s \in Sync, Committing(s), scope[s] = Tenant,
             ~ disturbed[s]
      PROVE  \E m \in {seen[s].meta} : Mirrors(m)'
  <2>1. PersistTenant(s)
    BY <1>1, PersistCommits DEF PersistOds
  <2>2. Solo(s)
    BY <1>1, <2>1 DEF Solo, SyncInv, ReadAsTheyAre, Reading, Committing
  <2> QED BY <1>1, <2>2, SoloMirrored, SyncAssumption
<1>2. SyncInv /\ [SyncNext]_vars =>
        [\A s \in Sync : (Committing(s) /\ scope[s] = Tenant /\ ~disturbed[s]) =>
           \E m \in {seen[s].meta} : Mirrors(m)']_vars
  BY <1>1
<1> QED BY <1>2, SyncInvariance, PTL DEF SyncSpec, SoloSyncMirrors

-----------------------------------------------------------------------------
(* What a synchronisation deletes.                                          *)

\* The organisations in the table, or read by a transaction.
EdorgsMentioned == edorgs \cup UNION {seen[s].rows : s \in Sync}

\* An id names one organisation of one ODS, whoever mentions it.
EdorgsNamed == \A e, x \in EdorgsMentioned : e.id = x.id => e.ods = x.ods /\ e.eo = x.eo

\* Whoever has read the organisations has read each once.
ReadNatural == \A s \in Sync : Natural(seen[s].rows)

SyncRowsInv == SyncInv /\ EdorgsNamed /\ ReadNatural

\* Organisations that were not mentioned before may appear, under new ids.
LEMMA EdorgsNamedStill ==
  ASSUME SyncAssumption, SyncInv, EdorgsNamed, Distinct(edorgs'),
         \A e \in EdorgsMentioned' :
           \/ e \in edorgs' /\ e.id \in UnusedEdorgIds
           \/ \E x \in EdorgsMentioned : x.id = e.id /\ x.ods = e.ods /\ x.eo = e.eo
  PROVE  EdorgsNamed'
<1>1. \A x \in EdorgsMentioned : x.id \notin UnusedEdorgIds
  BY UnusedFree DEF EdorgsMentioned
<1> SUFFICES ASSUME NEW e \in EdorgsMentioned', NEW x \in EdorgsMentioned', e.id = x.id
             PROVE  e.ods = x.ods /\ e.eo = x.eo
  BY DEF EdorgsNamed
<1>2. CASE e.id \in UnusedEdorgIds
  BY <1>1, <1>2 DEF Distinct
<1>3. CASE e.id \notin UnusedEdorgIds
  BY <1>3 DEF EdorgsNamed
<1> QED BY <1>2, <1>3

\* The end of a transaction leaves what the others have read.
LEMMA EndsForgets ==
  ASSUME SyncInv, ReadNatural, NEW s \in Sync, NEW how, Ends(s, how)
  PROVE  /\ ReadNatural'
         /\ \A t \in Sync : seen'[t].rows = {} \/ seen'[t].rows = seen[t].rows
<1>1. seen' = [seen EXCEPT ![s] = Nothing] /\ seen \in [Sync -> Reads]
  BY DEF Ends, SyncInv, SeenOK
<1>2. Nothing.rows = {}
  BY DEF Nothing
<1>3. \A t \in Sync : seen'[t].rows = {} \/ seen'[t].rows = seen[t].rows
  BY <1>1, <1>2
<1> QED BY <1>3 DEF ReadNatural, Natural

\* A transaction inserts organisations under new ids and updates those it has read.
LEMMA WriteNames ==
  ASSUME SyncAssumption, SyncRowsInv, SyncInv', NEW s \in Sync,
         NEW legal, NEW saved, NEW gone, NEW ins, NEW upd, NEW del,
         Write(s, legal, saved, gone, ins, upd, del),
         \A i \in ins : i.id \in UnusedEdorgIds,
         \A u \in upd : \E r \in seen[s].rows : u.id = r.id /\ u.ods = r.ods /\ u.eo = r.eo
  PROVE  EdorgsNamed' /\ ReadNatural'
<1>1. PICK how : Ends(s, how)
  BY WritesOrNot DEF RollsBack, Commits
<1>2. /\ ReadNatural'
      /\ \A t \in Sync : seen'[t].rows = {} \/ seen'[t].rows = seen[t].rows
  BY <1>1, EndsForgets DEF SyncRowsInv
<1>3. edorgs' = edorgs \/ edorgs' = EdorgsAfter(gone, ins, upd, del)
  BY WritesOrNot DEF RollsBack, Commits, tables
<1>4. edorgs' \subseteq edorgs \cup ins \cup upd
  BY <1>3 DEF EdorgsAfter, Written
<1>5. \A e \in EdorgsMentioned' : e \in edorgs' \/ e \in EdorgsMentioned
  BY <1>2 DEF EdorgsMentioned
<1>6. edorgs \subseteq EdorgsMentioned /\ seen[s].rows \subseteq EdorgsMentioned
  BY DEF EdorgsMentioned
<1>7. \A e \in EdorgsMentioned' :
        \/ e \in edorgs' /\ e.id \in UnusedEdorgIds
        \/ \E x \in EdorgsMentioned : x.id = e.id /\ x.ods = e.ods /\ x.eo = e.eo
  BY <1>4, <1>5, <1>6
<1>8. Distinct(edorgs')
  BY DEF SyncInv, TablesOK, Distinct
<1> QED BY <1>2, <1>7, <1>8, EdorgsNamedStill DEF SyncRowsInv

\* Reading adds nothing that is not in the table.
LEMMA ReadNames ==
  ASSUME SyncRowsInv, UNCHANGED edorgs,
         \A t \in Sync : seen'[t].rows \in {seen[t].rows, edorgs}
  PROVE  EdorgsNamed' /\ ReadNatural'
<1>1. EdorgsMentioned' \subseteq EdorgsMentioned
  BY DEF EdorgsMentioned
<1>2. EdorgsNamed'
  BY <1>1 DEF EdorgsNamed, SyncRowsInv
<1>3. \A t \in Sync : Natural(seen'[t].rows)
  BY DEF SyncRowsInv, SyncInv, TablesOK, ReadNatural
<1>4. ReadNatural'
  BY <1>3 DEF ReadNatural, Natural
<1> QED BY <1>2, <1>4

\* Every step keeps the names of the organisations.
LEMMA RowsKeep ==
  ASSUME SyncAssumption, SyncRowsInv, [SyncNext]_vars
  PROVE  SyncRowsInv'
<1>1. SyncInv /\ SyncInv' /\ seen \in [Sync -> Reads]
  BY SyncKeeps DEF SyncRowsInv, SyncInv, SeenOK
<1>2. ASSUME NEW s \in Sync, NEW what, Fetch(s, what) PROVE EdorgsNamed' /\ ReadNatural'
  <2>1. seen' = [seen EXCEPT ![s].meta = meta] /\ UNCHANGED edorgs
    BY <1>2 DEF Fetch, tables
  <2>2. \A t \in Sync : seen'[t].rows = seen[t].rows
    BY <1>1, <2>1 DEF Reads
  <2> QED BY <2>1, <2>2, ReadNames
<1>3. ASSUME NEW s \in Sync, ListOdss(s) \/ ListOdssAgain(s) PROVE EdorgsNamed' /\ ReadNatural'
  <2>1. /\ seen' = [seen EXCEPT ![s].list = odss] \/ seen' = [seen EXCEPT ![s].again = odss]
        /\ UNCHANGED edorgs
    BY <1>3 DEF ListOdss, ListOdssAgain, tables
  <2>2. \A t \in Sync : seen'[t].rows = seen[t].rows
    BY <1>1, <2>1 DEF Reads
  <2> QED BY <2>1, <2>2, ReadNames
<1>4. ASSUME NEW s \in Sync, LoadEdorgs(s) PROVE EdorgsNamed' /\ ReadNatural'
  <2>1. seen' = [seen EXCEPT ![s].rows = edorgs] /\ UNCHANGED edorgs
    BY <1>4 DEF LoadEdorgs, tables
  <2>2. \A t \in Sync : seen'[t].rows \in {seen[t].rows, edorgs}
    BY <1>1, <2>1 DEF Reads
  <2> QED BY <2>1, <2>2, ReadNames
<1>5. ASSUME NEW s \in Sync, PersistTenant(s) PROVE EdorgsNamed' /\ ReadNatural'
  <2>1. \A i \in InsertedBy(s) : i.id \in UnusedEdorgIds
    BY <1>1, <1>5, InsertedInOrder
  <2>2. \A u \in UpdatedBy(s) : \E r \in seen[s].rows :
          u.id = r.id /\ u.ods = r.ods /\ u.eo = r.eo
    BY <1>1, <1>5, UpdatedInOrder
  <2>3. PICK legal :
          Write(s, legal, SavedBy(s), GoneBy(s), InsertedBy(s), UpdatedBy(s), DeletedBy(s))
    BY <1>5, TenantWrites
  <2> QED BY <1>1, <2>1, <2>2, <2>3, WriteNames
<1>6. ASSUME NEW s \in Sync, PersistOds(s) PROVE EdorgsNamed' /\ ReadNatural'
  <2>1. PICK saved, ins, upd, del : WritesOfOds(s, saved, ins, upd, del)
    BY <1>1, <1>6, OdsWrites
  <2>2. /\ Write(s, TRUE, saved, {}, ins, upd, del)
        /\ \A i \in ins : i.id \in UnusedEdorgIds
        /\ \A u \in upd : \E r \in seen[s].rows : u.id = r.id /\ u.ods = r.ods /\ u.eo = r.eo
    BY <2>1 DEF WritesOfOds
  <2>3. PICK legal, gone : Write(s, legal, saved, gone, ins, upd, del)
    BY <2>2
  <2> QED BY <1>1, <2>2, <2>3, WriteNames
<1>7. ASSUME NEW s \in Sync, Fails(s) PROVE EdorgsNamed' /\ ReadNatural'
  <2>1. Ends(s, "failed") /\ UNCHANGED edorgs
    BY <1>7 DEF Fails, RollsBack, tables
  <2>2. /\ ReadNatural'
        /\ \A t \in Sync : seen'[t].rows = {} \/ seen'[t].rows = seen[t].rows
    BY <1>1, <2>1, EndsForgets DEF SyncRowsInv
  <2>3. EdorgsMentioned' \subseteq EdorgsMentioned
    BY <2>1, <2>2 DEF EdorgsMentioned
  <2> QED BY <2>2, <2>3 DEF EdorgsNamed, SyncRowsInv
<1>8. ASSUME NEW o \in odss, DeleteOds(o) PROVE EdorgsNamed' /\ ReadNatural'
  <2>1. edorgs' \subseteq edorgs /\ UNCHANGED seen
    BY <1>8 DEF DeleteOds
  <2>2. EdorgsMentioned' \subseteq EdorgsMentioned
    BY <2>1 DEF EdorgsMentioned
  <2> QED BY <2>1, <2>2 DEF EdorgsNamed, ReadNatural, Natural, SyncRowsInv
<1>9. ASSUME UNCHANGED <<tables, progress>> PROVE EdorgsNamed' /\ ReadNatural'
  BY <1>9, ReadNames DEF tables, progress
<1>10. ASSUME NEW s \in Sync, Step(s) PROVE EdorgsNamed' /\ ReadNatural'
  BY <1>2, <1>3, <1>4, <1>5, <1>6, <1>10 DEF Step
<1>11. ASSUME NEW s \in Sync, NEW k \in Key, FetchOds(s, k) PROVE EdorgsNamed' /\ ReadNatural'
  BY <1>2, <1>11 DEF FetchOds
<1>12. ASSUME NEW k \in Key, MetadataChanges(k) PROVE EdorgsNamed' /\ ReadNatural'
  <2>1. UNCHANGED <<tables, progress>>
    BY <1>12 DEF MetadataChanges
  <2> QED BY <1>9, <2>1
<1>13. ASSUME UNCHANGED vars PROVE EdorgsNamed' /\ ReadNatural'
  <2>1. UNCHANGED <<tables, progress>>
    BY <1>13 DEF vars, progress
  <2> QED BY <1>9, <2>1
<1>14. EdorgsNamed' /\ ReadNatural'
  BY <1>7, <1>8, <1>10, <1>11, <1>12, <1>13 DEF SyncNext
<1> QED BY <1>1, <1>14 DEF SyncRowsInv

\* The id of an organisation never comes to name another one, whatever is
\* updated late, and nobody reads an organisation of an ODS twice.
THEOREM RowsInvariance == SyncSpec => []SyncRowsInv
<1>1. SyncInit => SyncRowsInv
  <2> SUFFICES ASSUME SyncInit PROVE SyncRowsInv
    OBVIOUS
  <2>1. edorgs = {} /\ \A s \in Sync : seen[s].rows = {}
    BY DEF SyncInit, Nothing
  <2> QED BY <2>1, SyncBegins, SyncAssumption
          DEF SyncRowsInv, EdorgsNamed, EdorgsMentioned, ReadNatural, Natural
<1>2. SyncRowsInv /\ [SyncNext]_vars => SyncRowsInv'
  BY RowsKeep, SyncAssumption
<1> QED BY <1>1, <1>2, PTL DEF SyncSpec

\* Of the duplicates of an ODS that have been read the last is kept.
LEMMA LaterKept ==
  ASSUME SyncAssumption, NEW list \in SUBSET OdsRow, Distinct(list), NEW m,
         NEW r \in OdsDeletes(list, m), r.key \in Present(m)
  PROVE  \E x \in Kept(list, m) : x \in list /\ x.key = r.key /\ x.id > r.id
<1> DEFINE x == Last(OfKey(list, r.key))
<1>1. r \in list /\ r \in OfKey(list, r.key) /\ r \notin Kept(list, m)
  BY DEF OdsDeletes, OfKey
<1>2. x \in OfKey(list, r.key) /\ r.id <= x.id
  BY <1>1, LastIn DEF OfKey, OdsRow
<1>3. x \in list /\ x.key = r.key
  BY <1>2 DEF OfKey
<1>4. x \in Kept(list, m)
  BY <1>1 DEF Kept
<1> HIDE DEF x
<1>5. x.id # r.id
  BY <1>1, <1>3, <1>4 DEF Distinct
<1>6. x.id \in Nat /\ r.id \in Nat
  BY <1>1, <1>3 DEF OdsRow, Id
<1> QED BY <1>2, <1>3, <1>4, <1>5, <1>6

\* The entities are ODSs that are mentioned, or new.
LEMMA EntitiesNamed ==
  ASSUME SyncAssumption, SyncInv, NEW s \in Sync, PersistTenant(s), NEW o \in EntitiesOf(s)
  PROVE  \/ o.id \in UnusedOdsIds
         \/ \E x \in Mentioned : x.id = o.id /\ x.key = o.key
<1>1. o \in SavedBy(s) \/ o \in Kept(seen[s].again, seen[s].meta)
  BY DEF EntitiesOf, Entities
<1>2. Kept(seen[s].again, seen[s].meta) \subseteq Mentioned
  BY SeenTyped, KeptRows
<1> QED BY <1>1, <1>2, SavedInOrder

\* A synchronisation that commits spares the ODSs of its metadata, and of
\* duplicates the last that it read.
LEMMA OdssAreSpared ==
  ASSUME SyncAssumption, SyncInv, [SyncNext]_vars, NEW s \in Sync, Committing(s)
  PROVE  SparesOdss(s)
<1> SUFFICES ASSUME NEW o \in odss, o.id \notin Ids(odss'), o.key \in Present(seen[s].meta)
             PROVE  \E x \in seen[s].list : /\ x.key = o.key /\ x.id > o.id
                                            /\ x.id \in Ids(odss') \/ disturbed[s]
  BY DEF SparesOdss
<1> DEFINE list == seen[s].list
           m == seen[s].meta
<1>1. \A saved : \A r \in odss : r.id \in Ids(Written(odss, saved))
  BY DEF Written, Ids
<1>2. CASE PersistOds(s)
  <2>1. PICK saved, ins, upd, del : WritesOfOds(s, saved, ins, upd, del)
    BY <1>2, OdsWrites
  <2>2. PICK legal : Write(s, legal, saved, {}, ins, upd, del)
    BY <2>1 DEF WritesOfOds
  <2>3. odss' = OdssAfter(saved, {})
    BY <2>2, Committed
  <2>4. odss' = Written(odss, saved)
    BY <2>3 DEF OdssAfter, Ids
  <2> QED BY <1>1, <2>4
<1>3. CASE PersistTenant(s)
  <2>1. odss' = OdssAfter(SavedBy(s), GoneBy(s))
    BY <1>3, TenantWrites, Committed
  <2>2. \A r \in odss : r.id \notin Ids(GoneBy(s)) => r.id \in Ids(odss')
    BY <1>1, <2>1 DEF OdssAfter, Ids
  <2>3. PICK r \in GoneBy(s) : r.id = o.id
    BY <2>2 DEF Ids
  <2>4. /\ list \in SUBSET OdsRow /\ Distinct(list) /\ list \subseteq Mentioned
        /\ odss \subseteq Mentioned /\ GoneBy(s) = OdsDeletes(list, m)
    BY SeenTyped DEF Mentioned, GoneBy
  <2>5. r \in list /\ r.key = o.key
    BY <2>3, <2>4 DEF OdsDeletes, SyncInv, OdsNamed
  <2>6. PICK x \in Kept(list, m) : x \in list /\ x.key = r.key /\ x.id > r.id
    BY <2>3, <2>4, <2>5, LaterKept
  <2>7. x.id \notin Ids(GoneBy(s))
    BY <2>4, <2>6 DEF OdsDeletes, Distinct, Ids
  <2>8. x.id \in Ids(odss') \/ disturbed[s]
    BY <2>2, <2>6, <2>7 DEF SyncInv, ReadAsTheyAre, Reading, Committing
  <2> QED BY <2>3, <2>5, <2>6, <2>8
<1> QED BY <1>2, <1>3, PersistCommits

\* A synchronisation of the tenant that commits spares the organisations that
\* its metadata shows under an ODS that stays.
LEMMA EdorgsAreSpared ==
  ASSUME SyncAssumption, SyncRowsInv, NEW s \in Sync, PersistTenant(s), Committing(s)
  PROVE  SparesEdorgs(s)
<1> DEFINE m == seen[s].meta
<1> SUFFICES ASSUME NEW e \in edorgs, NEW o \in odss, e.ods = o.id,
                    e.id \notin Ids(edorgs'), o.id \in Ids(odss'), o.key \in Present(m)
             PROVE  e.eo \notin DOMAIN m[o.key].tree
  BY DEF SparesEdorgs
<1>1. /\ SyncInv /\ EdorgsNamed /\ Natural(seen[s].rows)
      /\ odss' = OdssAfter(SavedBy(s), GoneBy(s))
      /\ edorgs' = EdorgsAfter(GoneBy(s), InsertedBy(s), UpdatedBy(s), DeletedBy(s))
  BY TenantWrites, Committed DEF SyncRowsInv, ReadNatural
<1>2. e.ods \notin Ids(GoneBy(s))
  BY <1>1 DEF OdssAfter, Ids
<1>3. e.id \in Ids(DeletedBy(s))
  BY <1>1, <1>2 DEF EdorgsAfter, Written, Ids
<1>4. PICK r \in DeletedBy(s) : r.id = e.id
  BY <1>3 DEF Ids
<1>5. PICK x \in EntitiesOf(s) : r \in EdorgDeletes(TreeOf(s, x), ReadOf(s, x))
  BY <1>4 DEF DeletedBy
<1>6. r \in seen[s].rows /\ r.ods = x.id /\ r \in ReadOf(s, x)
  BY <1>5 DEF EdorgDeletes, ReadOf, RowsOf
<1>7. r.ods = o.id /\ r.eo = e.eo
  BY <1>1, <1>4, <1>6 DEF EdorgsNamed, EdorgsMentioned
<1>8. x.id = o.id /\ x.id \notin UnusedOdsIds
  BY <1>1, <1>6, <1>7, UnusedFree
<1>9. x.key = o.key
  BY <1>1, <1>8, EntitiesNamed DEF SyncInv, OdsNamed, Mentioned
<1>10. SUFFICES ASSUME r.eo \in DOMAIN TreeOf(s, x) PROVE FALSE
  BY <1>7, <1>9 DEF TreeOf
<1>11. ReadOf(s, x) \subseteq EdorgRow /\ Named(ReadOf(s, x), r.eo) # {}
  BY <1>1, <1>6, SeenTyped DEF ReadOf, RowsOf, Named
<1> DEFINE last == Last(Named(ReadOf(s, x), r.eo))
<1>12. r # last
  BY <1>5, <1>10 DEF EdorgDeletes
<1>13. last \in ReadOf(s, x) /\ last.eo = r.eo
  BY <1>11, LastNamed
<1>14. last \in seen[s].rows /\ last.ods = r.ods
  BY <1>6, <1>13 DEF ReadOf, RowsOf
<1> QED BY <1>1, <1>6, <1>12, <1>13, <1>14 DEF Natural

\* However many synchronisations overlap, and be it of the tenant or of one
\* ODS: an ODS that the metadata shows is deleted only as a duplicate.
THEOREM OdssSpared == SyncSpec => [][\A s \in Sync : Committing(s) => SparesOdss(s)]_vars
<1>1. SyncInv /\ [SyncNext]_vars => [\A s \in Sync : Committing(s) => SparesOdss(s)]_vars
  BY OdssAreSpared, SyncAssumption
<1> QED BY <1>1, SyncInvariance, PTL DEF SyncSpec

\* A synchronisation of the tenant spares the organisations, too.
THEOREM TenantSpares ==
  SyncSpec => [][\A s \in Sync : Committing(s) /\ scope[s] = Tenant =>
                   SparesOdss(s) /\ SparesEdorgs(s)]_vars
<1>1. ASSUME SyncRowsInv, [SyncNext]_vars, NEW s \in Sync, Committing(s), scope[s] = Tenant
      PROVE  SparesOdss(s) /\ SparesEdorgs(s)
  <2>1. PersistTenant(s) /\ SyncInv
    BY <1>1, PersistCommits DEF PersistOds, SyncRowsInv
  <2> QED BY <1>1, <2>1, OdssAreSpared, EdorgsAreSpared, SyncAssumption
<1>2. SyncRowsInv /\ [SyncNext]_vars =>
        [\A s \in Sync : Committing(s) /\ scope[s] = Tenant =>
           SparesOdss(s) /\ SparesEdorgs(s)]_vars
  BY <1>1
<1> QED BY <1>2, RowsInvariance, PTL DEF SyncSpec

\* Where no single ODS is synchronised every synchronisation is of the tenant.
LEMMA ScopeStays ==
  ASSUME SyncInv, ~ OneOdsSyncs, \A s \in Sync : scope[s] = Tenant, [SyncNext]_vars
  PROVE  \A s \in Sync : scope'[s] = Tenant
<1>1. scope \in [Sync -> Key \cup {Tenant}]
  BY DEF SyncInv, ProgressOK
<1>2. ASSUME NEW s \in Sync, scope' = [scope EXCEPT ![s] = Tenant]
      PROVE  \A t \in Sync : scope'[t] = Tenant
  BY <1>1, <1>2
<1>3. ASSUME NEW s \in Sync, Step(s) PROVE \A t \in Sync : scope'[t] = Tenant
  <2>1. CASE Fetch(s, Tenant)
    BY <1>2, <2>1 DEF Fetch
  <2>2. CASE ListOdss(s) \/ ListOdssAgain(s) \/ LoadEdorgs(s)
    BY <2>2 DEF ListOdss, ListOdssAgain, LoadEdorgs
  <2>3. CASE PersistTenant(s)
    <3>1. \E how : Ends(s, how)
      BY <2>3, TenantWrites, WritesOrNot DEF RollsBack, Commits
    <3> QED BY <1>2, <3>1 DEF Ends
  <2>4. CASE PersistOds(s)
    BY <2>4 DEF PersistOds
  <2> QED BY <1>3, <2>1, <2>2, <2>3, <2>4 DEF Step
<1>4. ASSUME NEW s \in Sync, Fails(s) PROVE \A t \in Sync : scope'[t] = Tenant
  BY <1>2, <1>4 DEF Fails, RollsBack, Ends
<1>5. ASSUME NEW s \in Sync, NEW k \in Key, FetchOds(s, k) PROVE FALSE
  BY <1>5 DEF FetchOds
<1>6. ASSUME NEW o \in odss, DeleteOds(o) PROVE FALSE
  BY <1>6 DEF DeleteOds
<1>7. ASSUME NEW k \in Key, MetadataChanges(k) PROVE UNCHANGED scope
  BY <1>7 DEF MetadataChanges, progress
<1>8. CASE UNCHANGED vars
  BY <1>8 DEF vars, progress
<1> QED BY <1>3, <1>4, <1>5, <1>6, <1>7, <1>8 DEF SyncNext

\* In an environment that synchronises whole tenants only, nothing is deleted
\* that the metadata shows.
THEOREM OnlyAbsentDeleted == ASSUME ~ OneOdsSyncs PROVE SyncSpec => OnlyAbsentRowsDeleted
<1> DEFINE Whole == \A s \in Sync : scope[s] = Tenant
<1>1. SyncInit => Whole
  BY DEF SyncInit
<1>2. SyncInv /\ Whole /\ [SyncNext]_vars => Whole'
  BY ScopeStays
<1>3. Whole /\ [\A s \in Sync : Committing(s) /\ scope[s] = Tenant =>
                 SparesOdss(s) /\ SparesEdorgs(s)]_vars =>
        [\A s \in Sync : Committing(s) => SparesOdss(s) /\ SparesEdorgs(s)]_vars
  OBVIOUS
<1> HIDE DEF Whole
<1> QED BY <1>1, <1>2, <1>3, SyncInvariance, TenantSpares, PTL DEF SyncSpec, OnlyAbsentRowsDeleted

-----------------------------------------------------------------------------
(* The same metadata again.                                                 *)

\* Where the tables show what was fetched, no ODS is to be written.
LEMMA SameOdss ==
  ASSUME SyncAssumption, NEW s \in Sync, Solo(s), Mirrors(seen[s].meta)
  PROVE  /\ SavedBy(s) = {} /\ GoneBy(s) = {}
         /\ EntitiesOf(s) \subseteq odss
<1> DEFINE m == seen[s].meta
           K == Kept(odss, m)
<1>1. /\ {o.key : o \in odss} = Present(m)
      /\ \A o, x \in odss : o.key = x.key => o = x
      /\ \A o \in odss : o.label = m[o.key].label
  BY DEF Mirrors
<1>2. odss \subseteq OdsRow
  BY DEF Solo, SyncInv, TablesOK
<1>3. /\ K \subseteq odss
      /\ \A k \in Present(m) : OfKey(odss, k) # {} => \E o \in K : o.key = k
  BY <1>2, KeptRows
<1>4. \A k \in Present(m) : OfKey(odss, k) # {}
  BY <1>1 DEF OfKey
<1>5. odss \subseteq K
  <2> SUFFICES ASSUME NEW o \in odss PROVE o \in K
    OBVIOUS
  <2>1. o.key \in Present(m)
    BY <1>1
  <2>2. PICK x \in K : x.key = o.key
    BY <1>3, <1>4, <2>1
  <2> QED BY <1>1, <1>3, <2>2
<1>6. OdsInserts(odss, m) = {}
  BY <1>4 DEF OdsInserts
<1>7. NewOdss({}, m) = {}
  BY DEF NewOdss
<1>8. OdsUpdates(odss, m) = {}
  BY <1>1, <1>3 DEF OdsUpdates
<1>9. SavedBy(s) = {}
  BY <1>6, <1>7, <1>8 DEF SavedBy, Saved, Solo
<1>10. GoneBy(s) = {}
  BY <1>3, <1>5 DEF GoneBy, OdsDeletes, Solo
<1>11. EntitiesOf(s) \subseteq odss
  BY <1>3, <1>9 DEF EntitiesOf, Entities, Solo
<1> QED BY <1>9, <1>10, <1>11

\* Nor any organisation of an ODS.
LEMMA SameEdorgs ==
  ASSUME SyncAssumption, NEW s \in Sync, Solo(s), Mirrors(seen[s].meta), NEW o \in odss
  PROVE  LET tree == TreeOf(s, o)
             rows == ReadOf(s, o)
         IN  /\ EdorgInserts(o, tree, rows, IdsOf(s)) = {}
             /\ EdorgUpdates(o, tree, rows, IdsOf(s)) = {}
             /\ EdorgDeletes(tree, rows) = {}
<1> DEFINE tree == TreeOf(s, o)
           rows == ReadOf(s, o)
           ids  == IdsOf(s)
<1>1. rows = Under(o)
  BY DEF ReadOf, RowsOf, Under, Solo
<1>2. /\ {e.eo : e \in rows} = DOMAIN tree
      /\ \A e \in rows : tree[e.eo] # Root =>
           \E p \in rows : p.id = e.parent /\ p.eo = tree[e.eo]
  BY <1>1 DEF Mirrors, TreeOf
<1>3. \A e \in rows : Named(rows, e.eo) # {} /\ Last(Named(rows, e.eo)) = e
  BY OnlyRow
<1> HIDE DEF tree, rows, ids
<1>4. \A x \in DOMAIN tree : \E e \in rows : e.eo = x
  BY <1>2
<1>5. EdorgInserts(o, tree, rows, ids) = {}
  <2>1. Missing(o, tree, rows) = {}
    BY <1>3, <1>4 DEF Missing
  <2> QED BY <2>1 DEF EdorgInserts
<1>6. EdorgDeletes(tree, rows) = {}
  BY <1>2, <1>3 DEF EdorgDeletes
<1>7. ASSUME NEW x \in DOMAIN tree, tree[x] # Root
      PROVE  Last(Named(rows, x)).parent = ParentOf(o, x, tree, rows, ids)
  <2>1. PICK e \in rows : e.eo = x
    BY <1>4
  <2>2. Last(Named(rows, x)) = e
    BY <1>3, <2>1
  <2>3. PICK p \in rows : p.id = e.parent /\ p.eo = tree[x]
    BY <1>2, <1>7, <2>1
  <2>4. Named(rows, tree[x]) # {} /\ Last(Named(rows, tree[x])) = p
    BY <1>3, <2>3
  <2> QED BY <1>7, <2>2, <2>3, <2>4 DEF ParentOf, IdOf
<1>8. EdorgUpdates(o, tree, rows, ids) = {}
  BY <1>7 DEF EdorgUpdates
<1> QED BY <1>5, <1>6, <1>8 DEF tree, rows, ids

\* Metadata that the tables show already, synchronised again, changes nothing.
THEOREM SameMetadataSameTables == SyncSpec => SameAgain
<1>1. ASSUME SyncInv, [SyncNext]_vars, NEW s \in Sync, Committing(s), scope[s] = Tenant,
             ~ disturbed[s], Mirrors(seen[s].meta)
      PROVE  result'[s] = "same"
  <2>1. PersistTenant(s)
    BY <1>1, PersistCommits DEF PersistOds
  <2>2. Solo(s)
    BY <1>1, <2>1 DEF Solo, SyncInv, ReadAsTheyAre, Reading, Committing
  <2>3. SavedBy(s) = {} /\ GoneBy(s) = {} /\ EntitiesOf(s) \subseteq odss
    BY <1>1, <2>2, SameOdss, SyncAssumption
  <2>4. InsertedBy(s) = {} /\ UpdatedBy(s) = {} /\ DeletedBy(s) = {}
    <3>1. \A o \in EntitiesOf(s) :
            /\ EdorgInserts(o, TreeOf(s, o), ReadOf(s, o), IdsOf(s)) = {}
            /\ EdorgUpdates(o, TreeOf(s, o), ReadOf(s, o), IdsOf(s)) = {}
            /\ EdorgDeletes(TreeOf(s, o), ReadOf(s, o)) = {}
      BY <1>1, <2>2, <2>3, SameEdorgs, SyncAssumption
    <3> QED BY <3>1 DEF InsertedBy, UpdatedBy, DeletedBy
  <2>5. PICK legal : Write(s, legal, {}, {}, {}, {}, {})
    BY <2>1, <2>3, <2>4, TenantWrites
  <2>6. ~ RollsBack(s)
    BY <1>1, EndsInOrder DEF RollsBack, Committing
  <2>7. Ends(s, "same")
    BY <2>5, <2>6, WritesOrNot DEF Commits, HasChanges
  <2> QED BY <1>1, <2>7, EndsInOrder
<1>2. SyncInv /\ [SyncNext]_vars =>
        [\A s \in Sync :
           (Committing(s) /\ scope[s] = Tenant /\ ~disturbed[s] /\ Mirrors(seen[s].meta)) =>
             result'[s] = "same"]_vars
  BY <1>1
<1> QED BY <1>2, SyncInvariance, PTL DEF SyncSpec, SameAgain

-----------------------------------------------------------------------------
(* Why a synchronisation is refused.                                        *)

\* The organisations before the insertions, and before the deletions.
EdorgsStaying(s) == {e \in edorgs : e.ods \notin Ids(GoneBy(s))}
EdorgsWritten(s) == Written(EdorgsStaying(s) \cup InsertedBy(s), UpdatedBy(s))

\* An ODS of an organisation that stays is an entity, and a row that is kept.
LEMMA StaysUnderKept ==
  ASSUME SyncAssumption, NEW s \in Sync, Solo(s), NEW e \in EdorgsStaying(s)
  PROVE  /\ \E x \in Kept(odss, seen[s].meta) : x.id = e.ods
         /\ \E o \in EntitiesOf(s) : o.id = e.ods
<1> DEFINE K == Kept(odss, seen[s].meta)
<1>1. /\ e \in edorgs /\ \A d \in GoneBy(s) : d.id # e.ods
      /\ GoneBy(s) = odss \ K
  BY DEF EdorgsStaying, Ids, GoneBy, OdsDeletes, Solo
<1>2. PICK x \in odss : x.id = e.ods
  BY <1>1 DEF Solo, SyncInv, TablesOK, References, Ids
<1>3. x \in K
  BY <1>1, <1>2
<1>4. x.id \in Ids(Written(odss, SavedBy(s)))
  BY DEF Written, Ids
<1>5. \E o \in OdssLeft(s) : o.id = e.ods
  BY <1>1, <1>2, <1>4 DEF OdssLeft, OdssAfter, Ids
<1> QED BY <1>2, <1>3, <1>5, SoloLeavesEntities

\* A row that is kept is of the key of the entity with its id.
LEMMA KeptEntity ==
  ASSUME SyncAssumption, NEW s \in Sync, Solo(s), NEW o \in EntitiesOf(s),
         NEW x \in Kept(odss, seen[s].meta), x.id = o.id
  PROVE  x.key = o.key /\ seen[s].meta[x.key].tree = TreeOf(s, o)
<1>1. SyncInv /\ PersistTenant(s)
  BY DEF Solo
<1>2. odss \in SUBSET OdsRow
  BY <1>1 DEF SyncInv, TablesOK
<1>3. x \in Mentioned
  BY <1>2, KeptRows DEF Mentioned
<1>4. o.id \notin UnusedOdsIds
  BY <1>1, <1>3, UnusedFree
<1>5. x.key = o.key
  BY <1>1, <1>3, <1>4, EntitiesNamed DEF SyncInv, OdsNamed
<1> QED BY <1>5 DEF TreeOf

\* An organisation of a tree has a row that is not deleted.
LEMMA IdStays ==
  ASSUME SyncAssumption, NEW s \in Sync, Solo(s), NEW o \in EntitiesOf(s),
         NEW eo \in DOMAIN TreeOf(s, o), NEW i, i = IdOf(o, eo, ReadOf(s, o), IdsOf(s))
  PROVE  /\ i \in Ids(EdorgsStaying(s) \cup InsertedBy(s))
         /\ i \notin Ids(DeletedBy(s))
<1> DEFINE tree == TreeOf(s, o)
           rows == ReadOf(s, o)
           ids  == IdsOf(s)
<1>1. Distinct(edorgs) /\ DeletedBy(s) \subseteq edorgs
  BY SoloDeletes DEF Solo, SyncInv, TablesOK
<1>2. CASE Named(rows, eo) = {}
  <2>1. Comparing(o, tree, rows, AddedBy(s), ids)
    BY AllCompared DEF Solo
  <2>2. PICK r \in EdorgInserts(o, tree, rows, ids) : r.id = i
    <3>1. eo \in DOMAIN tree /\ i = IdOf(o, eo, rows, ids)
      OBVIOUS
    <3> HIDE DEF tree, rows, ids
    <3> QED BY <1>2, <2>1, <3>1, InsertedEdorgs
  <2>3. r \in InsertedBy(s)
    BY DEF InsertedBy
  <2>4. \A e \in edorgs : e.id # r.id
    BY <2>3, InsertedInOrder, UnusedFree DEF Solo
  <2> QED BY <1>1, <2>2, <2>3, <2>4 DEF Ids
<1>3. CASE Named(rows, eo) # {}
  <2>1. PICK e \in rows : e.eo = eo
    BY <1>3 DEF Named
  <2>2. e \in edorgs /\ e.ods = o.id /\ Last(Named(rows, eo)) = e
    BY <2>1, OnlyRow
  <2>3. i = e.id
    BY <1>3, <2>2 DEF IdOf
  <2>4. o.id \notin Ids(GoneBy(s))
    BY SoloLeavesEntities DEF OdssLeft, OdssAfter
  <2>5. e \in EdorgsStaying(s)
    BY <2>2, <2>4 DEF EdorgsStaying
  <2>6. ASSUME NEW d \in DeletedBy(s), d.id = e.id PROVE FALSE
    <3>1. d = e
      BY <1>1, <2>2, <2>6 DEF Distinct
    <3> QED BY <2>1, <2>2, <3>1, SoloDeletes
  <2> QED BY <2>3, <2>5, <2>6 DEF Ids
<1> QED BY <1>2, <1>3

\* So has the parent of an organisation of a tree.
LEMMA ParentStays ==
  ASSUME SyncAssumption, NEW s \in Sync, Solo(s), NEW o \in EntitiesOf(s),
         NEW eo \in DOMAIN TreeOf(s, o),
         NEW i, i = ParentOf(o, eo, TreeOf(s, o), ReadOf(s, o), IdsOf(s)), i # NoRow
  PROVE  /\ i \in Ids(EdorgsStaying(s) \cup InsertedBy(s))
         /\ i \notin Ids(DeletedBy(s))
<1>1. TreeOf(s, o) \in Tree
  BY EntitiesInOrder DEF Solo
<1>2. TreeOf(s, o)[eo] # Root /\ i = IdOf(o, TreeOf(s, o)[eo], ReadOf(s, o), IdsOf(s))
  BY DEF ParentOf
<1>3. TreeOf(s, o)[eo] \in DOMAIN TreeOf(s, o)
  BY <1>1, <1>2 DEF SyncAssumption
<1> QED BY <1>2, <1>3, IdStays

\* What is inserted or updated is under an entity, and its parent stays.
LEMMA WrittenRefers ==
  ASSUME SyncAssumption, NEW s \in Sync, Solo(s), NEW r \in InsertedBy(s) \cup UpdatedBy(s)
  PROVE  /\ \E o \in EntitiesOf(s) : r.ods = o.id
         /\ r.parent # NoRow => /\ r.parent \in Ids(EdorgsStaying(s) \cup InsertedBy(s))
                                /\ r.parent \notin Ids(DeletedBy(s))
<1>1. PICK o \in EntitiesOf(s) :
        /\ r.ods = o.id /\ r.eo \in DOMAIN TreeOf(s, o)
        /\ r.parent = ParentOf(o, r.eo, TreeOf(s, o), ReadOf(s, o), IdsOf(s))
  <2>1. SyncInv /\ PersistTenant(s)
    BY DEF Solo
  <2>2. CASE r \in InsertedBy(s)
    <3>1. \A x \in InsertedBy(s) : \E o \in EntitiesOf(s) :
            /\ x.ods = o.id /\ x.eo \in DOMAIN TreeOf(s, o)
            /\ Named(ReadOf(s, o), x.eo) = {}
            /\ <<o.id, x.eo>> \in AddedBy(s) /\ x.id = IdsOf(s)[<<o.id, x.eo>>]
            /\ x.parent = ParentOf(o, x.eo, TreeOf(s, o), ReadOf(s, o), IdsOf(s))
      BY <2>1, InsertedInOrder
    <3> QED BY <2>2, <3>1
  <2>3. CASE r \in UpdatedBy(s)
    BY <2>1, <2>3, UpdatedInOrder
  <2> QED BY <2>2, <2>3
<1> QED BY <1>1, ParentStays

\* Unless a parent is lost with its ODS, the deletion of ODSs is accepted.
LEMMA DeletionAccepted ==
  ASSUME SyncAssumption, NEW s \in Sync, Solo(s), ~ LosesParent(seen[s].meta)
  PROVE  References(OdssLeft(s), EdorgsStaying(s))
<1> DEFINE K == Kept(odss, seen[s].meta)
<1> SUFFICES ASSUME NEW e \in EdorgsStaying(s)
             PROVE  /\ e.ods \in Ids(OdssLeft(s))
                    /\ e.parent = NoRow \/ e.parent \in Ids(EdorgsStaying(s))
  BY DEF References
<1>1. e.ods \in Ids(OdssLeft(s))
  BY StaysUnderKept, SoloLeavesEntities DEF Ids
<1>2. e \in edorgs
  BY DEF EdorgsStaying
<1>3. CASE e.parent # NoRow
  <2>1. PICK p \in edorgs : p.id = e.parent
    BY <1>2, <1>3 DEF Solo, SyncInv, TablesOK, References, Ids
  <2>2. PICK x \in K : x.id = e.ods
    BY StaysUnderKept
  <2>3. PICK y \in K : y.id = p.ods
    BY <1>2, <2>1, <2>2 DEF LosesParent
  <2>4. Distinct(odss) /\ K \subseteq odss /\ GoneBy(s) = odss \ K
    <3>1. odss \in SUBSET OdsRow /\ Distinct(odss)
      BY DEF Solo, SyncInv, TablesOK
    <3> QED BY <3>1, KeptRows DEF GoneBy, OdsDeletes, Solo
  <2>5. p.ods \notin Ids(GoneBy(s))
    <3> HIDE DEF K
    <3> QED BY <2>3, <2>4 DEF Distinct, Ids
  <2>6. p \in EdorgsStaying(s)
    BY <2>5 DEF EdorgsStaying
  <2> QED BY <1>1, <2>1, <2>6 DEF Ids
<1> QED BY <1>1, <1>3

\* The insertions and updates are accepted, then.
LEMMA WritingAccepted ==
  ASSUME SyncAssumption, NEW s \in Sync, Solo(s), ~ LosesParent(seen[s].meta)
  PROVE  References(OdssLeft(s), EdorgsWritten(s))
<1>1. References(OdssLeft(s), EdorgsStaying(s))
  BY DeletionAccepted
<1>2. Ids(EdorgsStaying(s) \cup InsertedBy(s)) \subseteq Ids(EdorgsWritten(s))
  BY DEF EdorgsWritten, Written, Ids
<1>3. EdorgsWritten(s) \subseteq EdorgsStaying(s) \cup InsertedBy(s) \cup UpdatedBy(s)
  BY DEF EdorgsWritten, Written
<1>4. Ids(EdorgsStaying(s)) \subseteq Ids(EdorgsWritten(s))
  BY <1>2 DEF Ids
<1>5. \A r \in InsertedBy(s) \cup UpdatedBy(s) :
        /\ r.ods \in Ids(OdssLeft(s))
        /\ r.parent = NoRow \/ r.parent \in Ids(EdorgsWritten(s))
  BY <1>2, WrittenRefers, SoloLeavesEntities DEF Ids
<1>6. \A e \in EdorgsStaying(s) :
        /\ e.ods \in Ids(OdssLeft(s))
        /\ e.parent = NoRow \/ e.parent \in Ids(EdorgsWritten(s))
  BY <1>1, <1>4 DEF References
<1> QED BY <1>3, <1>5, <1>6 DEF References

\* Unless a parent is lost, the deletion of organisations is accepted.
LEMMA RemovalAccepted ==
  ASSUME SyncAssumption, NEW s \in Sync, Solo(s), ~ LosesParent(seen[s].meta)
  PROVE  References(OdssLeft(s), EdorgsLeft(s))
<1> DEFINE m == seen[s].meta
           K == Kept(odss, m)
<1>1. EdorgsLeft(s) = {e \in EdorgsWritten(s) : e.id \notin Ids(DeletedBy(s))}
  BY DEF EdorgsLeft, EdorgsAfter, EdorgsWritten, EdorgsStaying
<1>2. References(OdssLeft(s), EdorgsWritten(s))
  BY WritingAccepted
<1>3. Ids(EdorgsStaying(s) \cup InsertedBy(s)) \subseteq Ids(EdorgsWritten(s))
  BY DEF EdorgsWritten, Written, Ids
<1>4. \A i : i \in Ids(EdorgsStaying(s) \cup InsertedBy(s)) /\ i \notin Ids(DeletedBy(s)) =>
        i \in Ids(EdorgsLeft(s))
  BY <1>1, <1>3 DEF Ids
<1> SUFFICES ASSUME NEW e \in EdorgsLeft(s), e.parent # NoRow
             PROVE  e.parent \in Ids(EdorgsLeft(s))
  BY <1>1, <1>2 DEF References
<1>5. CASE e \in InsertedBy(s) \cup UpdatedBy(s)
  BY <1>4, <1>5, WrittenRefers
<1>6. CASE e \in EdorgsStaying(s)
  <2>1. PICK o \in EntitiesOf(s) : o.id = e.ods
    BY <1>6, StaysUnderKept
  <2>2. /\ e.eo \in DOMAIN TreeOf(s, o)
        /\ TreeOf(s, o)[e.eo] # Root =>
             e.parent = ParentOf(o, e.eo, TreeOf(s, o), ReadOf(s, o), IdsOf(s))
    BY <2>1, SoloLeaves
  <2>3. CASE TreeOf(s, o)[e.eo] # Root
    BY <1>4, <2>2, <2>3, ParentStays
  <2>4. CASE TreeOf(s, o)[e.eo] = Root
    <3>1. PICK x \in K : x.id = e.ods
      BY <1>6, StaysUnderKept
    <3>2. m[x.key].tree = TreeOf(s, o)
      BY <2>1, <3>1, KeptEntity
    <3>3. PICK p \in EdorgsStaying(s) : p.id = e.parent
      BY <1>6, DeletionAccepted DEF References, Ids
    <3>4. e \in edorgs /\ p \in edorgs
      BY <1>6 DEF EdorgsStaying
    <3>5. PICK y \in K : y.id = p.ods /\ p.eo \in DOMAIN m[y.key].tree
      BY <2>2, <2>4, <3>1, <3>2, <3>3, <3>4 DEF LosesParent
    <3>6. PICK q \in EntitiesOf(s) : q.id = p.ods
      BY StaysUnderKept
    <3>7. p.eo \in DOMAIN TreeOf(s, q)
      BY <3>5, <3>6, KeptEntity
    <3>8. ASSUME NEW d \in DeletedBy(s), d.id = p.id PROVE FALSE
      <4>1. d = p
        BY <3>4, <3>8, SoloDeletes DEF Solo, SyncInv, TablesOK, Distinct
      <4> QED BY <3>6, <3>7, <4>1, SoloDeletes
    <3> QED BY <1>4, <3>3, <3>8 DEF Ids
  <2> QED BY <2>3, <2>4
<1> QED BY <1>1, <1>5, <1>6 DEF EdorgsWritten, Written

\* An ODS never gets an organisation twice.
LEMMA WrittenNatural ==
  ASSUME SyncAssumption, NEW s \in Sync, Solo(s)
  PROVE  Natural(EdorgsWritten(s))
<1> DEFINE E == EdorgsStaying(s)
           I == InsertedBy(s)
           U == UpdatedBy(s)
<1>1. /\ SyncInv /\ PersistTenant(s) /\ E \subseteq edorgs
      /\ Distinct(edorgs) /\ Natural(edorgs) /\ Distinct(I) /\ Distinct(U)
  BY InsertedInOrder, UpdatedInOrder DEF Solo, SyncInv, TablesOK, EdorgsStaying
<1>2. \A u \in U : \E r \in edorgs : u.id = r.id /\ u.ods = r.ods /\ u.eo = r.eo
  BY UpdatedInOrder DEF Solo
<1>3. \A i \in I : \E o \in EntitiesOf(s) :
        /\ i.ods = o.id /\ Named(ReadOf(s, o), i.eo) = {}
        /\ i.id = IdsOf(s)[<<o.id, i.eo>>]
  <2>1. \A i \in I : \E o \in EntitiesOf(s) :
          /\ i.ods = o.id /\ i.eo \in DOMAIN TreeOf(s, o)
          /\ Named(ReadOf(s, o), i.eo) = {}
          /\ <<o.id, i.eo>> \in AddedBy(s) /\ i.id = IdsOf(s)[<<o.id, i.eo>>]
          /\ i.parent = ParentOf(o, i.eo, TreeOf(s, o), ReadOf(s, o), IdsOf(s))
    BY <1>1, InsertedInOrder
  <2> HIDE DEF I
  <2> QED BY <2>1
<1>4. ASSUME NEW i \in I, NEW r \in edorgs PROVE ~ (r.ods = i.ods /\ r.eo = i.eo)
  <2>1. PICK o \in EntitiesOf(s) : i.ods = o.id /\ Named(ReadOf(s, o), i.eo) = {}
    BY <1>3
  <2> QED BY <2>1 DEF ReadOf, RowsOf, Named, Solo
<1>5. ASSUME NEW i \in I, NEW x \in I, i.ods = x.ods, i.eo = x.eo PROVE i = x
  <2>1. i.id = IdsOf(s)[<<i.ods, i.eo>>] /\ x.id = IdsOf(s)[<<x.ods, x.eo>>]
    BY <1>3
  <2>2. i.id = x.id
    BY <1>5, <2>1
  <2> QED BY <1>1, <2>2 DEF Distinct
<1>6. EdorgsWritten(s) = {r \in E \cup I : r.id \notin Ids(U)} \cup U
  BY DEF EdorgsWritten, Written
<1> HIDE DEF E, I, U
<1>7. ASSUME NEW u \in U, NEW v \in U, u.ods = v.ods, u.eo = v.eo PROVE u = v
  <2>1. u.id = v.id
    BY <1>1, <1>2, <1>7 DEF Natural
  <2> QED BY <1>1, <2>1 DEF Distinct
<1>8. ASSUME NEW u \in U, NEW r \in E \cup I, r.id \notin Ids(U), r.ods = u.ods, r.eo = u.eo
      PROVE  FALSE
  <2>1. PICK x \in edorgs : u.id = x.id /\ u.ods = x.ods /\ u.eo = x.eo
    BY <1>2
  <2>2. CASE r \in I
    BY <1>4, <1>8, <2>1, <2>2
  <2>3. CASE r \in E
    <3>1. r = x
      BY <1>1, <1>8, <2>1, <2>3 DEF Natural
    <3> QED BY <1>8, <2>1, <3>1 DEF Ids
  <2> QED BY <2>2, <2>3
<1>9. ASSUME NEW r \in E \cup I, NEW x \in E \cup I, r.ods = x.ods, r.eo = x.eo PROVE r = x
  BY <1>1, <1>4, <1>5, <1>9 DEF Natural
<1> QED BY <1>6, <1>7, <1>8, <1>9 DEF Natural

\* If an organisation is inserted under an ODS that is not saved while another
\* is, an ODS is new or has changed and another lacks an organisation.
LEMMA LostOds ==
  ASSUME SyncAssumption, NEW s \in Sync, Solo(s), SavedBy(s) # {},
         NEW i \in InsertedBy(s), i.ods \notin Ids(SavedBy(s))
  PROVE  LosesOds(seen[s].meta)
<1> DEFINE m == seen[s].meta
           K == Kept(odss, m)
           S == SavedBy(s)
<1>1. /\ \A o \in S : \/ o.id \in UnusedOdsIds /\ OfKey(odss, o.key) = {}
                      \/ \E x \in K : /\ x.id = o.id /\ x.key = o.key
                                      /\ x.label # m[x.key].label
      /\ \A x \in K : x.label # m[x.key].label => \E o \in S : o.key = x.key /\ o.id = x.id
      /\ K \subseteq odss /\ \A o, x \in K : o.key = x.key => o = x
  <2>1. /\ \A o \in S : /\ o.label = m[o.key].label
                        /\ \/ o.id \in UnusedOdsIds /\ OfKey(odss, o.key) = {}
                           \/ \E x \in K : /\ x.id = o.id /\ x.key = o.key
                                           /\ x.label # m[x.key].label
        /\ \A x \in K : x.label # m[x.key].label => \E o \in S : o.key = x.key /\ o.id = x.id
        /\ K \subseteq odss /\ \A o, x \in K : o.key = x.key => o = x
    BY SoloSaves
  <2> HIDE DEF m, K, S
  <2> QED BY <2>1
<1>2. \A o \in S : o.key \in Present(m)
  BY SavedInOrder DEF Solo
<1>3. PICK o \in S : TRUE
  OBVIOUS
<1>4. PICK p \in EntitiesOf(s) :
        /\ i.ods = p.id /\ i.eo \in DOMAIN TreeOf(s, p)
        /\ Named(ReadOf(s, p), i.eo) = {}
  BY InsertedInOrder DEF Solo
<1>5. p \notin S
  BY <1>4 DEF Ids
<1>6. p \in K /\ OfKey(S, p.key) = {}
  BY <1>4, <1>5 DEF EntitiesOf, Entities, Solo
<1>7. i.eo \in DOMAIN m[p.key].tree /\ i.eo \notin {e.eo : e \in Under(p)}
  BY <1>4 DEF TreeOf, Under, ReadOf, RowsOf, Named, Solo
<1> HIDE DEF m, K, S
<1>8. p.label = m[p.key].label
  BY <1>1, <1>6 DEF OfKey
<1>9. \A x \in K : x.key = o.key => x.label # m[o.key].label
  BY <1>1, <1>3 DEF OfKey
<1>10. \E k \in Present(m) : \A x \in K : x.key = k => x.label # m[k].label
  BY <1>2, <1>3, <1>9
<1>11. \E x \in K : /\ x.label = m[x.key].label
                    /\ ~ DOMAIN m[x.key].tree \subseteq {e.eo : e \in Under(x)}
  BY <1>6, <1>7, <1>8
<1>12. LosesOds(m)
  BY <1>10, <1>11 DEF LosesOds, K
<1> QED BY <1>12 DEF m

\* A synchronisation of the tenant that nobody disturbed is refused only where
\* it would insert an organisation without its ODS, or delete a parent that
\* another row names.
THEOREM RefusalsExplained == SyncSpec => RefusedForAReason
<1>1. ASSUME SyncInv, [SyncNext]_vars, NEW s \in Sync, Refused(s), scope[s] = Tenant,
             ~ disturbed[s], ~ LosesOds(seen[s].meta), ~ LosesParent(seen[s].meta)
      PROVE  FALSE
  <2> DEFINE legal == SavedBy(s) = {} \/ \A e \in InsertedBy(s) : e.ods \in Ids(SavedBy(s))
             how == IF HasChanges(SavedBy(s), GoneBy(s), InsertedBy(s), UpdatedBy(s), DeletedBy(s))
                    THEN "changed" ELSE "same"
  <2>1. ~ Fails(s)
    <3>1. mishaps \in Nat /\ mishaps' = mishaps
      BY <1>1 DEF SyncInv, CountsOK, Refused
    <3> QED BY <3>1 DEF Fails
  <2>2. PersistTenant(s)
    BY <1>1, <2>1, PersistEnds DEF PersistOds, Refused, Ending
  <2>3. Solo(s)
    BY <1>1, <2>2 DEF Solo, SyncInv, ReadAsTheyAre, Reading, Refused
  <2>4. legal
    BY <1>1, <2>3, LostOds, SyncAssumption
  <2>5. Accepted(OdssLeft(s), EdorgsStaying(s), EdorgsWritten(s), EdorgsLeft(s))
    BY <1>1, <2>3, DeletionAccepted, WritingAccepted, RemovalAccepted, WrittenNatural,
       SyncAssumption DEF Accepted
  <2>6. Write(s, legal, SavedBy(s), GoneBy(s), InsertedBy(s), UpdatedBy(s), DeletedBy(s))
    BY <2>2 DEF PersistTenant, SavedBy, GoneBy, EntitiesOf, TreeOf, ReadOf, AddedBy, IdsOf,
                InsertedBy, UpdatedBy, DeletedBy, Saved
  <2> HIDE DEF legal
  <2>7. Commits(s, OdssLeft(s), EdorgsLeft(s), how)
    BY <2>4, <2>5, <2>6 DEF Write, OdssLeft, OdssAfter, EdorgsStaying, EdorgsWritten,
                            EdorgsLeft, EdorgsAfter
  <2>8. Ends(s, how) /\ how \in {"same", "changed"}
    BY <2>7 DEF Commits
  <2> HIDE DEF how
  <2> QED BY <1>1, <2>8, EndsInOrder DEF Refused
<1>2. SyncInv /\ [SyncNext]_vars =>
        [\A s \in Sync : (Refused(s) /\ scope[s] = Tenant /\ ~disturbed[s]) =>
           LosesOds(seen[s].meta) \/ LosesParent(seen[s].meta)]_vars
  BY <1>1
<1> QED BY <1>2, SyncInvariance, PTL DEF SyncSpec, RefusedForAReason

=============================================================================
