---------------------------- MODULE TeamAccessProofs ----------------------------
(***************************************************************************)
(* For any instances, loads, resources, roles, hierarchies and limits: the *)
(* ownership cache is well typed, no cached load is older than a change    *)
(* its cache was told of, and what is served is what the ownerships give:  *)
(* no more, and no less but for tenants of an environment owned too.       *)
(***************************************************************************)
EXTENDS TeamAccess, TLAPS

\* A load has the variables of a load, and is idle where no instance runs it.
LoadRecord(r) ==
  DOMAIN r =
    {"at", "phase", "awaited", "rows", "early", "tree", "result", "missed", "torn"}

LoadOK(r) ==
  /\ LoadRecord(r)
  /\ r.at \in Instance \cup {NoLoad}
  /\ r.phase \in {"idle", "started", "owned", "edorgs", "done", "rejected"}
  /\ r.awaited \in BOOLEAN
  /\ r.missed \subseteq Change
  /\ r.phase = "idle" <=> r.at = NoLoad

LoadsOK == load = [l \in Load |-> load[l]] /\ \A l \in Load : LoadOK(load[l])

TablesOK ==
  /\ engine \in Engine
  /\ \A x \in DOMAIN rows : x \in Present /\ rows[x] \in RoleName
  /\ role \in [RoleName -> RoleSets]
  /\ tree \in Trees

\* An instance caches loads of its own.
CacheOK ==
  /\ cache \in [Instance -> Load \cup {NoLoad}]
  /\ \A i \in Instance : cache[i] # NoLoad => load[cache[i]].at = i

CountsOK ==
  /\ owed \in [Instance -> SUBSET [change : Change, by : {"reload", "flush"}]]
  /\ told \in [Instance -> SUBSET Change]
  /\ changes \in Nat
  /\ outages \in Nat

\* Only changes that were made are missed, owed or told of.
MissedMade == \A l \in Load : load[l].missed \subseteq 1..changes
OwedMade   == \A i \in Instance : \A c \in owed[i] : c.change \in 1..changes
ToldMade   == \A i \in Instance : told[i] \subseteq 1..changes

AccessInv ==
  /\ TablesOK /\ LoadsOK /\ CacheOK /\ CountsOK
  /\ MissedMade /\ OwedMade /\ ToldMade
  /\ ToldMeansReloaded

-----------------------------------------------------------------------------
(* What happens to the loads and to the cache.                              *)

\* No load is in order.
LEMMA IdleOK == LoadOK(Idle) /\ Idle.missed = {} /\ Idle.at = NoLoad
BY AccessAssumption DEF LoadOK, LoadRecord, Idle

\* What the properties ask of the loads and of the cache together.
CacheInOrder == LoadsOK /\ CacheOK /\ MissedMade /\ ToldMeansReloaded

\* One load moves: it is dropped, or keeps its instance and what it missed;
\* dropped only where it is not cached.
LEMMA AdvanceKeeps ==
  ASSUME AccessInv, NEW l \in Load, NEW next, LoadOK(next),
         \/ next.at = load[l].at /\ next.missed \subseteq load[l].missed
         \/ next.missed = {} /\ \A i \in Instance : cache[i] # l,
         Advance(l, next), UNCHANGED <<cache, told, changes>>
  PROVE  CacheInOrder'
<1>1. load' = [k \in Load |-> IF k = l THEN next ELSE load[k]]
  BY DEF Advance, AccessInv, LoadsOK
<1>2. LoadsOK'
  BY <1>1 DEF AccessInv, LoadsOK, LoadOK
<1>3. CacheOK'
  BY <1>1 DEF AccessInv, CacheOK
<1>4. MissedMade'
  BY <1>1 DEF AccessInv, MissedMade
<1>5. ToldMeansReloaded'
  BY <1>1 DEF AccessInv, ToldMeansReloaded, CacheOK
<1> QED BY <1>2, <1>3, <1>4, <1>5 DEF CacheInOrder

\* The instance of an idle load is none.
LEMMA IdleFree ==
  ASSUME AccessInv, NEW l \in Load, load[l].phase = "idle"
  PROVE  \A i \in Instance : cache[i] # l
BY AccessAssumption DEF AccessInv, LoadsOK, LoadOK, CacheOK

\* What an instance was told of in a step is told to it alone.
ToldOnly(i) == \A j \in Instance : j # i => told'[j] = told[j]

\* An instance drops its entry.
LEMMA DropKeeps ==
  ASSUME AccessInv, NEW i \in Instance, Store(i, NoLoad, load), ToldOnly(i), UNCHANGED changes
  PROVE  CacheInOrder'
<1> DEFINE drops(k) == k = cache[i] /\ k # NoLoad /\ (load[k].awaited \/ ~ Running(k))
<1>1. load' = [k \in Load |-> IF drops(k) THEN Idle ELSE load[k]]
  BY DEF Store
<1>2. cache' = [cache EXCEPT ![i] = NoLoad]
  BY DEF Store
<1>3. \A k \in Load : drops(k) => k = cache[i]
  OBVIOUS
<1> HIDE DEF drops
<1>4. LoadsOK'
  <2>1. \A k \in Load : LoadOK(load'[k])
    BY <1>1, IdleOK DEF AccessInv, LoadsOK
  <2> QED BY <1>1, <2>1 DEF LoadsOK, LoadOK
<1>5. CacheOK'
  BY <1>1, <1>2, <1>3 DEF AccessInv, CacheOK
<1>6. MissedMade'
  BY <1>1, IdleOK DEF AccessInv, MissedMade
<1>7. ToldMeansReloaded'
  <2> SUFFICES ASSUME NEW j \in Instance, cache'[j] # NoLoad
               PROVE  load'[cache'[j]].missed \cap told'[j] = {}
    BY DEF ToldMeansReloaded
  <2>1. j # i /\ cache'[j] = cache[j] /\ cache[j] \in Load
    BY <1>2 DEF AccessInv, CacheOK
  <2>2. told'[j] = told[j]
    BY <2>1 DEF ToldOnly
  <2>3. load[cache[j]].missed \cap told[j] = {}
    BY <2>1 DEF AccessInv, ToldMeansReloaded
  <2>4. load'[cache[j]] = load[cache[j]] \/ load'[cache[j]] = Idle
    BY <1>1, <2>1
  <2> QED BY <2>1, <2>2, <2>3, <2>4, IdleOK
<1> QED BY <1>4, <1>5, <1>6, <1>7 DEF CacheInOrder

\* A load as it begins.
LEMMA StartedOK ==
  ASSUME NEW i \in Instance, NEW awaited \in BOOLEAN
  PROVE  /\ LoadOK([Idle EXCEPT !.at = i, !.phase = "started", !.awaited = awaited])
         /\ [Idle EXCEPT !.at = i, !.phase = "started", !.awaited = awaited].at = i
         /\ [Idle EXCEPT !.at = i, !.phase = "started", !.awaited = awaited].missed = {}
<1> DEFINE r == [Idle EXCEPT !.at = i, !.phase = "started", !.awaited = awaited]
<1>1. /\ LoadRecord(r) /\ r.at = i /\ r.phase = "started" /\ r.awaited = awaited
      /\ r.missed = {}
  BY DEF Idle, LoadRecord
<1>2. i # NoLoad
  BY AccessAssumption
<1> HIDE DEF r
<1>3. LoadOK(r)
  BY <1>1, <1>2 DEF LoadOK
<1> QED BY <1>1, <1>3 DEF r

\* An instance caches the promise of a new load.
LEMMA StartKeeps ==
  ASSUME AccessInv, NEW i \in Instance, NEW awaited \in BOOLEAN, StartLoad(i, awaited),
         ToldOnly(i), UNCHANGED changes
  PROVE  CacheInOrder'
<1> DEFINE new == [Idle EXCEPT !.at = i, !.phase = "started", !.awaited = awaited]
<1>1. PICK l \in Load : load[l].phase = "idle" /\ Store(i, l, [load EXCEPT ![l] = new])
  BY DEF StartLoad
<1>2. LoadOK(new) /\ new.at = i /\ new.missed = {}
  BY StartedOK
<1> HIDE DEF new
<1> DEFINE drops(k) == k = cache[i] /\ k # l /\ (load[k].awaited \/ ~ Running(k))
<1>3. load' = [k \in Load |-> IF drops(k) THEN Idle ELSE [load EXCEPT ![l] = new][k]]
  BY <1>1 DEF Store
<1>4. load' = [k \in Load |-> IF drops(k) THEN Idle ELSE IF k = l THEN new ELSE load[k]]
  BY <1>3 DEF AccessInv, LoadsOK
<1>5. cache' = [cache EXCEPT ![i] = l]
  BY <1>1 DEF Store
<1>6. \A k \in Load : drops(k) => k = cache[i] /\ k # l
  OBVIOUS
<1>7. l # NoLoad /\ \A j \in Instance : cache[j] # l
  BY <1>1, IdleFree, AccessAssumption
<1> HIDE DEF drops
<1>8. LoadsOK'
  <2>1. \A k \in Load : LoadOK(load'[k])
    BY <1>2, <1>4, IdleOK DEF AccessInv, LoadsOK
  <2> QED BY <1>4, <2>1 DEF LoadsOK, LoadOK
<1>9. CacheOK'
  <2>1. cache' \in [Instance -> Load \cup {NoLoad}]
    BY <1>5 DEF AccessInv, CacheOK
  <2>2. ASSUME NEW j \in Instance, cache'[j] # NoLoad PROVE load'[cache'[j]].at = j
    <3>1. CASE j = i
      BY <3>1, <1>2, <1>4, <1>5, <1>6 DEF AccessInv, CacheOK
    <3>2. CASE j # i
      <4>1. cache'[j] = cache[j] /\ cache[j] \in Load /\ cache[j] # l
        BY <3>2, <1>5, <1>7, <2>2 DEF AccessInv, CacheOK
      <4>2. load[cache[j]].at = j
        BY <4>1, <2>2 DEF AccessInv, CacheOK
      <4>3. cache[j] # cache[i]
        BY <3>2, <4>1, <4>2, AccessAssumption DEF AccessInv, CacheOK
      <4> QED BY <4>1, <4>2, <4>3, <1>4, <1>6
    <3> QED BY <3>1, <3>2
  <2> QED BY <2>1, <2>2 DEF CacheOK
<1>10. MissedMade'
  BY <1>2, <1>4, IdleOK DEF AccessInv, MissedMade
<1>11. ToldMeansReloaded'
  <2> SUFFICES ASSUME NEW j \in Instance, cache'[j] # NoLoad
               PROVE  load'[cache'[j]].missed \cap told'[j] = {}
    BY DEF ToldMeansReloaded
  <2>1. CASE j = i
    <3>1. cache'[j] = l
      BY <2>1, <1>5 DEF AccessInv, CacheOK
    <3>2. load'[l].missed = {}
      BY <1>2, <1>4, <1>6
    <3> QED BY <3>1, <3>2
  <2>2. CASE j # i
    <3>1. cache'[j] = cache[j] /\ cache[j] \in Load /\ cache[j] # l
      BY <2>2, <1>5, <1>7 DEF AccessInv, CacheOK
    <3>2. told'[j] = told[j]
      BY <2>2 DEF ToldOnly
    <3>3. load[cache[j]].missed \cap told[j] = {}
      BY <3>1 DEF AccessInv, ToldMeansReloaded
    <3>4. load'[cache[j]] = load[cache[j]] \/ load'[cache[j]] = Idle
      BY <3>1, <1>4
    <3> QED BY <3>1, <3>2, <3>3, <3>4, IdleOK
  <2> QED BY <2>1, <2>2
<1> QED BY <1>8, <1>9, <1>10, <1>11 DEF CacheInOrder

\* A process ends, and another takes its place.
LEMMA RestartKeeps ==
  ASSUME AccessInv, NEW i \in Instance, Restart(i), UNCHANGED <<told, changes>>
  PROVE  /\ CacheInOrder'
         /\ owed' \in [Instance -> SUBSET [change : Change, by : {"reload", "flush"}]]
         /\ OwedMade'
<1>1. cache' = [cache EXCEPT ![i] = NoLoad]
  BY DEF Restart
<1>2. load' = [l \in Load |-> IF load[l].at = i THEN Idle ELSE load[l]]
  BY DEF Restart
<1>3. LoadsOK'
  <2>1. \A k \in Load : LoadOK(load'[k])
    BY <1>2, IdleOK DEF AccessInv, LoadsOK
  <2> QED BY <1>2, <2>1 DEF LoadsOK, LoadOK
<1>4. CacheOK'
  BY <1>1, <1>2 DEF AccessInv, CacheOK
<1>5. MissedMade'
  BY <1>2, IdleOK DEF AccessInv, MissedMade
<1>6. ToldMeansReloaded'
  BY <1>1, <1>2, IdleOK DEF AccessInv, CacheOK, ToldMeansReloaded
<1>7. owed' = [owed EXCEPT ![i] = {}]
  BY DEF Restart
<1>8. owed' \in [Instance -> SUBSET [change : Change, by : {"reload", "flush"}]] /\ OwedMade'
  BY <1>7 DEF AccessInv, CountsOK, OwedMade
<1> QED BY <1>3, <1>4, <1>5, <1>6, <1>8 DEF CacheInOrder

\* An instance tells its cache of a change.
LEMMA TellKeeps ==
  ASSUME AccessInv, NEW i \in Instance, NEW c \in owed[i], Tell(i, c)
  PROVE  /\ ToldOnly(i) /\ OwedMade' /\ ToldMade'
         /\ owed' \in [Instance -> SUBSET [change : Change, by : {"reload", "flush"}]]
         /\ told' \in [Instance -> SUBSET Change]
<1>1. c \in [change : Change, by : {"reload", "flush"}] /\ c.change \in 1..changes
  BY DEF AccessInv, CountsOK, OwedMade
<1>2. owed' = [owed EXCEPT ![i] = @ \ {c}] /\ UNCHANGED changes
  BY DEF Tell
<1>3. told' = [told EXCEPT ![i] = @ \cup {c.change}]
  BY DEF Tell
<1>4. c.change \in Change
  BY <1>1
<1>5. OwedMade' /\ owed' \in [Instance -> SUBSET [change : Change, by : {"reload", "flush"}]]
  BY <1>2 DEF AccessInv, CountsOK, OwedMade
<1>6. ToldMade' /\ told' \in [Instance -> SUBSET Change] /\ ToldOnly(i)
  BY <1>1, <1>2, <1>3, <1>4 DEF AccessInv, CountsOK, ToldMade, ToldOnly
<1> QED BY <1>5, <1>6

\* A change commits: what it adds to the loads no cache was told of.
LEMMA CommitsKeeps ==
  ASSUME AccessInv, NEW i \in Instance, NEW by \in {"reload", "flush", "nobody"},
         Commits(i, by)
  PROVE  CacheInOrder' /\ CountsOK' /\ OwedMade' /\ ToldMade'
<1> DEFINE grown(r) == [r EXCEPT !.missed = @ \cup {changes'},
                                 !.torn = @ \/ (r.phase \in {"started", "owned", "edorgs"} /\ tree' # tree)]
<1>1. load' = [l \in Load |-> IF load[l].phase = "idle" THEN load[l] ELSE grown(load[l])]
  BY DEF Commits, Running
<1>2. changes \in Nat /\ changes' = changes + 1 /\ changes' \in Change
  <2>1. changes' = changes + 1
    BY DEF Commits
  <2>2. changes \in Nat
    BY DEF AccessInv, CountsOK
  <2> QED BY <2>1, <2>2, AccessAssumption DEF Change
<1>3. UNCHANGED <<cache, told, outages>>
  BY DEF Commits
<1>4. ASSUME NEW r, LoadOK(r) PROVE LoadOK(grown(r)) /\ grown(r).at = r.at
                                    /\ grown(r).missed = r.missed \cup {changes'}
  <2> DEFINE t == r.torn \/ (r.phase \in {"started", "owned", "edorgs"} /\ tree' # tree)
             m == r.missed \cup {changes'}
  <2>1. grown(r) = [r EXCEPT !.missed = m, !.torn = t]
    BY Zenon
  <2> HIDE DEF t, m
  <2>2. /\ LoadRecord(grown(r)) /\ grown(r).at = r.at /\ grown(r).phase = r.phase
        /\ grown(r).awaited = r.awaited /\ grown(r).missed = m
    BY <1>4, <2>1 DEF LoadOK, LoadRecord
  <2> HIDE DEF grown
  <2> QED BY <1>2, <1>4, <2>2 DEF LoadOK, m
<1> HIDE DEF grown
<1>5. ASSUME NEW l \in Load
      PROVE  /\ LoadOK(load'[l]) /\ load'[l].at = load[l].at
             /\ load'[l].missed \subseteq load[l].missed \cup {changes'}
  BY <1>1, <1>4 DEF AccessInv, LoadsOK
<1>6. LoadsOK'
  BY <1>1, <1>5 DEF LoadsOK, LoadOK
<1>7. CacheOK'
  BY <1>3, <1>5 DEF AccessInv, CacheOK
<1>8. MissedMade'
  BY <1>2, <1>5 DEF AccessInv, MissedMade
<1>9. \A j \in Instance : changes' \notin told[j]
  BY <1>2 DEF AccessInv, ToldMade
<1>10. ToldMeansReloaded'
  BY <1>3, <1>5, <1>9 DEF AccessInv, CacheOK, ToldMeansReloaded
<1>11. owed' \in [Instance -> SUBSET [change : Change, by : {"reload", "flush"}]] /\ OwedMade'
  <2>1. CASE by = "nobody"
    <3>1. owed' = owed
      BY <2>1 DEF Commits
    <3> QED BY <3>1, <1>2 DEF AccessInv, CountsOK, OwedMade
  <2>2. CASE by # "nobody"
    <3> DEFINE new == [change |-> changes', by |-> by]
    <3>1. new \in [change : Change, by : {"reload", "flush"}] /\ new.change = changes'
      BY <1>2, <2>2
    <3>2. owed' = [owed EXCEPT ![i] = @ \cup {new}]
      BY <2>2 DEF Commits
    <3> HIDE DEF new
    <3> QED BY <1>2, <3>1, <3>2 DEF AccessInv, CountsOK, OwedMade
  <2> QED BY <2>1, <2>2
<1>12. CountsOK'
  BY <1>2, <1>3, <1>11 DEF AccessInv, CountsOK
<1>13. ToldMade'
  BY <1>2, <1>3 DEF AccessInv, ToldMade
<1> QED BY <1>6, <1>7, <1>8, <1>10, <1>11, <1>12, <1>13 DEF CacheInOrder

-----------------------------------------------------------------------------

\* The initial states are in order.
LEMMA AccessStarts == AccessInit => AccessInv
<1> SUFFICES ASSUME AccessInit PROVE AccessInv
  OBVIOUS
<1>1. TablesOK
  BY AccessAssumption DEF AccessInit, TablesOK, Present
<1>2. LoadsOK
  BY IdleOK DEF AccessInit, LoadsOK
<1>3. CacheOK /\ ToldMeansReloaded
  BY DEF AccessInit, CacheOK, ToldMeansReloaded
<1>4. CountsOK
  BY AccessAssumption DEF AccessInit, CountsOK
<1>5. MissedMade /\ OwedMade /\ ToldMade
  BY IdleOK DEF AccessInit, MissedMade, OwedMade, ToldMade
<1> QED BY <1>1, <1>2, <1>3, <1>4, <1>5 DEF AccessInv

\* The ownerships refer to resources there are, whatever is changed.
LEMMA TablesKeep ==
  ASSUME AccessInv, NEW i \in Instance, Alter(i)
  PROVE  TablesOK' /\ \E by \in {"reload", "flush", "nobody"} : Commits(i, by)
<1>1. \E by \in {"reload", "flush", "nobody"} : Commits(i, by)
  BY DEF Alter, Create, Update, Remove, UpdateRole, Synchronise
<1>2. engine' = engine
  BY <1>1 DEF Commits
<1>3. CASE Create(i)
  BY <1>2, <1>3 DEF Create, AccessInv, TablesOK, Present
<1>4. CASE Update(i)
  BY <1>2, <1>4 DEF Update, AccessInv, TablesOK, Present
<1>5. CASE Remove(i)
  BY <1>2, <1>5 DEF Remove, AccessInv, TablesOK, Present
<1>6. CASE UpdateRole(i)
  BY <1>2, <1>6 DEF UpdateRole, AccessInv, TablesOK, Present
<1>7. CASE Synchronise(i)
  BY <1>2, <1>7, HierarchyAssumption DEF Synchronise, AccessInv, TablesOK, Present
<1> QED BY <1>1, <1>3, <1>4, <1>5, <1>6, <1>7 DEF Alter

\* A step of a load leaves it with its instance and with what it missed.
LEMMA LoadStepKeeps ==
  ASSUME AccessInv, NEW l \in Load, LoadStep(l)
  PROVE  CacheInOrder' /\ OwedMade'
         /\ owed' \in [Instance -> SUBSET [change : Change, by : {"reload", "flush"}]]
<1> DEFINE r == load[l]
<1>0. LoadOK(r) /\ OwedMade
      /\ owed \in [Instance -> SUBSET [change : Change, by : {"reload", "flush"}]]
  BY DEF AccessInv, LoadsOK, CountsOK
<1>1. ASSUME NEW next, LoadOK(next), next.at = r.at, next.missed = r.missed,
             Advance(l, next) \/ Settle(l, next), UNCHANGED <<cache, told, changes, owed>>
      PROVE  CacheInOrder' /\ OwedMade'
             /\ owed' \in [Instance -> SUBSET [change : Change, by : {"reload", "flush"}]]
  <2>1. OwedMade' /\ owed' \in [Instance -> SUBSET [change : Change, by : {"reload", "flush"}]]
    BY <1>0, <1>1 DEF OwedMade
  <2>2. CASE Advance(l, next)
    BY <2>1, <2>2, <1>1, AdvanceKeeps
  <2>3. CASE Settle(l, next) /\ ~ Advance(l, next)
    <3>1. cache[r.at] # l /\ Advance(l, Idle)
      BY <2>3 DEF Settle
    <3>2. \A i \in Instance : cache[i] # l
      BY <3>1, AccessAssumption DEF AccessInv, CacheOK
    <3> QED BY <2>1, <3>1, <3>2, <1>1, IdleOK, AdvanceKeeps
  <2> QED BY <1>1, <2>2, <2>3
<1>2. CASE ReadOwnerships(l)
  <2>1. PICK order :
          /\ r.phase = "started"
          /\ Advance(l, [r EXCEPT
               !.phase = "owned",
               !.rows = [j \in DOMAIN order |-> [on |-> order[j], privs |-> role[rows[order[j]]]]],
               !.early = tree])
          /\ UNCHANGED <<cache, told, changes, owed>>
    BY <1>2 DEF ReadOwnerships
  <2> DEFINE held == [j \in DOMAIN order |-> [on |-> order[j], privs |-> role[rows[order[j]]]]]
             next == [r EXCEPT !.phase = "owned", !.rows = held, !.early = tree]
  <2> HIDE DEF held
  <2>2. /\ LoadRecord(next) /\ next.at = r.at /\ next.missed = r.missed /\ next.phase = "owned"
        /\ next.awaited = r.awaited
    BY <1>0 DEF LoadOK, LoadRecord
  <2>3. Advance(l, next)
    BY <2>1 DEF held
  <2> HIDE DEF next
  <2>4. LoadOK(next)
    BY <2>1, <2>2, <1>0 DEF LoadOK
  <2> QED BY <2>1, <2>2, <2>3, <2>4, <1>1
<1>3. CASE ReadEdorgs(l)
  <2> DEFINE next == [r EXCEPT !.phase = "edorgs", !.tree = tree]
  <2>1. r.phase = "owned" /\ Advance(l, next) /\ UNCHANGED <<cache, told, changes, owed>>
    BY <1>3 DEF ReadEdorgs
  <2>2. /\ LoadRecord(next) /\ next.at = r.at /\ next.missed = r.missed /\ next.phase = "edorgs"
        /\ next.awaited = r.awaited
    BY <1>0 DEF LoadOK, LoadRecord
  <2> HIDE DEF next
  <2>3. LoadOK(next)
    BY <2>1, <2>2, <1>0 DEF LoadOK
  <2> QED BY <2>1, <2>2, <2>3, <1>1
<1>4. ASSUME Running(l)
      PROVE  LoadOK(Rejected(l)) /\ Rejected(l).at = r.at /\ Rejected(l).missed = r.missed
  <2>1. /\ LoadRecord(Rejected(l)) /\ Rejected(l).at = r.at /\ Rejected(l).missed = r.missed
        /\ Rejected(l).phase = "rejected" /\ Rejected(l).awaited = r.awaited
    BY <1>0 DEF LoadOK, LoadRecord, Rejected
  <2> QED BY <1>0, <1>4, <2>1 DEF LoadOK, Running
<1>5. CASE ReadClosure(l)
  <2> DEFINE out == Outcome(l)
             next == [r EXCEPT !.phase = "done", !.rows = <<>>, !.early = <<>>, !.tree = <<>>,
                               !.result = out]
  <2>1. r.phase = "edorgs" /\ Settle(l, next) /\ UNCHANGED <<cache, told, changes, owed>>
    BY <1>5 DEF ReadClosure, Done
  <2> HIDE DEF out
  <2>2. /\ LoadRecord(next) /\ next.at = r.at /\ next.missed = r.missed /\ next.phase = "done"
        /\ next.awaited = r.awaited
    BY <1>0 DEF LoadOK, LoadRecord
  <2> HIDE DEF next
  <2>3. LoadOK(next)
    BY <2>1, <2>2, <1>0 DEF LoadOK
  <2> QED BY <2>1, <2>2, <2>3, <1>1
<1>6. CASE ReadFails(l)
  <2>1. Running(l) /\ Settle(l, Rejected(l)) /\ UNCHANGED <<cache, told, changes, owed>>
    BY <1>6 DEF ReadFails
  <2> QED BY <2>1, <1>1, <1>4
<1>7. CASE Refuse(l)
  <2>1. Running(l) /\ Settle(l, Rejected(l)) /\ UNCHANGED <<cache, told, changes, owed>>
    BY <1>7 DEF Refuse, Refused, Running
  <2> QED BY <2>1, <1>1, <1>4
<1>8. CASE Throw(l)
  <2>1. Running(l) /\ UNCHANGED <<told, changes>>
    BY <1>8 DEF Throw, Running
  <2>2. CASE load[l].awaited
    <3>1. Settle(l, Rejected(l)) /\ UNCHANGED <<cache, owed>>
      BY <1>8, <2>2 DEF Throw
    <3> QED BY <2>1, <3>1, <1>1, <1>4
  <2>3. CASE ~ load[l].awaited
    <3>1. Restart(load[l].at) /\ load[l].at \in Instance
      BY <1>0, <1>8, <2>3 DEF Throw, LoadOK
    <3> QED BY <2>1, <3>1, RestartKeeps
  <2> QED BY <2>2, <2>3
<1> QED BY <1>2, <1>3, <1>5, <1>6, <1>7, <1>8 DEF LoadStep

\* The parts of the invariant after a step.
LEMMA Assembled ==
  ASSUME CacheInOrder', TablesOK', CountsOK', OwedMade', ToldMade'
  PROVE  AccessInv'
BY DEF AccessInv, CacheInOrder

\* The tables stay well typed where no change commits.
LEMMA SameTables == ASSUME AccessInv, UNCHANGED data PROVE TablesOK'
BY DEF AccessInv, TablesOK, Present, data

\* Nothing is told of.
LEMMA SameTold == ASSUME AccessInv, UNCHANGED <<told, changes>> PROVE ToldMade'
BY DEF AccessInv, ToldMade

\* The counts of a step that makes no change and tells of none.
LEMMA CountsKeep ==
  ASSUME AccessInv, UNCHANGED <<told, changes>>,
         owed' \in [Instance -> SUBSET [change : Change, by : {"reload", "flush"}]],
         outages' \in {outages, outages + 1}
  PROVE  CountsOK'
BY AccessAssumption DEF AccessInv, CountsOK

\* Every step keeps the cache in order.
LEMMA AccessSteps == AccessInv /\ [AccessNext]_vars => AccessInv'
<1> SUFFICES ASSUME AccessInv, [AccessNext]_vars PROVE AccessInv'
  OBVIOUS
<1> DEFINE OwedOK == owed \in [Instance -> SUBSET [change : Change, by : {"reload", "flush"}]]
<1>0. OwedOK /\ OwedMade /\ CountsOK
  BY DEF AccessInv, CountsOK
<1>1. ASSUME NEW i \in Instance, Alter(i) PROVE AccessInv'
  BY <1>1, TablesKeep, CommitsKeeps, Assembled
<1>2. ASSUME NEW i \in Instance, Get(i) PROVE AccessInv'
  <2>1. StartLoad(i, TRUE) /\ UNCHANGED <<data, owed, told, changes, outages>>
    BY <1>2 DEF Get
  <2>2. CacheInOrder'
    BY <2>1, StartKeeps DEF ToldOnly
  <2>3. OwedMade' /\ OwedOK'
    BY <1>0, <2>1 DEF OwedMade
  <2> QED BY <2>1, <2>2, <2>3, SameTables, SameTold, CountsKeep, Assembled
<1>3. ASSUME NEW i \in Instance, Expire(i) PROVE AccessInv'
  <2>1. Store(i, NoLoad, load) /\ UNCHANGED <<data, owed, told, changes, outages>>
    BY <1>3 DEF Expire
  <2>2. CacheInOrder'
    BY <2>1, DropKeeps DEF ToldOnly
  <2>3. OwedMade' /\ OwedOK'
    BY <1>0, <2>1 DEF OwedMade
  <2> QED BY <2>1, <2>2, <2>3, SameTables, SameTold, CountsKeep, Assembled
<1>4. ASSUME NEW i \in Instance, Reload(i) PROVE AccessInv'
  <2>1. PICK c \in owed[i] : StartLoad(i, FALSE) /\ Tell(i, c)
    BY <1>4 DEF Reload
  <2>2. UNCHANGED <<data, changes, outages>>
    BY <2>1 DEF Tell
  <2>3. /\ ToldOnly(i) /\ OwedMade' /\ ToldMade' /\ OwedOK'
        /\ told' \in [Instance -> SUBSET Change]
    BY <2>1, TellKeeps
  <2>4. CacheInOrder'
    BY <2>1, <2>2, <2>3, StartKeeps
  <2>5. CountsOK'
    BY <1>0, <2>2, <2>3 DEF CountsOK
  <2> QED BY <2>2, <2>3, <2>4, <2>5, SameTables, Assembled
<1>5. ASSUME NEW i \in Instance, Flush(i) PROVE AccessInv'
  <2>1. PICK c \in owed[i] : Store(i, NoLoad, load) /\ Tell(i, c)
    BY <1>5 DEF Flush
  <2>2. UNCHANGED <<data, changes, outages>>
    BY <2>1 DEF Tell
  <2>3. /\ ToldOnly(i) /\ OwedMade' /\ ToldMade' /\ OwedOK'
        /\ told' \in [Instance -> SUBSET Change]
    BY <2>1, TellKeeps
  <2>4. CacheInOrder'
    BY <2>1, <2>2, <2>3, DropKeeps
  <2>5. CountsOK'
    BY <1>0, <2>2, <2>3 DEF CountsOK
  <2> QED BY <2>2, <2>3, <2>4, <2>5, SameTables, Assembled
<1>6. ASSUME NEW i \in Instance, FlushLost(i) PROVE AccessInv'
  <2>1. PICK c \in owed[i] : owed' = [owed EXCEPT ![i] = @ \ {c}]
    BY <1>6 DEF FlushLost
  <2>2. /\ outages' = outages + 1
        /\ UNCHANGED <<data, cache, load, told, changes>>
    BY <1>6 DEF FlushLost
  <2>3. OwedMade' /\ OwedOK'
    BY <1>0, <2>1, <2>2 DEF OwedMade
  <2>4. CacheInOrder'
    BY <2>2 DEF AccessInv, CacheInOrder, LoadsOK, LoadOK, CacheOK, MissedMade, ToldMeansReloaded
  <2> QED BY <2>2, <2>3, <2>4, SameTables, SameTold, CountsKeep, Assembled
<1>7. ASSUME NEW i \in Instance, Crash(i) PROVE AccessInv'
  <2>1. /\ outages' = outages + 1
        /\ Restart(i) /\ UNCHANGED <<data, told, changes>>
    BY <1>7 DEF Crash
  <2>2. CacheInOrder' /\ OwedMade' /\ OwedOK'
    BY <2>1, RestartKeeps
  <2> QED BY <2>1, <2>2, SameTables, SameTold, CountsKeep, Assembled
<1>8. ASSUME NEW l \in Load, LoadStep(l) PROVE AccessInv'
  <2>1. UNCHANGED <<data, told, changes>>
    BY <1>8 DEF LoadStep, ReadOwnerships, ReadEdorgs, ReadClosure, ReadFails, Refuse, Throw
  <2>2. outages' \in {outages, outages + 1}
    BY <1>8 DEF LoadStep, ReadOwnerships, ReadEdorgs, ReadClosure, ReadFails, Refuse, Throw
  <2>3. CacheInOrder' /\ OwedMade' /\ OwedOK'
    BY <1>8, LoadStepKeeps
  <2> QED BY <2>1, <2>2, <2>3, SameTables, SameTold, CountsKeep, Assembled
<1>9. CASE UNCHANGED vars
  <2>1. UNCHANGED <<data, cache, load, owed, told, changes, outages>>
    BY <1>9 DEF vars
  <2>2. CacheInOrder' /\ OwedMade' /\ OwedOK'
    BY <1>0, <2>1 DEF AccessInv, CacheInOrder, LoadsOK, LoadOK, CacheOK, MissedMade,
                      OwedMade, ToldMeansReloaded
  <2> QED BY <2>1, <2>2, SameTables, SameTold, CountsKeep, Assembled
<1> QED BY <1>1, <1>2, <1>3, <1>4, <1>5, <1>6, <1>7, <1>8, <1>9 DEF AccessNext

-----------------------------------------------------------------------------

\* The cache of ownerships keeps its inductive invariant: loads, entries, what
\* is owed and told (auth.service.ts:624-664, with the services that change
\* ownerships).
THEOREM AccessInvariance == AccessSpec => []AccessInv
<1>1. AccessInit => AccessInv
  BY AccessStarts
<1>2. AccessInv /\ [AccessNext]_vars => AccessInv'
  BY AccessSteps
<1> QED BY <1>1, <1>2, PTL DEF AccessSpec

\* The tables, the cache and the loads have the values they are read with.
THEOREM AccessTyped == AccessSpec => []AccessTypeOK
<1>1. AccessInv => AccessTypeOK
  <2> SUFFICES ASSUME AccessInv PROVE AccessTypeOK
    OBVIOUS
  <2>1. DOMAIN load = Load
    BY DEF AccessInv, LoadsOK
  <2> QED BY <2>1 DEF AccessInv, TablesOK, LoadsOK, LoadOK, CacheOK, CountsOK, AccessTypeOK
<1> QED BY <1>1, AccessInvariance, PTL

\* After a reload or a flush no cached load, and so no request, goes by what was
\* read before the change it was for (auth.service.ts:642-664).
THEOREM NothingOlderServed == AccessSpec => []ToldMeansReloaded
<1>1. AccessInv => ToldMeansReloaded
  BY DEF AccessInv
<1> QED BY <1>1, AccessInvariance, PTL

-----------------------------------------------------------------------------
(* Organisations and those above them.                                      *)

\* An organisation is above itself.
LEMMA AboveSelf == ASSUME NEW t, NEW d \in Edorg PROVE d \in Above(t, d)
BY ResourceAssumption DEF Above

\* A parent is above what its child is above.
LEMMA AboveStep ==
  ASSUME NEW t, NEW d \in Edorg, NEW x \in Above(t, d), x \in DOMAIN t, t[x] # Root
  PROVE  t[x] \in Above(t, d)
BY ResourceAssumption DEF Above

\* No set with d and the parents of what it has lacks an organisation above d.
LEMMA AboveLeast ==
  ASSUME NEW t, NEW d \in Edorg, NEW S, d \in S,
         \A x \in S \cap DOMAIN t : t[x] \in S \cup {Root}
  PROVE  Above(t, d) \subseteq S
<1> DEFINE named == ({d} \cup {t[x] : x \in DOMAIN t}) \ {Root}
<1>1. /\ S \cap named \in SUBSET named
      /\ d \in S \cap named
      /\ \A x \in (S \cap named) \cap DOMAIN t : t[x] \in (S \cap named) \cup {Root}
  BY ResourceAssumption
<1> QED BY <1>1 DEF Above

\* What is above what is above d is above d.
LEMMA AboveTransitive ==
  ASSUME NEW t, NEW d \in Edorg, NEW x \in Above(t, d) \cap Edorg
  PROVE  Above(t, x) \subseteq Above(t, d)
<1>1. \A y \in Above(t, d) \cap DOMAIN t : t[y] \in Above(t, d) \cup {Root}
  BY AboveStep
<1> QED BY <1>1, AboveLeast

\* What is above d is d, or above the parent of d.
LEMMA AboveParent ==
  ASSUME NEW t, NEW d \in Edorg, NEW x \in Above(t, d), x # d,
         d \in DOMAIN t => t[d] \in Edorg \cup {Root}
  PROVE  d \in DOMAIN t /\ t[d] \in Edorg /\ x \in Above(t, t[d])
<1>1. ASSUME d \notin DOMAIN t \/ t[d] = Root PROVE FALSE
  <2>1. \A y \in {d} \cap DOMAIN t : t[y] \in {d} \cup {Root}
    BY <1>1
  <2>2. Above(t, d) \subseteq {d}
    BY <2>1, AboveLeast
  <2> QED BY <2>2
<1>2. d \in DOMAIN t /\ t[d] \in Edorg
  BY <1>1
<1> DEFINE S == {d} \cup Above(t, t[d])
<1>3. d \in S /\ \A y \in S \cap DOMAIN t : t[y] \in S \cup {Root}
  BY <1>2, AboveSelf, AboveStep
<1>4. \A y \in S : y = d \/ y \in Above(t, t[d])
  OBVIOUS
<1> HIDE DEF S
<1>5. Above(t, d) \subseteq S
  BY <1>3, AboveLeast
<1> QED BY <1>2, <1>4, <1>5

\* What is above an organisation of a hierarchy is in it, at the same ODS.
LEMMA AboveInside ==
  ASSUME NEW t \in Trees, NEW d \in DOMAIN t
  PROVE  /\ d \in Edorg
         /\ Above(t, d) \subseteq {x \in DOMAIN t : OdsOf[x] = OdsOf[d]}
         /\ t[d] \in Edorg \cup {Root}
<1>1. d \in Edorg /\ DOMAIN t \subseteq Edorg
  BY HierarchyAssumption
<1> DEFINE S == {x \in DOMAIN t : OdsOf[x] = OdsOf[d]}
<1>2. \A x \in S \cap DOMAIN t : t[x] \in S \cup {Root}
  BY HierarchyAssumption
<1> HIDE DEF S
<1>3. d \in S
  BY DEF S
<1>4. Above(t, d) \subseteq S
  BY <1>1, <1>2, <1>3, AboveLeast
<1> QED BY <1>1, <1>4, HierarchyAssumption DEF S

-----------------------------------------------------------------------------
(* The organisations that a load gathers, where its reads agree.            *)

\* The ownerships refer to organisations that exist.
OnExisting(order, t) == \A i \in DOMAIN order : order[i].on \in Edorg => order[i].on \in DOMAIN t

\* They are those loaded, with their parents.
LEMMA GatheredAreLoaded ==
  ASSUME NEW t \in Trees, NEW order, OnExisting(order, t)
  PROVE  /\ DOMAIN AllEdorgs(order, t, t) = Loaded(order, t)
         /\ Loaded(order, t) \subseteq DOMAIN t
         /\ \A d \in Loaded(order, t) : AllEdorgs(order, t, t)[d] = t[d]
<1>1. \A r \in Owned(order, Edorg) : r.on \in DOMAIN t /\ r.on \in Edorg
  BY DEF Owned, Held, OnExisting
<1>2. \A r \in Owned(order, Edorg) : r.on \in Loaded(order, t)
  BY <1>1, AboveSelf DEF Loaded
<1>3. Loaded(order, t) \subseteq DOMAIN t
  BY DEF Loaded
<1> QED BY <1>2, <1>3 DEF AllEdorgs

\* With an organisation, its parent is loaded.
LEMMA LoadedUpward ==
  ASSUME NEW t \in Trees, NEW order, OnExisting(order, t),
         NEW d \in Loaded(order, t), t[d] # Root
  PROVE  t[d] \in Loaded(order, t)
<1>1. d \in DOMAIN t /\ d \in Edorg /\ t[d] \in DOMAIN t /\ t[d] \in Edorg /\ OdsOf[t[d]] = OdsOf[d]
  BY HierarchyAssumption DEF Loaded
<1>2. CASE \E r \in Owned(order, Ods) : r.on = OdsOf[d]
  BY <1>1, <1>2 DEF Loaded
<1>3. ASSUME NEW r \in Owned(order, Edorg), r.on \in DOMAIN t, r.on \in Above(t, d)
      PROVE  t[d] \in Loaded(order, t)
  <2>1. r.on \in Edorg
    BY <1>3, AboveInside
  <2>2. CASE r.on = d
    <3>1. t[d] \in Above(t, d)
      BY <1>1, AboveSelf, AboveStep
    <3> QED BY <1>1, <1>3, <2>2, <3>1 DEF Loaded
  <2>3. CASE r.on # d
    <3>1. r.on \in Above(t, t[d])
      BY <1>1, <1>3, <2>3, AboveParent
    <3> QED BY <1>1, <1>3, <3>1 DEF Loaded
  <2> QED BY <2>2, <2>3
<1>4. ASSUME NEW r \in Owned(order, Edorg), r.on \in DOMAIN t, d \in Above(t, r.on)
      PROVE  t[d] \in Loaded(order, t)
  <2>1. t[d] \in Above(t, r.on)
    BY <1>1, <1>4, AboveInside, AboveStep
  <2> QED BY <1>1, <1>4, <2>1 DEF Loaded
<1> QED BY <1>2, <1>3, <1>4 DEF Loaded

\* So the walks of a load see what is above an organisation as it is.
LEMMA GatheredAbove ==
  ASSUME NEW t \in Trees, NEW order, OnExisting(order, t), NEW d \in Loaded(order, t)
  PROVE  /\ Above(AllEdorgs(order, t, t), d) = Above(t, d)
         /\ Above(t, d) \subseteq Loaded(order, t)
<1> DEFINE all == AllEdorgs(order, t, t)
           L == Loaded(order, t)
<1>1. DOMAIN all = L /\ L \subseteq DOMAIN t /\ \A x \in L : all[x] = t[x]
  BY GatheredAreLoaded
<1>2. \A x \in L : t[x] # Root => t[x] \in L
  BY LoadedUpward
<1>3. d \in Edorg /\ d \in L
  BY <1>1, AboveInside
<1> HIDE DEF all, L
<1>4. Above(t, d) \subseteq L
  BY <1>2, <1>3, AboveLeast
<1>5. Above(all, d) \subseteq Above(t, d)
  <2>1. \A x \in Above(t, d) \cap DOMAIN all : all[x] \in Above(t, d) \cup {Root}
    BY <1>1, <1>3, AboveStep
  <2> QED BY <1>3, <2>1, AboveSelf, AboveLeast
<1>6. Above(t, d) \subseteq Above(all, d)
  <2>1. Above(all, d) \subseteq L
    BY <1>4, <1>5
  <2>2. \A x \in Above(all, d) \cap DOMAIN t : t[x] \in Above(all, d) \cup {Root}
    BY <1>1, <1>3, <2>1, AboveStep
  <2> QED BY <1>3, <2>2, AboveSelf, AboveLeast
<1> QED BY <1>4, <1>5, <1>6 DEF all, L

\* A load throws for the minimum only: the ancestors are among the loaded.
LEMMA ThrowsByMinimum ==
  ASSUME NEW t \in Trees, NEW order, OnExisting(order, t), Throws(order, t, t, Closure(t))
  PROVE  \E r \in Owned(order, Edorg) : ~ (Minimum \subseteq r.privs)
<1>1. ASSUME NEW r \in Owned(order, Edorg)
      PROVE  AncestorsOf(Closure(t), r.on) \subseteq DOMAIN AllEdorgs(order, t, t)
  <2>1. r.on \in DOMAIN t /\ r.on \in Edorg
    BY DEF Owned, Held, OnExisting
  <2>2. r.on \in Loaded(order, t)
    BY <2>1, AboveSelf DEF Loaded
  <2>3. AncestorsOf(Closure(t), r.on) \subseteq Above(t, r.on)
    BY DEF AncestorsOf, Closure
  <2> QED BY <2>2, <2>3, GatheredAbove, GatheredAreLoaded
<1> QED BY <1>1 DEF Throws

-----------------------------------------------------------------------------
(* Grants: what they let a team do, and how they are made.                  *)

\* A grant of its privilege on resource x, asked the way the routes ask.
Fits(g, x) ==
  \/ /\ x \in Env
     /\ g.privilege \in {"env:read", "env:create-tenant"}
     /\ g.scope = NoScope /\ g.id \in {x, All}
  \/ /\ x \in Tenant
     /\ \/ g.privilege = "tenant:read" /\ g.scope = EnvOf[x] /\ g.id \in {x, All}
        \/ g.privilege = "tenant:create-ods" /\ g.scope = x /\ g.id \in {x, All}
        \/ g.privilege = "vendor:read" /\ g.scope = x /\ g.id = All
  \/ /\ x \in Ods
     /\ g.privilege = "ods:read" /\ g.scope = TenantOf[x] /\ g.id \in {x, All}
  \/ /\ x \in Edorg
     /\ g.privilege \in {"edorg:read", "application:write"}
     /\ g.scope = TenantOf[OdsOf[x]] /\ g.id \in {x, All}

\* A cache lets its team do what a grant in it does.
LEMMA CanByGrant ==
  ASSUME NEW cch, NEW p, NEW x \in Resource
  PROVE  Can(cch, p, x) <=> \E g \in cch : g.privilege = p /\ Fits(g, x)
<1>1. CASE x \in Env
  <2>1. x \notin Tenant /\ x \notin Ods /\ x \notin Edorg
    BY <1>1, ResourceAssumption
  <2> QED BY <1>1, <2>1 DEF Can, Allows, Fits, PrivilegesOf
<1>2. CASE x \in Tenant
  <2>1. x \notin Env /\ x \notin Ods /\ x \notin Edorg
    BY <1>2, ResourceAssumption
  <2> QED BY <1>2, <2>1 DEF Can, Allows, Fits
<1>3. CASE x \in Ods
  <2>1. x \notin Env /\ x \notin Tenant /\ x \notin Edorg
    BY <1>3, ResourceAssumption
  <2> QED BY <1>3, <2>1 DEF Can, Allows, Fits
<1>4. CASE x \in Edorg
  <2>1. x \notin Env /\ x \notin Tenant /\ x \notin Ods
    BY <1>4, ResourceAssumption
  <2> QED BY <1>4, <2>1 DEF Can, Allows, Fits
<1> QED BY <1>1, <1>2, <1>3, <1>4 DEF Resource

\* What is under a resource.
LEMMA OverWhat ==
  ASSUME NEW t
  PROVE  /\ \A x \in Env : Over(t, x) = {x}
         /\ \A x \in Tenant : Over(t, x) = {x, EnvOf[x]}
         /\ \A x \in Ods : Over(t, x) = {x, TenantOf[x], EnvOf[TenantOf[x]]}
         /\ \A x \in Edorg : Over(t, x) =
              Above(t, x) \cup {OdsOf[x], TenantOf[OdsOf[x]], EnvOf[TenantOf[OdsOf[x]]]}
<1>1. ASSUME NEW x \in Env PROVE Over(t, x) = {x}
  <2>1. x \notin Tenant /\ x \notin Ods /\ x \notin Edorg
    BY ResourceAssumption
  <2> QED BY <2>1 DEF Over
<1>2. ASSUME NEW x \in Tenant PROVE Over(t, x) = {x, EnvOf[x]}
  <2>1. x \notin Ods /\ x \notin Edorg
    BY ResourceAssumption
  <2> QED BY <2>1 DEF Over
<1>3. ASSUME NEW x \in Ods PROVE Over(t, x) = {x, TenantOf[x], EnvOf[TenantOf[x]]}
  <2>1. x \notin Tenant /\ x \notin Edorg
    BY ResourceAssumption
  <2> QED BY <2>1 DEF Over
<1>4. ASSUME NEW x \in Edorg
      PROVE  Over(t, x) =
               Above(t, x) \cup {OdsOf[x], TenantOf[OdsOf[x]], EnvOf[TenantOf[OdsOf[x]]]}
  <2>1. x \notin Tenant /\ x \notin Ods
    BY ResourceAssumption
  <2> QED BY <2>1 DEF Over
<1> QED BY <1>1, <1>2, <1>3, <1>4

\* What is asked of a resource.
LEMMA AskedWhat ==
  /\ \A x \in Env : Asked(x) = {"env:read", "env:create-tenant"}
  /\ \A x \in Tenant : Asked(x) = {"tenant:read", "tenant:create-ods", "vendor:read"}
  /\ \A x \in Ods : Asked(x) = {"ods:read"}
  /\ \A x \in Edorg : Asked(x) = {"edorg:read", "application:write"}
<1>1. ASSUME NEW x \in Env PROVE Asked(x) = {"env:read", "env:create-tenant"}
  <2>1. x \notin Tenant /\ x \notin Ods /\ x \notin Edorg
    BY ResourceAssumption
  <2> QED BY <2>1 DEF Asked
<1>2. ASSUME NEW x \in Tenant PROVE Asked(x) = {"tenant:read", "tenant:create-ods", "vendor:read"}
  <2>1. x \notin Env /\ x \notin Ods /\ x \notin Edorg
    BY ResourceAssumption
  <2> QED BY <2>1 DEF Asked
<1>3. ASSUME NEW x \in Ods PROVE Asked(x) = {"ods:read"}
  <2>1. x \notin Env /\ x \notin Tenant /\ x \notin Edorg
    BY ResourceAssumption
  <2> QED BY <2>1 DEF Asked
<1>4. ASSUME NEW x \in Edorg PROVE Asked(x) = {"edorg:read", "application:write"}
  <2>1. x \notin Env /\ x \notin Tenant /\ x \notin Ods
    BY ResourceAssumption
  <2> QED BY <2>1 DEF Asked
<1> QED BY <1>1, <1>2, <1>3, <1>4

\* Resource x is a tenant, or lies in it.
AtTenant(x, t) ==
  \/ x \in Tenant /\ x = t
  \/ x \in Ods /\ TenantOf[x] = t
  \/ x \in Edorg /\ TenantOf[OdsOf[x]] = t

\* A tenant is over itself, its ODSs and their organisations, and so is its environment.
LEMMA TenantOver ==
  ASSUME NEW t, NEW u \in Tenant, NEW x, AtTenant(x, u)
  PROVE  u \in Over(t, x) /\ EnvOf[u] \in Over(t, x)
<1>1. CASE x \in Tenant /\ x = u
  BY <1>1, OverWhat
<1>2. CASE x \in Ods /\ TenantOf[x] = u
  BY <1>2, OverWhat
<1>3. CASE x \in Edorg /\ TenantOf[OdsOf[x]] = u
  <2>1. Over(t, x) = Above(t, x) \cup {OdsOf[x], TenantOf[OdsOf[x]], EnvOf[TenantOf[OdsOf[x]]]}
    BY <1>3, OverWhat
  <2> QED BY <1>3, <2>1
<1> QED BY <1>1, <1>2, <1>3 DEF AtTenant

\* A resource is over itself.
LEMMA OverSelf == ASSUME NEW t, NEW x \in Resource PROVE x \in Over(t, x)
BY OverWhat, AboveSelf DEF Resource

\* What is cached under the id of a resource is a grant on that resource.
LEMMA CachedFits ==
  ASSUME NEW type \in {"env", "tenant", "ods", "edorg", "application"}, NEW privs,
         NEW id \in Resource, NEW e, NEW t,
         type = "env" => id \in Env, type = "tenant" => id \in Tenant,
         type = "ods" => id \in Ods, type \in {"edorg", "application"} => id \in Edorg,
         NEW g \in Cached(type, privs, id, e, t), NEW x, Fits(g, x)
  PROVE  g.privilege \in privs /\ x = id
<1>1. PICK p \in privs \cap PrivilegesOf[type] :
        g = Grant(p, IF p = "tenant:read" THEN e ELSE IF p \in TenantKeyed THEN t ELSE NoScope, id)
  BY DEF Cached
<1>2. g.privilege = p /\ g.id = id /\ id # All
  BY <1>1, ResourceAssumption DEF Grant
<1>3. CASE type = "env"
  <2>1. p \in {"env:read", "env:create-tenant"}
    BY <1>1, <1>3 DEF PrivilegesOf
  <2> QED BY <1>2, <2>1 DEF Fits
<1>4. CASE type = "tenant"
  <2>1. p \in {"tenant:read", "tenant:create-ods"}
    BY <1>1, <1>4 DEF PrivilegesOf
  <2> QED BY <1>2, <2>1 DEF Fits
<1>5. CASE type = "ods"
  <2>1. p = "ods:read"
    BY <1>1, <1>5 DEF PrivilegesOf
  <2> QED BY <1>2, <2>1 DEF Fits
<1>6. CASE type = "edorg"
  <2>1. p = "edorg:read"
    BY <1>1, <1>6 DEF PrivilegesOf
  <2> QED BY <1>2, <2>1 DEF Fits
<1>7. CASE type = "application"
  <2>1. p \in {"application:write", "vendor:read"}
    BY <1>1, <1>7 DEF PrivilegesOf
  <2> QED BY <1>2, <2>1 DEF Fits
<1> QED BY <1>3, <1>4, <1>5, <1>6, <1>7

\* A grant of a privilege the type has, among those cached.
LEMMA CachedHas ==
  ASSUME NEW type, NEW privs, NEW id, NEW e, NEW t, NEW p \in privs \cap PrivilegesOf[type]
  PROVE  \E g \in Cached(type, privs, id, e, t) :
           /\ g.privilege = p /\ g.id = id
           /\ g.scope = IF p = "tenant:read" THEN e ELSE IF p \in TenantKeyed THEN t ELSE NoScope
<1> DEFINE g == Grant(p, IF p = "tenant:read" THEN e ELSE IF p \in TenantKeyed THEN t ELSE NoScope, id)
<1>1. g \in Cached(type, privs, id, e, t)
  BY DEF Cached
<1>2. /\ g.privilege = p /\ g.id = id
      /\ g.scope = IF p = "tenant:read" THEN e ELSE IF p \in TenantKeyed THEN t ELSE NoScope
  BY DEF Grant
<1> QED BY <1>1, <1>2

\* A blanket of a tenant is for what lies under the tenant.
LEMMA TenantBlanketFits ==
  ASSUME NEW tr, NEW privs, NEW t \in Tenant, NEW g \in TenantBlanket(privs, t),
         NEW x \in Resource, Fits(g, x)
  PROVE  g.privilege \in privs /\ t \in Over(tr, x)
<1>1. PICK p \in privs \cap TenantKeyed : g = Grant(p, t, All)
  BY DEF TenantBlanket
<1>2. g.privilege = p /\ g.scope = t /\ p \in TenantKeyed
  BY <1>1 DEF Grant
<1>3. AtTenant(x, t)
  BY <1>2 DEF Fits, TenantKeyed, AtTenant
<1> QED BY <1>1, <1>2, <1>3, TenantOver

\* It has all that is asked under the tenant, but for reading the tenant.
LEMMA TenantBlanketHas ==
  ASSUME NEW tr, NEW privs, NEW t \in Tenant, NEW p \in privs, p # "tenant:read",
         NEW x \in Tenant \cup Ods \cup Edorg, p \in Asked(x), t \in Over(tr, x),
         x \in Edorg => Above(tr, x) \subseteq Edorg
  PROVE  \E g \in TenantBlanket(privs, t) : g.privilege = p /\ Fits(g, x)
<1> DEFINE g == Grant(p, t, All)
<1>1. CASE x \in Tenant
  <2>1. x = t /\ p \in {"tenant:create-ods", "vendor:read"}
    <3>1. x \notin Env /\ EnvOf[x] \notin Tenant
      BY <1>1, ResourceAssumption
    <3>2. x = t
      BY <1>1, <3>1, OverWhat
    <3> QED BY <1>1, <3>2, AskedWhat
  <2>2. g \in TenantBlanket(privs, t) /\ g.privilege = p /\ g.scope = t /\ g.id = All
    BY <2>1 DEF TenantBlanket, Grant, TenantKeyed
  <2> HIDE DEF g
  <2> QED BY <1>1, <2>1, <2>2 DEF Fits
<1>2. CASE x \in Ods
  <2>1. TenantOf[x] = t /\ p = "ods:read"
    <3>1. x \notin Env /\ x \notin Tenant /\ EnvOf[TenantOf[x]] \notin Tenant
      BY <1>2, ResourceAssumption
    <3>2. TenantOf[x] = t
      BY <1>2, <3>1, OverWhat
    <3> QED BY <1>2, <3>2, AskedWhat
  <2>2. g \in TenantBlanket(privs, t) /\ g.privilege = p /\ g.scope = t /\ g.id = All
    BY <2>1 DEF TenantBlanket, Grant, TenantKeyed
  <2> HIDE DEF g
  <2> QED BY <1>2, <2>1, <2>2 DEF Fits
<1>3. CASE x \in Edorg
  <2>1. TenantOf[OdsOf[x]] = t /\ p \in {"edorg:read", "application:write"}
    <3>1. x \notin Env /\ x \notin Tenant /\ x \notin Ods /\ OdsOf[x] \notin Tenant
          /\ EnvOf[TenantOf[OdsOf[x]]] \notin Tenant /\ t \notin Edorg
      BY <1>3, ResourceAssumption
    <3>2. TenantOf[OdsOf[x]] = t
      BY <1>3, <3>1, OverWhat
    <3> QED BY <1>3, <3>2, AskedWhat
  <2>2. g \in TenantBlanket(privs, t) /\ g.privilege = p /\ g.scope = t /\ g.id = All
    BY <2>1 DEF TenantBlanket, Grant, TenantKeyed
  <2> HIDE DEF g
  <2> QED BY <1>3, <2>1, <2>2 DEF Fits
<1> QED BY <1>1, <1>2, <1>3

\* The blankets of an environment are for what lies under the environment.
LEMMA EnvBlanketFits ==
  ASSUME NEW tr, NEW privs, NEW e \in Env, NEW g \in EnvBlanket(privs, e),
         NEW x \in Resource, Fits(g, x)
  PROVE  g.privilege \in privs /\ e \in Over(tr, x)
<1>1. CASE g \in {Grant("tenant:read", e, All) : p \in privs \cap {"tenant:read"}}
  <2>1. g.privilege = "tenant:read" /\ g.scope = e /\ "tenant:read" \in privs
    BY <1>1 DEF Grant
  <2>2. x \in Tenant /\ EnvOf[x] = e
    BY <2>1 DEF Fits
  <2> QED BY <2>1, <2>2, OverWhat
<1>2. ASSUME NEW t \in Tenant, EnvOf[t] = e, g \in TenantBlanket(privs, t)
      PROVE  g.privilege \in privs /\ e \in Over(tr, x)
  <2>1. PICK p \in privs \cap TenantKeyed : g = Grant(p, t, All)
    BY <1>2 DEF TenantBlanket
  <2>2. g.privilege = p /\ g.scope = t /\ p \in TenantKeyed
    BY <2>1 DEF Grant
  <2>3. AtTenant(x, t)
    BY <2>2 DEF Fits, TenantKeyed, AtTenant
  <2> QED BY <1>2, <2>1, <2>2, <2>3, TenantOver
<1> QED BY <1>1, <1>2 DEF EnvBlanket

\* They have all that is asked of what lies under it.
LEMMA EnvBlanketHas ==
  ASSUME NEW tr, NEW privs, NEW e \in Env, NEW p \in privs,
         NEW x \in Tenant \cup Ods \cup Edorg, p \in Asked(x), e \in Over(tr, x),
         x \in Edorg => Above(tr, x) \subseteq Edorg
  PROVE  \E g \in EnvBlanket(privs, e) : g.privilege = p /\ Fits(g, x)
<1>1. CASE p = "tenant:read"
  <2>1. x \in Tenant /\ EnvOf[x] = e
    <3>1. x \in Tenant
      BY <1>1, AskedWhat
    <3> QED BY <3>1, OverWhat, ResourceAssumption
  <2> DEFINE g == Grant("tenant:read", e, All)
  <2>2. g \in EnvBlanket(privs, e) /\ g.privilege = p /\ g.scope = e /\ g.id = All
    BY <1>1 DEF EnvBlanket, Grant
  <2> HIDE DEF g
  <2> QED BY <1>1, <2>1, <2>2 DEF Fits
<1>2. CASE p # "tenant:read"
  <2>1. PICK t \in Tenant : EnvOf[t] = e /\ t \in Over(tr, x)
    <3>1. CASE x \in Tenant
      BY <3>1, OverWhat, ResourceAssumption
    <3>2. CASE x \in Ods
      <4>1. TenantOf[x] \in Tenant /\ e # x /\ e # TenantOf[x]
        BY <3>2, ResourceAssumption
      <4> QED BY <3>2, <4>1, OverWhat
    <3>3. CASE x \in Edorg
      <4>1. /\ TenantOf[OdsOf[x]] \in Tenant /\ e # OdsOf[x] /\ e # TenantOf[OdsOf[x]]
            /\ e \notin Edorg
        BY <3>3, ResourceAssumption
      <4> QED BY <3>3, <4>1, OverWhat
    <3> QED BY <3>1, <3>2, <3>3
  <2>2. \E g \in TenantBlanket(privs, t) : g.privilege = p /\ Fits(g, x)
    BY <1>2, <2>1, TenantBlanketHas
  <2> QED BY <2>1, <2>2 DEF EnvBlanket
<1> QED BY <1>1, <1>2

\* What an ODS or an organisation gives on its tenant is for the tenant and its
\* environment.
LEMMA OnTenantOfFits ==
  ASSUME NEW privs, NEW t \in Tenant, NEW g \in OnTenantOf(privs, t), NEW x, Fits(g, x)
  PROVE  g.privilege \in privs /\ x \in {t, EnvOf[t]}
<1>0. EnvOf[t] \in Env /\ EnvOf[t] \in Resource /\ t \in Resource
  BY ResourceAssumption DEF Resource
<1>1. CASE g \in Cached("vendor", privs, All, EnvOf[t], t)
  <2>1. "vendor:read" \in privs /\ g = Grant("vendor:read", t, All)
    BY <1>1 DEF Cached, PrivilegesOf, TenantKeyed
  <2>2. g.privilege = "vendor:read" /\ g.scope = t
    BY <2>1 DEF Grant
  <2> QED BY <2>1, <2>2 DEF Fits
<1>2. CASE g \in Cached("tenant", privs, t, EnvOf[t], t)
  BY <1>0, <1>2, CachedFits
<1>3. CASE g \in Cached("env", privs, EnvOf[t], EnvOf[t], t)
  BY <1>0, <1>3, CachedFits
<1> QED BY <1>1, <1>2, <1>3 DEF OnTenantOf

\* It has what is asked of both, where privileges are inherited upward.
LEMMA OnTenantOfHas ==
  ASSUME NEW privs, NEW t \in Tenant, NEW p \in privs \cap Upward, NEW x \in {t, EnvOf[t]},
         p \in Asked(x)
  PROVE  \E g \in OnTenantOf(privs, t) : g.privilege = p /\ Fits(g, x)
<1>1. t \notin Env /\ EnvOf[t] \in Env /\ EnvOf[t] \notin Tenant
  BY ResourceAssumption
<1>2. CASE x = t
  <2>1. p \in {"tenant:read", "vendor:read"}
    BY <1>1, <1>2, AskedWhat DEF Upward
  <2>2. CASE p = "tenant:read"
    <3>1. PICK g \in Cached("tenant", privs, t, EnvOf[t], t) :
            g.privilege = p /\ g.id = t /\ g.scope = EnvOf[t]
      <4>1. p \in privs \cap PrivilegesOf["tenant"]
        BY <2>2 DEF PrivilegesOf
      <4> QED BY <2>2, <4>1, CachedHas
    <3> QED BY <1>2, <2>2, <3>1 DEF Fits, OnTenantOf
  <2>3. CASE p = "vendor:read"
    <3>1. PICK g \in Cached("vendor", privs, All, EnvOf[t], t) :
            g.privilege = p /\ g.id = All /\ g.scope = t
      <4>1. p \in privs \cap PrivilegesOf["vendor"]
        BY <2>3 DEF PrivilegesOf
      <4> QED BY <2>3, <4>1, CachedHas DEF TenantKeyed
    <3> QED BY <1>2, <2>3, <3>1 DEF Fits, OnTenantOf
  <2> QED BY <2>1, <2>2, <2>3
<1>3. CASE x = EnvOf[t]
  <2>1. p = "env:read"
    BY <1>1, <1>3, AskedWhat DEF Upward
  <2>2. PICK g \in Cached("env", privs, EnvOf[t], EnvOf[t], t) :
          g.privilege = p /\ g.id = EnvOf[t] /\ g.scope = NoScope
    <3>1. p \in privs \cap PrivilegesOf["env"]
      BY <2>1 DEF PrivilegesOf
    <3> QED BY <2>1, <3>1, CachedHas DEF TenantKeyed
  <2> QED BY <1>1, <1>3, <2>1, <2>2 DEF Fits, OnTenantOf
<1> QED BY <1>2, <1>3

-----------------------------------------------------------------------------
(* What a load computes where its reads agree with the tables.              *)

\* The rows of the first read are the ownerships with the privileges of their
\* roles, each once, in some order.
Lists(order) ==
  /\ \A i \in DOMAIN order :
       /\ i \in Nat
       /\ order[i].on \in DOMAIN rows
       /\ order[i].privs = role[rows[order[i].on]]
  /\ \A i, j \in DOMAIN order : order[i].on = order[j].on => i = j
  /\ \A x \in DOMAIN rows : \E i \in DOMAIN order : order[i].on = x

\* What is owned of a kind is in the table, with the privileges of its role.
LEMMA OwnedAre ==
  ASSUME NEW order, Lists(order), NEW kind, NEW r \in Owned(order, kind)
  PROVE  r.on \in DOMAIN rows \cap kind /\ r.privs = role[rows[r.on]]
BY DEF Lists, Owned, Held

\* An ownership with privileges is among those a load goes by.
LEMMA OwnedHave ==
  ASSUME NEW order, Lists(order), NEW kind, NEW y \in DOMAIN rows \cap kind, NEW p \in role[rows[y]]
  PROVE  \E r \in Owned(order, kind) : r.on = y /\ r.privs = role[rows[y]]
<1>1. PICK i \in DOMAIN order : order[i].on = y
  BY DEF Lists
<1>2. order[i].privs = role[rows[y]] /\ order[i].privs # {}
  BY <1>1 DEF Lists
<1> QED BY <1>1, <1>2 DEF Owned, Held

\* The ownerships refer to resources there are.
LEMMA OwnedExist ==
  ASSUME TablesOK, NEW y \in DOMAIN rows
  PROVE  y \in Resource /\ (y \in Edorg => y \in DOMAIN tree)
BY HierarchyAssumption DEF TablesOK, Present, Resource

\* So no load reads an ownership of an organisation that does not exist.
LEMMA ListsExisting ==
  ASSUME TablesOK, NEW order, Lists(order)
  PROVE  OnExisting(order, tree)
BY OwnedExist DEF Lists, OnExisting

\* The parts of what a load computes.
LEMMA ConstructParts ==
  ASSUME NEW order, NEW g
  PROVE  g \in Construct(order, tree, tree, Closure(tree)) <=>
           \/ g \in FromEnvs(order) \/ g \in FromTenants(order) \/ g \in FromOdss(order)
           \/ \E d \in DOMAIN AllEdorgs(order, tree, tree) :
                /\ EdorgPrivileges(order, tree, d) # {}
                /\ g \in Downward(order, tree, AllEdorgs(order, tree, tree), Closure(tree), d)
           \/ \E r \in Owned(order, Edorg) :
                g \in UpFromEdorg(r.privs, r.on, AncestorsOf(Closure(tree), r.on))
BY DEF Construct, Entries

-----------------------------------------------------------------------------
(* No grant is for more than the ownerships give.                           *)

\* The environments owned.
LEMMA EnvsGiveNoMore ==
  ASSUME TablesOK, NEW order, Lists(order), NEW g \in FromEnvs(order),
         NEW x \in Resource, Fits(g, x)
  PROVE  Entitled(DOMAIN rows, g.privilege, x)
<1>1. PICK r \in Owned(order, Env) :
        g \in Cached("env", r.privs, r.on, r.on, NoScope) \/ g \in EnvBlanket(r.privs, r.on)
  BY DEF FromEnvs
<1>2. r.on \in DOMAIN rows /\ r.on \in Env /\ r.privs = role[rows[r.on]]
  BY OwnedAre
<1>3. CASE g \in Cached("env", r.privs, r.on, r.on, NoScope)
  <2>1. g.privilege \in r.privs /\ x = r.on
    BY <1>2, <1>3, CachedFits DEF Resource
  <2> QED BY <1>2, <2>1, OverSelf DEF Entitled
<1>4. CASE g \in EnvBlanket(r.privs, r.on)
  BY <1>2, <1>4, EnvBlanketFits DEF Entitled
<1> QED BY <1>1, <1>3, <1>4

\* What a tenant has comes from its ownership, or from that of its environment.
LEMMA TenantPrivilegesAre ==
  ASSUME NEW order, Lists(order), NEW t, NEW p \in TenantPrivileges(order, t)
  PROVE  \E y \in DOMAIN rows \cap {t, EnvOf[t]} : p \in role[rows[y]]
BY DEF TenantPrivileges, Held, Lists

\* The tenants owned, or of an environment owned.
LEMMA TenantsGiveNoMore ==
  ASSUME TablesOK, NEW order, Lists(order), NEW g \in FromTenants(order),
         NEW x \in Resource, Fits(g, x)
  PROVE  Entitled(DOMAIN rows, g.privilege, x)
<1>1. PICK t \in Tenant :
        LET privs == TenantPrivileges(order, t) IN
          \/ g \in Cached("tenant", privs, t, EnvOf[t], t)
          \/ g \in TenantBlanket(privs, t)
          \/ g \in Cached("env", privs \cap Upward, EnvOf[t], EnvOf[t], t)
  BY DEF FromTenants
<1> DEFINE privs == TenantPrivileges(order, t)
<1>2. t \in Resource /\ EnvOf[t] \in Env /\ EnvOf[t] \in Resource
  BY ResourceAssumption DEF Resource
<1>3. \A p \in privs : \E y \in DOMAIN rows \cap {t, EnvOf[t]} : p \in role[rows[y]]
  BY TenantPrivilegesAre
<1> HIDE DEF privs
<1>4. t \in Over(tree, t) /\ EnvOf[t] \in Over(tree, t)
  BY OverWhat
<1>5. CASE g \in Cached("tenant", privs, t, EnvOf[t], t)
  <2>1. g.privilege \in privs /\ x = t
    BY <1>2, <1>5, CachedFits
  <2> QED BY <1>3, <1>4, <2>1 DEF Entitled
<1>6. CASE g \in TenantBlanket(privs, t)
  <2>1. g.privilege \in privs /\ AtTenant(x, t)
    <3>1. PICK p \in privs \cap TenantKeyed : g = Grant(p, t, All)
      BY <1>6 DEF TenantBlanket
    <3>2. g.privilege = p /\ g.scope = t /\ p \in TenantKeyed
      BY <3>1 DEF Grant
    <3> QED BY <3>1, <3>2 DEF Fits, TenantKeyed, AtTenant
  <2>2. t \in Over(tree, x) /\ EnvOf[t] \in Over(tree, x)
    BY <2>1, TenantOver
  <2> QED BY <1>3, <2>1, <2>2 DEF Entitled
<1>7. CASE g \in Cached("env", privs \cap Upward, EnvOf[t], EnvOf[t], t)
  <2>1. g.privilege \in privs \cap Upward /\ x = EnvOf[t]
    BY <1>2, <1>7, CachedFits
  <2>2. PICK y \in DOMAIN rows \cap {t, EnvOf[t]} : g.privilege \in role[rows[y]]
    BY <1>3, <2>1
  <2>3. x \in Over(tree, y)
    BY <1>2, <1>4, <2>1, OverSelf
  <2> QED BY <2>1, <2>2, <2>3 DEF Entitled
<1> QED BY <1>1, <1>5, <1>6, <1>7 DEF privs

\* The ODSs owned.
LEMMA OdssGiveNoMore ==
  ASSUME TablesOK, NEW order, Lists(order), NEW g \in FromOdss(order),
         NEW x \in Resource, Fits(g, x)
  PROVE  Entitled(DOMAIN rows, g.privilege, x)
<1>1. PICK r \in Owned(order, Ods) :
        \/ g \in Cached("ods", r.privs, r.on, NoScope, TenantOf[r.on])
        \/ g \in OnTenantOf(r.privs \cap Upward, TenantOf[r.on])
  BY DEF FromOdss
<1>2. r.on \in DOMAIN rows /\ r.on \in Ods /\ r.privs = role[rows[r.on]] /\ TenantOf[r.on] \in Tenant
  BY OwnedAre, ResourceAssumption
<1>3. CASE g \in Cached("ods", r.privs, r.on, NoScope, TenantOf[r.on])
  <2>1. g.privilege \in r.privs /\ x = r.on
    BY <1>2, <1>3, CachedFits DEF Resource
  <2> QED BY <1>2, <2>1, OverSelf DEF Entitled
<1>4. CASE g \in OnTenantOf(r.privs \cap Upward, TenantOf[r.on])
  <2>1. g.privilege \in r.privs \cap Upward /\ x \in {TenantOf[r.on], EnvOf[TenantOf[r.on]]}
    BY <1>2, <1>4, OnTenantOfFits
  <2>2. x \in Over(tree, r.on)
    BY <1>2, <2>1, OverWhat
  <2> QED BY <1>2, <2>1, <2>2 DEF Entitled
<1> QED BY <1>1, <1>3, <1>4

\* What an organisation holds comes from its ownership, or from that of its ODS.
LEMMA EdorgPrivilegesAre ==
  ASSUME NEW order, Lists(order), NEW d, NEW p \in EdorgPrivileges(order, tree, d)
  PROVE  \E y \in DOMAIN rows \cap {d, OdsOf[d]} : p \in role[rows[y]]
<1>1. PICK k : k \subseteq {d, OdsOf[d]} /\ EdorgPrivileges(order, tree, d) = UNION {r.privs : r \in Owned(order, k)}
  BY DEF EdorgPrivileges
<1>2. PICK r \in Owned(order, k) : p \in r.privs
  BY <1>1
<1> QED BY <1>1, <1>2, OwnedAre

\* The walks down: what an organisation holds, for those below it.
LEMMA DownwardGivesNoMore ==
  ASSUME TablesOK, NEW order, Lists(order), NEW a \in DOMAIN AllEdorgs(order, tree, tree),
         NEW g \in Downward(order, tree, AllEdorgs(order, tree, tree), Closure(tree), a),
         NEW x \in Resource, Fits(g, x)
  PROVE  Entitled(DOMAIN rows, g.privilege, x)
<1> DEFINE all == AllEdorgs(order, tree, tree)
           privs(d) == UNION {EdorgPrivileges(order, tree, w) :
                                w \in {v \in Above(all, d) : a \in Above(all, v)}}
<1>1. PICK d \in DOMAIN all : g \in OnEdorg(privs(d), d)
  BY DEF Downward
<1>2. d \in DOMAIN tree /\ d \in Edorg /\ Above(all, d) = Above(tree, d) /\ tree \in Trees
  BY <1>1, ListsExisting, GatheredAreLoaded, GatheredAbove, AboveInside DEF TablesOK
<1>3. g.privilege \in privs(d) /\ x = d
  <2> DEFINE P == privs(d)
             t == TenantOf[OdsOf[d]]
  <2>1. d \in Resource
    BY <1>2 DEF Resource
  <2> HIDE DEF privs
  <2>2. g \in Cached("edorg", P, d, EnvOf[t], t) \/ g \in Cached("application", P, d, EnvOf[t], t)
    BY <1>1 DEF OnEdorg
  <2> HIDE DEF P
  <2>3. g.privilege \in P /\ x = d
    BY <1>2, <2>1, <2>2, CachedFits
  <2> QED BY <2>3 DEF P
<1>4. PICK w \in Above(tree, d) : g.privilege \in EdorgPrivileges(order, tree, w)
  BY <1>2, <1>3
<1>5. PICK y \in DOMAIN rows \cap {w, OdsOf[w]} : g.privilege \in role[rows[y]]
  BY <1>4, EdorgPrivilegesAre
<1>6. OdsOf[w] = OdsOf[d]
  BY <1>2, <1>4, AboveInside
<1>7. y \in Over(tree, x)
  BY <1>2, <1>3, <1>5, <1>6, OverWhat
<1> QED BY <1>5, <1>7 DEF Entitled

\* The walks up: what an organisation owned gives on those above it.
LEMMA UpwardGivesNoMore ==
  ASSUME TablesOK, NEW order, Lists(order), NEW r \in Owned(order, Edorg),
         NEW g \in UpFromEdorg(r.privs, r.on, AncestorsOf(Closure(tree), r.on)),
         NEW x \in Resource, Fits(g, x)
  PROVE  Entitled(DOMAIN rows, g.privilege, x)
<1> DEFINE y == r.on
           t == TenantOf[OdsOf[y]]
           up == r.privs \cap Upward
<1>1. y \in DOMAIN rows /\ y \in Edorg /\ r.privs = role[rows[y]]
  BY OwnedAre
<1>2. OdsOf[y] \in Ods /\ OdsOf[y] \in Resource /\ t \in Tenant
  BY <1>1, ResourceAssumption DEF Resource
<1>3. g.privilege \in up /\ x \in Over(tree, y)
  <2>0. Over(tree, y) = Above(tree, y) \cup {OdsOf[y], t, EnvOf[t]}
    BY <1>1, OverWhat
  <2> DEFINE anc == AncestorsOf(Closure(tree), y)
  <2>1. anc \subseteq Above(tree, y) \cap Edorg
    BY DEF AncestorsOf, Closure
  <2>2. \/ \E a \in anc : g \in Cached("edorg", up, a, EnvOf[t], t)
        \/ g \in Cached("ods", up, OdsOf[y], EnvOf[t], t)
        \/ g \in OnTenantOf(up, t)
    BY DEF UpFromEdorg
  <2> HIDE DEF anc, up, t, y
  <2>3. CASE \E a \in anc : g \in Cached("edorg", up, a, EnvOf[t], t)
    <3>1. PICK a \in anc : g \in Cached("edorg", up, a, EnvOf[t], t)
      BY <2>3
    <3>2. a \in Edorg /\ a \in Resource
      BY <2>1 DEF Resource
    <3>3. g.privilege \in up /\ x = a
      BY <3>1, <3>2, CachedFits
    <3> QED BY <2>0, <2>1, <3>3
  <2>4. CASE g \in Cached("ods", up, OdsOf[y], EnvOf[t], t)
    <3>1. g.privilege \in up /\ x = OdsOf[y]
      BY <1>2, <2>4, CachedFits
    <3> QED BY <2>0, <3>1
  <2>5. CASE g \in OnTenantOf(up, t)
    <3>1. g.privilege \in up /\ x \in {t, EnvOf[t]}
      BY <1>2, <2>5, OnTenantOfFits
    <3> QED BY <2>0, <3>1
  <2> QED BY <2>2, <2>3, <2>4, <2>5
<1> QED BY <1>1, <1>3 DEF Entitled

\* What a load computes is no more than the ownerships give.
LEMMA ConstructGivesNoMore ==
  ASSUME TablesOK, NEW order, Lists(order), NEW x \in Resource, NEW p,
         Can(Construct(order, tree, tree, Closure(tree)), p, x)
  PROVE  Entitled(DOMAIN rows, p, x)
<1>1. PICK g \in Construct(order, tree, tree, Closure(tree)) : g.privilege = p /\ Fits(g, x)
  BY CanByGrant
<1> QED BY <1>1, ConstructParts, EnvsGiveNoMore, TenantsGiveNoMore, OdssGiveNoMore,
           DownwardGivesNoMore, UpwardGivesNoMore

-----------------------------------------------------------------------------
(* The grants of a load have all that the ownerships give.                  *)

\* A load whose reads agree with the tables.
Computed(order) == Construct(order, tree, tree, Closure(tree))

\* Of the grants there are, one is of p and on x.
Granted(grants, p, x) == \E g \in grants : g.privilege = p /\ Fits(g, x)

\* What an organisation holds is granted on what lies below it.
LEMMA DownwardGives ==
  ASSUME TablesOK, NEW order, Lists(order), NEW x \in Loaded(order, tree),
         NEW a \in Above(tree, x), NEW p \in EdorgPrivileges(order, tree, a),
         p \in {"edorg:read", "application:write"}
  PROVE  Granted(Computed(order), p, x)
<1> DEFINE all == AllEdorgs(order, tree, tree)
           closure == Closure(tree)
           way(d) == {w \in Above(all, d) : a \in Above(all, w)}
           privs(d) == UNION {EdorgPrivileges(order, tree, w) : w \in way(d)}
<1>1. OnExisting(order, tree) /\ tree \in Trees
  BY ListsExisting DEF TablesOK
<1>2. DOMAIN all = Loaded(order, tree) /\ Loaded(order, tree) \subseteq DOMAIN tree
  BY <1>1, GatheredAreLoaded
<1>3. Above(all, x) = Above(tree, x) /\ a \in Loaded(order, tree)
  BY <1>1, GatheredAbove
<1>4. Above(all, a) = Above(tree, a)
  BY <1>1, <1>3, GatheredAbove
<1>5. a \in Edorg /\ x \in Edorg /\ a \in DOMAIN tree /\ x \in DOMAIN tree
  BY <1>1, <1>2, <1>3, AboveInside
<1>6. a \in way(x)
  BY <1>3, <1>4, <1>5, AboveSelf
<1>7. OnEdorg(privs(x), x) \subseteq Downward(order, tree, all, closure, a)
  <2> DEFINE reach == IF \E d \in Edorg : <<a, d>> \in closure
                      THEN {d \in DOMAIN all : a \in Above(all, d)} ELSE {a}
  <2>1. x \in reach
    <3>1. CASE x = a
      BY <1>2, <1>3, <1>4, <1>5, <3>1, AboveSelf
    <3>2. CASE x # a
      <4>1. <<a, x>> \in closure
        BY <1>5, <3>2 DEF Closure
      <4> QED BY <1>2, <1>3, <1>5, <4>1
    <3> QED BY <3>1, <3>2
  <2>2. Downward(order, tree, all, closure, a) = UNION {OnEdorg(privs(d), d) : d \in reach}
    BY DEF Downward
  <2> HIDE DEF reach, privs, way, all, closure
  <2> QED BY <2>1, <2>2
<1>8. p \in privs(x)
  BY <1>6
<1> DEFINE P == privs(x)
           t == TenantOf[OdsOf[x]]
<1> HIDE DEF way, privs, P
<1>9. p \in P
  BY <1>8 DEF P
<1>10. PICK g \in OnEdorg(P, x) : g.privilege = p /\ g.id = x /\ g.scope = t
  <2>1. CASE p = "edorg:read"
    <3>1. p \in P \cap PrivilegesOf["edorg"]
      BY <1>9, <2>1 DEF PrivilegesOf
    <3>2. \E g \in Cached("edorg", P, x, EnvOf[t], t) : g.privilege = p /\ g.id = x /\ g.scope = t
      BY <2>1, <3>1, CachedHas DEF TenantKeyed
    <3> QED BY <3>2 DEF OnEdorg
  <2>2. CASE p = "application:write"
    <3>1. p \in P \cap PrivilegesOf["application"]
      BY <1>9, <2>2 DEF PrivilegesOf
    <3>2. \E g \in Cached("application", P, x, EnvOf[t], t) : g.privilege = p /\ g.id = x /\ g.scope = t
      BY <2>2, <3>1, CachedHas DEF TenantKeyed
    <3> QED BY <3>2 DEF OnEdorg
  <2> QED BY <2>1, <2>2
<1>11. Fits(g, x)
  BY <1>5, <1>10 DEF Fits
<1>12. g \in Downward(order, tree, all, closure, a)
  BY <1>7, <1>10 DEF P
<1>13. a \in DOMAIN all /\ EdorgPrivileges(order, tree, a) # {}
  BY <1>2, <1>3
<1>14. g \in Computed(order)
  BY <1>12, <1>13, ConstructParts DEF Computed
<1> QED BY <1>10, <1>11, <1>14 DEF Granted

\* An environment owned.
LEMMA EnvGives ==
  ASSUME TablesOK, NEW order, Lists(order), NEW y \in DOMAIN rows \cap Env, NEW p \in role[rows[y]],
         NEW x \in Present, p \in Asked(x),
         y \in Over(tree, x) \/ (p \in Upward /\ x \in Over(tree, y))
  PROVE  Granted(Computed(order), p, x)
<1>1. PICK r \in Owned(order, Env) : r.on = y /\ r.privs = role[rows[y]]
  BY OwnedHave
<1>2. \A g \in Cached("env", r.privs, y, y, NoScope) \cup EnvBlanket(r.privs, y) : g \in Computed(order)
  <2>1. Cached("env", r.privs, y, y, NoScope) \cup EnvBlanket(r.privs, y) \subseteq FromEnvs(order)
    BY <1>1 DEF FromEnvs
  <2> QED BY <2>1, ConstructParts DEF Computed
<1>3. CASE x \in Env
  <2>1. x = y
    BY <1>3, OverWhat
  <2>2. p \in {"env:read", "env:create-tenant"}
    BY <1>3, AskedWhat
  <2>3. p \in r.privs \cap PrivilegesOf["env"]
    BY <1>1, <2>2 DEF PrivilegesOf
  <2>4. PICK g \in Cached("env", r.privs, y, y, NoScope) : g.privilege = p /\ g.id = y /\ g.scope = NoScope
    BY <2>2, <2>3, CachedHas
  <2>5. Fits(g, x)
    BY <1>3, <2>1, <2>2, <2>4 DEF Fits
  <2> QED BY <1>2, <2>4, <2>5 DEF Granted
<1>4. CASE x \notin Env
  <2>1. x \in Tenant \cup Ods \cup Edorg /\ y \in Over(tree, x)
    <3>1. Over(tree, y) = {y}
      BY OverWhat
    <3> QED BY <1>4, <3>1, HierarchyAssumption DEF Present, Resource, TablesOK
  <2>2. x \in Edorg => Above(tree, x) \subseteq Edorg
    <3>1. x \in Edorg => x \in DOMAIN tree
      BY ResourceAssumption DEF Present, Resource
    <3> QED BY <3>1, AboveInside DEF TablesOK
  <2>3. \E g \in EnvBlanket(r.privs, y) : g.privilege = p /\ Fits(g, x)
    BY <1>1, <2>1, <2>2, EnvBlanketHas
  <2> QED BY <1>2, <2>3 DEF Granted
<1> QED BY <1>3, <1>4

\* A tenant owned, of an environment that is not.
LEMMA TenantGives ==
  ASSUME TablesOK, NEW order, Lists(order), NEW y \in DOMAIN rows \cap Tenant, EnvOf[y] \notin DOMAIN rows,
         NEW p \in role[rows[y]], NEW x \in Present, p \in Asked(x),
         y \in Over(tree, x) \/ (p \in Upward /\ x \in Over(tree, y))
  PROVE  Granted(Computed(order), p, x)
<1> DEFINE privs == TenantPrivileges(order, y)
<1>1. p \in privs
  <2>1. PICK i \in DOMAIN order : order[i].on = y /\ order[i].privs = role[rows[y]]
    BY DEF Lists
  <2>2. i \in Held(order)
    BY <2>1 DEF Held
  <2>3. \A k \in Held(order) : order[k].on # EnvOf[y]
    BY DEF Held, Lists
  <2> QED BY <2>1, <2>2, <2>3 DEF TenantPrivileges
<1>2. Owned(order, {y, EnvOf[y]}) # {}
  <2>1. \E r \in Owned(order, {y, EnvOf[y]}) : r.on = y
    BY OwnedHave
  <2> QED BY <2>1
<1> HIDE DEF privs
<1>3. Cached("tenant", privs, y, EnvOf[y], y) \cup TenantBlanket(privs, y)
        \cup Cached("env", privs \cap Upward, EnvOf[y], EnvOf[y], y) \subseteq Computed(order)
  <2>1. Cached("tenant", privs, y, EnvOf[y], y) \cup TenantBlanket(privs, y)
          \cup Cached("env", privs \cap Upward, EnvOf[y], EnvOf[y], y) \subseteq FromTenants(order)
    BY <1>2 DEF FromTenants, privs
  <2> QED BY <2>1, ConstructParts DEF Computed
<1>4. y \notin Env /\ EnvOf[y] \in Env /\ EnvOf[y] # y
  BY ResourceAssumption
<1>5. CASE x \in Env
  <2>1. p \in Upward /\ x = EnvOf[y] /\ p = "env:read"
    <3>1. Over(tree, x) = {x} /\ Over(tree, y) = {y, EnvOf[y]}
      BY <1>5, OverWhat
    <3>2. p \in Upward /\ x = EnvOf[y]
      BY <1>4, <1>5, <3>1
    <3> QED BY <1>5, <3>2, AskedWhat DEF Upward
  <2>2. p \in (privs \cap Upward) \cap PrivilegesOf["env"]
    BY <1>1, <2>1 DEF PrivilegesOf
  <2>3. PICK g \in Cached("env", privs \cap Upward, EnvOf[y], EnvOf[y], y) :
          g.privilege = p /\ g.id = EnvOf[y] /\ g.scope = NoScope
    BY <2>1, <2>2, CachedHas DEF TenantKeyed
  <2>4. Fits(g, x)
    BY <1>5, <2>1, <2>3 DEF Fits
  <2> QED BY <1>3, <2>3, <2>4 DEF Granted
<1>6. CASE x \notin Env
  <2>1. x \in Tenant \cup Ods \cup Edorg /\ y \in Over(tree, x)
    <3>1. Over(tree, y) = {y, EnvOf[y]}
      BY OverWhat
    <3>2. x \in Tenant \cup Ods \cup Edorg
      BY <1>6, HierarchyAssumption DEF Present, Resource, TablesOK
    <3>3. CASE x = y
      BY <3>2, <3>3, OverSelf DEF Resource
    <3>4. CASE x # y
      BY <1>4, <1>6, <3>1, <3>2, <3>4
    <3> QED BY <3>2, <3>3, <3>4
  <2>2. CASE p = "tenant:read"
    <3>1. x \in Tenant
      BY <2>1, <2>2, AskedWhat
    <3>2. x = y
      BY <1>4, <2>1, <3>1, OverWhat, ResourceAssumption
    <3>3. p \in privs \cap PrivilegesOf["tenant"]
      BY <1>1, <2>2 DEF PrivilegesOf
    <3>4. PICK g \in Cached("tenant", privs, y, EnvOf[y], y) : g.privilege = p /\ g.id = y /\ g.scope = EnvOf[y]
      BY <2>2, <3>3, CachedHas
    <3>5. Fits(g, x)
      BY <2>2, <3>1, <3>2, <3>4 DEF Fits
    <3> QED BY <1>3, <3>4, <3>5 DEF Granted
  <2>3. CASE p # "tenant:read"
    <3>1. x \in Edorg => Above(tree, x) \subseteq Edorg
      <4>1. x \in Edorg => x \in DOMAIN tree
        BY DEF Present
      <4> QED BY <4>1, AboveInside DEF TablesOK
    <3>2. \E g \in TenantBlanket(privs, y) : g.privilege = p /\ Fits(g, x)
      BY <1>1, <2>1, <2>3, <3>1, TenantBlanketHas
    <3> QED BY <1>3, <3>2 DEF Granted
  <2> QED BY <2>2, <2>3
<1> QED BY <1>5, <1>6

\* An ODS owned.
LEMMA OdsGives ==
  ASSUME TablesOK, NEW order, Lists(order), NEW y \in DOMAIN rows \cap Ods,
         NEW p \in role[rows[y]], NEW x \in Present, p \in Asked(x),
         y \in Over(tree, x) \/ (p \in Upward /\ x \in Over(tree, y))
  PROVE  Granted(Computed(order), p, x)
<1> DEFINE t == TenantOf[y]
<1>0. t \in Tenant /\ EnvOf[t] \in Env /\ y \notin Env /\ y \notin Tenant /\ y \notin Edorg
  BY ResourceAssumption
<1>1. PICK r \in Owned(order, Ods) : r.on = y /\ r.privs = role[rows[y]]
  BY OwnedHave
<1>2. Cached("ods", r.privs, y, NoScope, t) \cup OnTenantOf(r.privs \cap Upward, t) \subseteq Computed(order)
  <2>1. Cached("ods", r.privs, y, NoScope, t) \cup OnTenantOf(r.privs \cap Upward, t) \subseteq FromOdss(order)
    BY <1>1 DEF FromOdss
  <2> QED BY <2>1, ConstructParts DEF Computed
<1>3. Over(tree, y) = {y, t, EnvOf[t]}
  BY OverWhat
<1> HIDE DEF t
<1>4. CASE x = y
  <2>1. p = "ods:read"
    BY <1>4, AskedWhat
  <2>2. p \in r.privs \cap PrivilegesOf["ods"]
    BY <1>1, <2>1 DEF PrivilegesOf
  <2>3. PICK g \in Cached("ods", r.privs, y, NoScope, t) : g.privilege = p /\ g.id = y /\ g.scope = t
    BY <2>1, <2>2, CachedHas DEF TenantKeyed
  <2>4. Fits(g, x)
    BY <1>4, <2>1, <2>3 DEF Fits, t
  <2> QED BY <1>2, <2>3, <2>4 DEF Granted
<1>5. CASE x \in {t, EnvOf[t]}
  <2>1. p \in (r.privs \cap Upward)
    <3>1. y \notin Over(tree, x)
      BY <1>0, <1>5, OverWhat, ResourceAssumption
    <3> QED BY <1>1, <3>1
  <2>2. \E g \in OnTenantOf(r.privs \cap Upward, t) : g.privilege = p /\ Fits(g, x)
    BY <1>0, <1>5, <2>1, OnTenantOfHas
  <2> QED BY <1>2, <2>2 DEF Granted
<1>6. CASE x \notin {y, t, EnvOf[t]}
  <2>1. y \in Over(tree, x)
    BY <1>3, <1>6
  <2>2. x \in Edorg /\ OdsOf[x] = y
    <3>1. x \notin Env /\ x \notin Tenant /\ (x \in Ods => x = y)
      BY <1>0, <2>1, OverWhat, ResourceAssumption
    <3>2. x \in Edorg
      BY <1>6, <3>1, HierarchyAssumption DEF Present, Resource, TablesOK
    <3>3. x \in DOMAIN tree
      BY <3>2 DEF Present
    <3>4. y \notin Above(tree, x)
      BY <1>0, <3>3, AboveInside, HierarchyAssumption DEF TablesOK
    <3>5. TenantOf[OdsOf[x]] \in Tenant /\ EnvOf[TenantOf[OdsOf[x]]] \in Env
      BY <3>2, ResourceAssumption
    <3> QED BY <1>0, <2>1, <3>2, <3>4, <3>5, OverWhat
  <2>3. x \in DOMAIN tree /\ tree \in Trees
    BY <2>2 DEF Present, TablesOK
  <2>4. PICK a \in Above(tree, x) : tree[a] = Root
    BY <2>3, HierarchyAssumption
  <2>5. a \in DOMAIN tree /\ OdsOf[a] = y
    BY <2>2, <2>3, <2>4, AboveInside
  <2>6. p \in EdorgPrivileges(order, tree, a)
    <3>1. \E q \in Owned(order, {a} \cup {OdsOf[a]}) : q.on = y /\ q.privs = role[rows[y]]
      BY <2>5, OwnedHave
    <3> QED BY <2>4, <2>5, <3>1 DEF EdorgPrivileges
  <2>7. x \in Loaded(order, tree)
    BY <1>1, <2>2, <2>3 DEF Loaded
  <2>8. p \in {"edorg:read", "application:write"}
    BY <2>2, AskedWhat
  <2> QED BY <2>4, <2>6, <2>7, <2>8, DownwardGives
<1> QED BY <1>4, <1>5, <1>6

\* An organisation owned.
LEMMA EdorgGives ==
  ASSUME TablesOK, NEW order, Lists(order), NEW y \in DOMAIN rows \cap Edorg,
         NEW p \in role[rows[y]], NEW x \in Present, p \in Asked(x),
         y \in Over(tree, x) \/ (p \in Upward /\ x \in Over(tree, y))
  PROVE  Granted(Computed(order), p, x)
<1> DEFINE o == OdsOf[y]
           t == TenantOf[o]
           anc == AncestorsOf(Closure(tree), y)
<1>0. /\ o \in Ods /\ t \in Tenant /\ EnvOf[t] \in Env
      /\ y \notin Env /\ y \notin Tenant /\ y \notin Ods
      /\ y \in DOMAIN tree /\ tree \in Trees
  BY ResourceAssumption, OwnedExist DEF TablesOK
<1>1. PICK r \in Owned(order, Edorg) : r.on = y /\ r.privs = role[rows[y]]
  BY OwnedHave
<1> DEFINE up == r.privs \cap Upward
<1>2. /\ Cached("ods", up, o, EnvOf[t], t) \subseteq Computed(order)
      /\ OnTenantOf(up, t) \subseteq Computed(order)
      /\ \A a \in anc : Cached("edorg", up, a, EnvOf[t], t) \subseteq Computed(order)
  <2>1. UpFromEdorg(r.privs, y, anc) =
          (Cached("ods", up, o, EnvOf[t], t) \cup OnTenantOf(up, t))
            \cup UNION {Cached("edorg", up, a, EnvOf[t], t) : a \in anc}
    BY DEF UpFromEdorg
  <2>2. UpFromEdorg(r.privs, y, anc) \subseteq Computed(order)
    BY <1>1, ConstructParts DEF Computed
  <2> HIDE DEF anc, up, t, o
  <2> QED BY <2>1, <2>2
<1>3. Over(tree, y) = Above(tree, y) \cup {o, t, EnvOf[t]}
  BY OverWhat
<1>4. CASE x \in Edorg /\ y \in Over(tree, x)
  <2>1. x \in DOMAIN tree /\ p \in {"edorg:read", "application:write"}
    BY <1>4, AskedWhat DEF Present
  <2>2. y \in Above(tree, x)
    BY <1>0, <1>4, OverWhat, ResourceAssumption
  <2>3. p \in EdorgPrivileges(order, tree, y)
    <3>1. PICK k : y \in k /\ EdorgPrivileges(order, tree, y) = UNION {q.privs : q \in Owned(order, k)}
      BY DEF EdorgPrivileges
    <3>2. \E q \in Owned(order, k) : q.on = y /\ q.privs = role[rows[y]]
      BY <3>1, OwnedHave
    <3> QED BY <3>1, <3>2
  <2>4. x \in Loaded(order, tree)
    BY <1>0, <1>1, <2>1, <2>2 DEF Loaded
  <2> QED BY <2>1, <2>2, <2>3, <2>4, DownwardGives
<1>5. CASE ~ (x \in Edorg /\ y \in Over(tree, x))
  <2>1. p \in up /\ x \in Over(tree, y)
    <3>1. y \notin Over(tree, x)
      <4>1. x \in Env => Over(tree, x) = {x}
        BY OverWhat
      <4>2. x \in Tenant => Over(tree, x) \subseteq Env \cup Tenant
        BY OverWhat, ResourceAssumption
      <4>3. x \in Ods => Over(tree, x) \subseteq Env \cup Tenant \cup Ods
        BY OverWhat, ResourceAssumption
      <4>4. x \in Edorg \/ x \in Env \/ x \in Tenant \/ x \in Ods
        BY <1>0, HierarchyAssumption DEF Present, Resource
      <4> QED BY <1>0, <1>5, <4>1, <4>2, <4>3, <4>4
    <3> QED BY <1>1, <3>1
  <2> HIDE DEF up, t, o
  <2>2. CASE x \in {t, EnvOf[t]}
    <3>1. \E g \in OnTenantOf(up, t) : g.privilege = p /\ Fits(g, x)
      <4>1. p \in up \cap Upward
        BY <2>1 DEF up
      <4> QED BY <1>0, <2>2, <4>1, OnTenantOfHas
    <3> QED BY <1>2, <3>1 DEF Granted
  <2>3. CASE x = o
    <3>1. p = "ods:read"
      BY <1>0, <2>3, AskedWhat
    <3>2. p \in up \cap PrivilegesOf["ods"]
      BY <2>1, <3>1 DEF PrivilegesOf
    <3>3. PICK g \in Cached("ods", up, o, EnvOf[t], t) : g.privilege = p /\ g.id = o /\ g.scope = t
      BY <3>1, <3>2, CachedHas DEF TenantKeyed
    <3>4. Fits(g, x)
      BY <1>0, <2>3, <3>1, <3>3 DEF Fits, t
    <3> QED BY <1>2, <3>3, <3>4 DEF Granted
  <2>4. CASE x \notin {o, t, EnvOf[t]}
    <3>1. x \in Above(tree, y) /\ x \in Edorg /\ OdsOf[x] = o
      BY <1>0, <1>3, <2>1, <2>4, AboveInside DEF o
    <3>2. x # y
      BY <1>0, <1>5, <3>1, OverSelf DEF Resource
    <3>3. x \in anc
      BY <1>0, <3>1, <3>2 DEF AncestorsOf, Closure
    <3>4. p = "edorg:read"
      BY <2>1, <3>1, AskedWhat DEF up, Upward
    <3>5. p \in up \cap PrivilegesOf["edorg"]
      BY <2>1, <3>4 DEF PrivilegesOf
    <3> HIDE DEF anc
    <3>6. PICK g \in Cached("edorg", up, x, EnvOf[t], t) : g.privilege = p /\ g.id = x /\ g.scope = t
      BY <3>4, <3>5, CachedHas DEF TenantKeyed
    <3>7. Fits(g, x)
      BY <3>1, <3>4, <3>6 DEF Fits, t
    <3> QED BY <1>2, <3>3, <3>6, <3>7 DEF Granted
  <2> QED BY <2>2, <2>3, <2>4
<1> QED BY <1>4, <1>5

\* What a load computes is all that the ownerships give, those of a tenant whose
\* environment is owned too left aside.
LEMMA ConstructGivesAll ==
  ASSUME TablesOK, NEW order, Lists(order), NEW x \in Present, NEW p \in Asked(x),
         Entitled(DOMAIN rows \ Rivalled, p, x)
  PROVE  Can(Computed(order), p, x)
<1>1. PICK y \in DOMAIN rows \ Rivalled :
        p \in role[rows[y]] /\ (y \in Over(tree, x) \/ (p \in Upward /\ x \in Over(tree, y)))
  BY DEF Entitled
<1>2. y \in Resource /\ (y \in Tenant => EnvOf[y] \notin DOMAIN rows)
  BY OwnedExist DEF Rivalled
<1>3. Granted(Computed(order), p, x)
  <2>1. CASE y \in Env
    BY <1>1, <2>1, EnvGives
  <2>2. CASE y \in Tenant
    BY <1>1, <1>2, <2>2, TenantGives
  <2>3. CASE y \in Ods
    BY <1>1, <2>3, OdsGives
  <2>4. CASE y \in Edorg
    BY <1>1, <2>4, EdorgGives
  <2> QED BY <1>2, <2>1, <2>2, <2>3, <2>4 DEF Resource
<1>4. x \in Resource
  BY HierarchyAssumption DEF Present, Resource, TablesOK
<1> QED BY <1>3, <1>4, CanByGrant DEF Granted

-----------------------------------------------------------------------------
(* What the loads in flight and those cached have read.                     *)

\* A result is what the ownerships give: no more, and all but what a tenant
\* gives under an owned environment.
Exact(result) ==
  \A x \in Present : \A p \in Asked(x) :
    /\ Can(result, p, x) => Entitled(DOMAIN rows, p, x)
    /\ Entitled(DOMAIN rows \ Rivalled, p, x) => Can(result, p, x)

\* Where no synchronisation came between its reads, a load has the organisations
\* as they are; where it missed no change, the ownerships too, and its result is
\* what they give.
ReadsTrue(r) ==
  /\ r.torn \in BOOLEAN
  /\ ~ r.torn =>
       /\ r.phase \in {"owned", "edorgs"} => OnExisting(r.rows, tree) /\ r.early = tree
       /\ r.phase = "edorgs" => r.tree = tree
  /\ r.missed = {} =>
       /\ r.phase \in {"owned", "edorgs"} => Lists(r.rows) /\ r.early = tree
       /\ r.phase = "edorgs" => r.tree = tree
       /\ r.phase = "done" => Exact(r.result)

ReadsOK == \A l \in Load : ReadsTrue(load[l])

\* A load that has read nothing, or does not go on.
LEMMA NothingRead ==
  ASSUME NEW l \in Load, load'[l].torn \in BOOLEAN,
         load'[l].phase \in {"idle", "started", "rejected"}
  PROVE  ReadsTrue(load[l])'
BY DEF ReadsTrue

\* A load that is dropped has read nothing.
LEMMA Dropped ==
  ASSUME NEW l \in Load, load'[l] = Idle
  PROVE  ReadsTrue(load[l])'
<1>1. load'[l].torn \in BOOLEAN /\ load'[l].phase = "idle"
  BY DEF Idle
<1> QED BY <1>1, NothingRead

\* A load that stays, with tables that stay.
LEMMA NothingChanged ==
  ASSUME NEW l \in Load, ReadsTrue(load[l]), load'[l] = load[l], UNCHANGED data
  PROVE  ReadsTrue(load[l])'
<1>1. rows' = rows /\ role' = role /\ tree' = tree
  BY DEF data
<1>2. Lists(load[l].rows) => Lists(load[l].rows)'
  BY <1>1 DEF Lists
<1>3. Exact(load[l].result) => Exact(load[l].result)'
  BY <1>1 DEF Exact, Present, Entitled, Over, Rivalled
<1>4. OnExisting(load[l].rows, tree) => OnExisting(load[l].rows, tree)'
  BY <1>1 DEF OnExisting
<1> QED BY <1>1, <1>2, <1>3, <1>4 DEF ReadsTrue

\* The first read returns the ownerships, in an order.
LEMMA ReadsOwnerships ==
  ASSUME AccessInv, ReadsOK, NEW l \in Load, ReadOwnerships(l)
  PROVE  ReadsTrue(load[l])'
<1>1. PICK order \in Bijection(1..Cardinality(DOMAIN rows), DOMAIN rows) :
        Advance(l, [load[l] EXCEPT
          !.phase = "owned",
          !.rows = [j \in DOMAIN order |-> [on |-> order[j], privs |-> role[rows[order[j]]]]],
          !.early = tree])
  BY DEF ReadOwnerships
<1>2. rows' = rows /\ role' = role /\ tree' = tree
  BY DEF ReadOwnerships, data
<1> DEFINE list == [j \in DOMAIN order |-> [on |-> order[j], privs |-> role[rows[order[j]]]]]
<1>3. Lists(list)
  <2>1. DOMAIN order = 1..Cardinality(DOMAIN rows)
    BY DEF Bijection, Injection, Surjection
  <2>2. \A j \in DOMAIN order : j \in Nat /\ order[j] \in DOMAIN rows
    BY <2>1 DEF Bijection, Injection
  <2>3. \A j, k \in DOMAIN order : order[j] = order[k] => j = k
    BY DEF Bijection, Injection, IsInjective
  <2>4. \A x \in DOMAIN rows : \E j \in DOMAIN order : order[j] = x
    BY <2>1 DEF Bijection, Surjection
  <2> QED BY <2>2, <2>3, <2>4 DEF Lists
<1>4. LoadRecord(load[l]) /\ load \in [Load -> {load[k] : k \in Load}]
  BY DEF AccessInv, LoadsOK, LoadOK
<1> HIDE DEF list
<1>5. /\ load'[l].phase = "owned" /\ load'[l].rows = list /\ load'[l].early = tree
      /\ load'[l].torn = load[l].torn /\ load'[l].missed = load[l].missed
  <2>1. load'[l] = [load[l] EXCEPT !.phase = "owned", !.rows = list, !.early = tree]
    BY <1>1, <1>4 DEF Advance, list
  <2> QED BY <1>4, <2>1 DEF LoadRecord
<1>6. OnExisting(list, tree)
  BY <1>3, ListsExisting DEF AccessInv
<1>7. Lists(load[l].rows)' /\ OnExisting(load[l].rows, tree)'
  BY <1>2, <1>3, <1>5, <1>6 DEF Lists, OnExisting
<1>8. load[l].torn \in BOOLEAN
  BY DEF ReadsOK, ReadsTrue
<1> QED BY <1>2, <1>5, <1>7, <1>8 DEF ReadsTrue

\* The second read returns the organisations.
LEMMA ReadsOrganisations ==
  ASSUME AccessInv, ReadsOK, NEW l \in Load, ReadEdorgs(l)
  PROVE  ReadsTrue(load[l])'
<1>1. rows' = rows /\ role' = role /\ tree' = tree /\ load[l].phase = "owned"
  BY DEF ReadEdorgs, data
<1>2. LoadRecord(load[l]) /\ load \in [Load -> {load[k] : k \in Load}]
  BY DEF AccessInv, LoadsOK, LoadOK
<1>3. /\ load'[l].phase = "edorgs" /\ load'[l].rows = load[l].rows /\ load'[l].early = load[l].early
      /\ load'[l].tree = tree /\ load'[l].torn = load[l].torn /\ load'[l].missed = load[l].missed
  BY <1>2 DEF ReadEdorgs, Advance, LoadRecord
<1>4. /\ Lists(load[l].rows) => Lists(load[l].rows)'
      /\ OnExisting(load[l].rows, tree) => OnExisting(load[l].rows, tree)'
  BY <1>1, <1>3 DEF Lists, OnExisting
<1> QED BY <1>1, <1>3, <1>4 DEF ReadsOK, ReadsTrue

\* The last read returns the closure, and the load resolves.
LEMMA Resolves ==
  ASSUME AccessInv, ReadsOK, NEW l \in Load, ReadClosure(l)
  PROVE  ReadsTrue(load[l])'
<1>1. rows' = rows /\ role' = role /\ tree' = tree /\ load[l].phase = "edorgs" /\ Settle(l, Done(l))
  BY DEF ReadClosure, data
<1>2. LoadRecord(load[l]) /\ load \in [Load -> {load[k] : k \in Load}]
  BY DEF AccessInv, LoadsOK, LoadOK
<1>3. load'[l] = Done(l) \/ load'[l] = Idle
  BY <1>1, <1>2 DEF Settle, Advance
<1>4. CASE load'[l] = Idle
  BY <1>4, Dropped
<1>5. CASE load'[l] = Done(l)
  <2>1. /\ load'[l].phase = "done" /\ load'[l].result = Outcome(l)
        /\ load'[l].torn = load[l].torn /\ load'[l].missed = load[l].missed
    <3> DEFINE out == Outcome(l)
    <3>1. load'[l] = [load[l] EXCEPT !.phase = "done", !.rows = <<>>, !.early = <<>>, !.tree = <<>>,
                                     !.result = out]
      BY <1>5 DEF Done
    <3> HIDE DEF out
    <3>2. load'[l].phase = "done" /\ load'[l].result = out
          /\ load'[l].torn = load[l].torn /\ load'[l].missed = load[l].missed
      BY <1>2, <3>1 DEF LoadRecord
    <3> QED BY <3>2 DEF out
  <2>2. ASSUME load[l].missed = {} PROVE Exact(Outcome(l))
    <3>1. Lists(load[l].rows) /\ load[l].early = tree /\ load[l].tree = tree
      BY <1>1, <2>2 DEF ReadsOK, ReadsTrue
    <3>2. Outcome(l) = Construct(load[l].rows, tree, tree, Closure(tree))
      BY <3>1 DEF Outcome
    <3>3. \A x \in Present : x \in Resource
      BY HierarchyAssumption DEF Present, Resource, AccessInv, TablesOK
    <3>4. TablesOK
      BY DEF AccessInv
    <3> QED BY <3>1, <3>2, <3>3, <3>4, ConstructGivesNoMore, ConstructGivesAll DEF Exact, Computed
  <2>3. load[l].missed = {} => Exact(load[l].result)'
    BY <1>1, <2>1, <2>2 DEF Exact, Present, Entitled, Over, Rivalled
  <2> QED BY <1>1, <2>1, <2>3 DEF ReadsOK, ReadsTrue
<1> QED BY <1>3, <1>4, <1>5

\* A load that fails, or whose construction throws, holds nothing that was read.
LEMMA Fails ==
  ASSUME AccessInv, ReadsOK, NEW l \in Load, Settle(l, Rejected(l))
  PROVE  ReadsTrue(load[l])'
<1>1. LoadRecord(load[l]) /\ load \in [Load -> {load[k] : k \in Load}]
  BY DEF AccessInv, LoadsOK, LoadOK
<1>2. load'[l] = Rejected(l) \/ load'[l] = Idle
  BY <1>1 DEF Settle, Advance
<1>3. load[l].torn \in BOOLEAN
  BY DEF ReadsOK, ReadsTrue
<1>4. CASE load'[l] = Rejected(l)
  <2>1. load'[l].torn = load[l].torn /\ load'[l].phase = "rejected"
    BY <1>1, <1>4 DEF Rejected, LoadRecord
  <2> QED BY <1>3, <2>1, NothingRead
<1> QED BY <1>2, <1>4, Dropped

\* What one load reads, no other has read.
LEMMA OneAdvances ==
  ASSUME AccessInv, ReadsOK, UNCHANGED data, NEW l \in Load, NEW next, Advance(l, next),
         ReadsTrue(load[l])'
  PROVE  ReadsOK'
<1> SUFFICES ASSUME NEW k \in Load, k # l PROVE ReadsTrue(load[k])'
  BY DEF ReadsOK
<1>1. load'[k] = load[k]
  BY DEF Advance, AccessInv, LoadsOK
<1> QED BY <1>1, NothingChanged DEF ReadsOK

\* The loads that a step leaves, drops or starts.
LEMMA NoneAdvances ==
  ASSUME AccessInv, ReadsOK, UNCHANGED data,
         \A l \in Load : \/ load'[l] = load[l] \/ load'[l] = Idle
                         \/ load'[l].phase = "started" /\ load'[l].torn = FALSE
  PROVE  ReadsOK'
<1> SUFFICES ASSUME NEW l \in Load PROVE ReadsTrue(load[l])'
  BY DEF ReadsOK
<1>1. CASE load'[l] = load[l]
  BY <1>1, NothingChanged DEF ReadsOK
<1>2. CASE load'[l] = Idle
  BY <1>2, Dropped
<1>3. CASE load'[l].phase = "started" /\ load'[l].torn = FALSE
  BY <1>3, NothingRead
<1> QED BY <1>1, <1>2, <1>3

\* A change that commits is missed by the loads in flight, and tears those that
\* run where it changes the organisations.
LEMMA ChangeMissed ==
  ASSUME AccessInv, ReadsOK, NEW i \in Instance, NEW by, Commits(i, by)
  PROVE  ReadsOK'
<1> SUFFICES ASSUME NEW l \in Load PROVE ReadsTrue(load[l])'
  BY DEF ReadsOK
<1>1. ReadsTrue(load[l]) /\ LoadRecord(load[l])
  BY DEF AccessInv, LoadsOK, LoadOK, ReadsOK
<1>2. CASE load[l].phase = "idle"
  <2>1. load'[l].phase = "idle" /\ load'[l].torn = load[l].torn
    BY <1>2 DEF Commits
  <2> QED BY <1>1, <2>1, NothingRead DEF ReadsTrue
<1>3. CASE load[l].phase # "idle"
  <2> DEFINE torn == load[l].torn \/ (Running(l) /\ tree' # tree)
             missed == load[l].missed \cup {changes'}
  <2>1. load'[l] = [load[l] EXCEPT !.missed = missed, !.torn = torn]
    BY <1>3, Zenon DEF Commits
  <2>2. torn \in BOOLEAN /\ missed # {} /\ (~ torn => ~ load[l].torn /\ (Running(l) => tree' = tree))
    BY <1>1 DEF ReadsTrue
  <2> HIDE DEF torn, missed
  <2>3. /\ load'[l].torn = torn /\ load'[l].missed = missed
        /\ load'[l].phase = load[l].phase /\ load'[l].rows = load[l].rows
        /\ load'[l].early = load[l].early /\ load'[l].tree = load[l].tree
    BY <1>1, <2>1 DEF LoadRecord
  <2>4. CASE load[l].phase \in {"owned", "edorgs"} /\ ~ torn
    <3>1. tree' = tree /\ ~ load[l].torn
      BY <2>2, <2>4 DEF Running
    <3>2. OnExisting(load[l].rows, tree) => OnExisting(load[l].rows, tree)'
      BY <2>3, <3>1 DEF OnExisting
    <3> QED BY <1>1, <2>2, <2>3, <2>4, <3>1, <3>2 DEF ReadsTrue
  <2>5. CASE ~ (load[l].phase \in {"owned", "edorgs"} /\ ~ torn)
    BY <2>2, <2>3, <2>5 DEF ReadsTrue
  <2> QED BY <2>4, <2>5
<1> QED BY <1>2, <1>3

\* Storing a promise leaves, drops or starts loads.
LEMMA StoreLeaves ==
  ASSUME AccessInv, NEW i \in Instance, Store(i, NoLoad, load), NEW l \in Load
  PROVE  load'[l] = load[l] \/ load'[l] = Idle
BY DEF Store

\* So does starting a load.
LEMMA StartLeaves ==
  ASSUME AccessInv, NEW i \in Instance, NEW awaited, StartLoad(i, awaited), NEW l \in Load
  PROVE  \/ load'[l] = load[l] \/ load'[l] = Idle
         \/ load'[l].phase = "started" /\ load'[l].torn = FALSE
<1> DEFINE new == [Idle EXCEPT !.at = i, !.phase = "started", !.awaited = awaited]
<1>1. PICK k \in Load : Store(i, k, [load EXCEPT ![k] = new])
  BY DEF StartLoad
<1>2. new.phase = "started" /\ new.torn = FALSE
  BY DEF Idle
<1> HIDE DEF new
<1>3. load'[l] = Idle \/ load'[l] = [load EXCEPT ![k] = new][l]
  BY <1>1 DEF Store
<1>4. [load EXCEPT ![k] = new][l] = IF l = k THEN new ELSE load[l]
  BY DEF AccessInv, LoadsOK
<1> QED BY <1>2, <1>3, <1>4

\* A process that ends drops its loads, and leaves those of the others.
LEMMA RestartLeaves ==
  ASSUME NEW i, Restart(i), NEW l \in Load
  PROVE  load'[l] = load[l] \/ load'[l] = Idle
BY DEF Restart

\* A step of a load leaves what the loads have read true.
LEMMA ReadsStepOfLoad ==
  ASSUME AccessInv, ReadsOK, NEW l \in Load, LoadStep(l)
  PROVE  ReadsOK'
<1>1. UNCHANGED data
  BY DEF LoadStep, ReadOwnerships, ReadEdorgs, ReadClosure, ReadFails, Refuse, Throw
<1>2. CASE ReadOwnerships(l)
  <2>1. \E next : Advance(l, next)
    BY <1>2 DEF ReadOwnerships
  <2> QED BY <1>1, <1>2, <2>1, ReadsOwnerships, OneAdvances
<1>3. CASE ReadEdorgs(l)
  <2>1. \E next : Advance(l, next)
    BY <1>3 DEF ReadEdorgs
  <2> QED BY <1>1, <1>3, <2>1, ReadsOrganisations, OneAdvances
<1>4. CASE ReadClosure(l)
  <2>1. \E next : Advance(l, next)
    BY <1>4 DEF ReadClosure, Settle
  <2> QED BY <1>1, <1>4, <2>1, Resolves, OneAdvances
<1>5. CASE Settle(l, Rejected(l))
  <2>1. \E next : Advance(l, next)
    BY <1>5 DEF Settle
  <2> QED BY <1>1, <1>5, <2>1, Fails, OneAdvances
<1>6. CASE Restart(load[l].at)
  BY <1>1, <1>6, RestartLeaves, NoneAdvances
<1> QED BY <1>2, <1>3, <1>4, <1>5, <1>6 DEF LoadStep, ReadFails, Refuse, Throw

\* Every step leaves what the loads have read true.
LEMMA ReadsStep == AccessInv /\ ReadsOK /\ [AccessNext]_vars => ReadsOK'
<1> SUFFICES ASSUME AccessInv, ReadsOK, [AccessNext]_vars PROVE ReadsOK'
  OBVIOUS
<1>1. ASSUME NEW i \in Instance, Alter(i) PROVE ReadsOK'
  BY <1>1, TablesKeep, ChangeMissed
<1>2. ASSUME NEW i \in Instance, Get(i) PROVE ReadsOK'
  BY <1>2, StartLeaves, NoneAdvances DEF Get
<1>3. ASSUME NEW i \in Instance, Expire(i) PROVE ReadsOK'
  BY <1>3, StoreLeaves, NoneAdvances DEF Expire
<1>4. ASSUME NEW i \in Instance, Reload(i) PROVE ReadsOK'
  BY <1>4, StartLeaves, NoneAdvances DEF Reload, Tell
<1>5. ASSUME NEW i \in Instance, Flush(i) PROVE ReadsOK'
  BY <1>5, StoreLeaves, NoneAdvances DEF Flush, Tell
<1>6. ASSUME NEW i \in Instance, FlushLost(i) PROVE ReadsOK'
  BY <1>6, NoneAdvances DEF FlushLost
<1>7. ASSUME NEW i \in Instance, Crash(i) PROVE ReadsOK'
  BY <1>7, RestartLeaves, NoneAdvances DEF Crash
<1>8. CASE UNCHANGED vars
  BY <1>8, NoneAdvances DEF vars
<1> QED BY <1>1, <1>2, <1>3, <1>4, <1>5, <1>6, <1>7, <1>8, ReadsStepOfLoad DEF AccessNext

-----------------------------------------------------------------------------

\* Whatever commits between the reads of a load, in whichever instance: one that
\* missed no change has read the tables as they are and, resolved, has what they
\* give; one that was not torn by a synchronisation has read the organisations
\* of its ownerships (auth.service.ts:154-622).
THEOREM ReadsInvariance == AccessSpec => []ReadsOK
<1>1. AccessInit => ReadsOK
  <2> SUFFICES ASSUME AccessInit, NEW l \in Load PROVE ReadsTrue(load[l])
    BY DEF ReadsOK
  <2>1. load[l].phase = "idle" /\ load[l].torn = FALSE
    BY DEF AccessInit, Idle
  <2> QED BY <2>1 DEF ReadsTrue
<1>2. AccessInv /\ ReadsOK /\ [AccessNext]_vars => ReadsOK'
  BY ReadsStep
<1> QED BY <1>1, <1>2, AccessInvariance, PTL DEF AccessSpec

\* For any hierarchy, ownerships and roles, and whichever order the ownerships are
\* read in: a cache allows nothing the ownerships do not give
\* (auth.service.ts:154-622).
THEOREM NoMoreThanOwned == AccessSpec => []NeverMoreThanOwned
<1>1. ReadsOK => NeverMoreThanOwned
  BY DEF ReadsOK, ReadsTrue, Exact, Served, NeverMoreThanOwned
<1> QED BY <1>1, ReadsInvariance, PTL

\* A load that comes to its end allows all that the ownerships give, those of a
\* tenant whose environment the team owns too left aside; ThrowsExplained says
\* which loads come to none (auth.service.ts:154-622).
THEOREM AllThatIsOwned == AccessSpec => []AsMuchAsOwned
<1>1. ReadsOK => AsMuchAsOwned
  BY DEF ReadsOK, ReadsTrue, Exact, Served, AsMuchAsOwned
<1> QED BY <1>1, ReadsInvariance, PTL

\* The ids that a read refuses are too many for SQL Server.
LEMMA RefusedForTooMany ==
  ASSUME AccessInv, ReadsOK, NEW l \in Load, Refused(l), ~ load[l].torn
  PROVE  TooMany(l)
<1> DEFINE order == load[l].rows
           held == Owned(order, Ods \cup Edorg)
<1>1. CASE load[l].phase = "owned"
  <2>1. ~ BindsOwned(engine, order)
    BY <1>1 DEF Refused
  <2>2. PICK kind \in {Edorg, Ods} : ~ Binds(engine, {r.on : r \in Owned(order, kind)})
    BY <2>1 DEF BindsOwned
  <2>3. engine = "mssql" /\ \E r, s \in Owned(order, kind) : r.on # s.on
    BY <2>2 DEF Binds
  <2>4. Owned(order, kind) \subseteq held
    BY DEF Owned
  <2> QED BY <2>3, <2>4 DEF TooMany
<1>2. CASE load[l].phase = "edorgs"
  <2> DEFINE t == load[l].tree
             entries == Entries(order, load[l].early, t)
  <2>1. ~ Binds(engine, entries)
    BY <1>2 DEF Refused
  <2>2. PICK x, y \in entries : engine = "mssql" /\ x # y
    BY <2>1 DEF Binds
  <2>3. t \in Trees /\ load[l].early = t /\ OnExisting(order, t)
    BY <1>2 DEF ReadsOK, ReadsTrue, AccessInv, TablesOK
  <2>4. ASSUME NEW d \in entries
        PROVE  /\ d \in Edorg /\ OdsOf[d] \in Ods
               /\ \E r \in held : r.on = d \/ (r.on = OdsOf[d] /\ d \in DOMAIN t /\ t[d] = Root)
    <3>1. d \in DOMAIN AllEdorgs(order, t, t) /\ EdorgPrivileges(order, t, d) # {}
      BY <2>3 DEF Entries
    <3>2. d \in Edorg /\ OdsOf[d] \in Ods
      BY <2>3, <3>1, GatheredAreLoaded, HierarchyAssumption, ResourceAssumption
    <3>3. Owned(order, {d} \cup (IF d \in DOMAIN t /\ t[d] = Root THEN {OdsOf[d]} ELSE {})) # {}
      BY <3>1 DEF EdorgPrivileges
    <3>4. PICK i \in Held(order) :
            \/ order[i].on = d
            \/ order[i].on = OdsOf[d] /\ d \in DOMAIN t /\ t[d] = Root
      BY <3>3 DEF Owned
    <3> DEFINE row == order[i]
    <3>5. row \in held /\ (row.on = d \/ (row.on = OdsOf[d] /\ d \in DOMAIN t /\ t[d] = Root))
      BY <3>2, <3>4 DEF Owned
    <3> HIDE DEF row, held, t
    <3> QED BY <3>2, <3>5
  <2> HIDE DEF entries, t
  <2>5. PICK r \in held : r.on = x \/ (r.on = OdsOf[x] /\ x \in DOMAIN t /\ t[x] = Root)
    BY <2>2, <2>4
  <2>6. PICK s \in held : s.on = y \/ (s.on = OdsOf[y] /\ y \in DOMAIN t /\ t[y] = Root)
    BY <2>2, <2>4
  <2>7. x \in Edorg /\ y \in Edorg /\ OdsOf[x] \notin Edorg /\ OdsOf[y] \notin Edorg
    BY <2>2, <2>4, ResourceAssumption
  <2>8. \/ r.on # s.on
        \/ /\ x \in DOMAIN t /\ y \in DOMAIN t /\ t[x] = Root /\ t[y] = Root
           /\ OdsOf[x] = r.on /\ OdsOf[y] = r.on
    BY <2>2, <2>5, <2>6, <2>7
  <2> QED BY <2>2, <2>8 DEF TooMany, t
<1> QED BY <1>1, <1>2 DEF Refused

\* A load that missed no change comes to its end with all that the ownerships
\* give: it is refused or throws only for an organisation owned with less than the
\* minimum, where a synchronisation committed between its reads, or, on SQL
\* Server, for owning more than one id stands for (helpers.ts:430-434,
\* auth.service.ts:302-331, 488-499, 515-519).
THEOREM ThrowsExplained == AccessSpec => []ThrowsForAReason
<1>1. AccessInv /\ ReadsOK => ThrowsForAReason
  <2> SUFFICES ASSUME AccessInv, ReadsOK, NEW l \in Load, ~ load[l].torn,
                      Refused(l) \/ (load[l].phase = "edorgs" /\ Throwing(l))
               PROVE  \/ \E r \in Owned(load[l].rows, Edorg) : ~ (Minimum \subseteq r.privs)
                      \/ TooMany(l)
    BY DEF ThrowsForAReason
  <2>1. CASE Refused(l)
    BY <2>1, RefusedForTooMany
  <2>2. CASE load[l].phase = "edorgs" /\ Throwing(l)
    <3>1. OnExisting(load[l].rows, tree) /\ load[l].early = tree /\ load[l].tree = tree
      BY <2>2 DEF ReadsOK, ReadsTrue
    <3>2. tree \in Trees
      BY DEF AccessInv, TablesOK
    <3>3. Throws(load[l].rows, tree, tree, Closure(tree))
      BY <2>2, <3>1 DEF Throwing
    <3> QED BY <3>1, <3>2, <3>3, ThrowsByMinimum
  <2> QED BY <2>1, <2>2
<1> QED BY <1>1, AccessInvariance, ReadsInvariance, PTL

=============================================================================
