--------------------------------- MODULE Cron ---------------------------------
(***************************************************************************)
(* The in-process cron of MssqlJobQueueService: every instance checks by   *)
(* itself whether the synchronisation tick is due, takes an application    *)
(* lock of the database around the insertion, and remembers in memory what *)
(* it fired.  Cron instants are numbered from 1; the tick is the only      *)
(* schedule in the registry.                                               *)
(***************************************************************************)
EXTENDS Naturals

CONSTANTS
  Instance,     \* processes of the API that share the database
  NoOne,        \* holder of a free application lock
  MaxInstants,  \* bounds the cron instants that pass
  MaxMishaps    \* bounds shutdowns, crashes and failed database calls

ASSUME CronAssumption ==
  /\ NoOne \notin Instance
  /\ MaxInstants \in Nat \ {0}
  /\ MaxMishaps \in Nat

VARIABLES
  instant,   \* cron instants that have passed; a process that starts is due at once
  life,      \* life of each process
  step,      \* where its schedule loop stands
  now,       \* `now' of processSchedules, as an instant
  lastFire,  \* lastScheduleFire of its memory, 0 for no record
  appLock,   \* holder of the lock sp_getapplock gives out
  ticks,     \* history: ticks inserted for each instant
  fired,     \* history: ticks each life inserted for each instant
  unheard,   \* history: those of them whose insertion was not acknowledged
  lockBroke, \* history: the lock was lost while its holder was at work
  mishaps    \* history: failures so far, bounded by MaxMishaps

history == <<ticks, fired, unheard, lockBroke>>
vars == <<instant, life, step, now, lastFire, appLock, history, mishaps>>

Instants == 1..MaxInstants
Never == [n \in Instants |-> 0]

CronTypeOK ==
  /\ instant \in Instants
  /\ life \in [Instance -> {"down", "up", "stopped"}]
  /\ step \in [Instance -> {"idle", "due", "firing", "inserted"}]
  /\ now \in [Instance -> Instants \cup {0}]
  /\ lastFire \in [Instance -> Instants \cup {0}]
  /\ appLock \in Instance \cup {NoOne}
  /\ ticks \in [Instants -> Nat]
  /\ fired \in [Instance -> [Instants -> Nat]]
  /\ unheard \in [Instance -> [Instants -> Nat]]
  /\ lockBroke \in BOOLEAN
  /\ mishaps \in Nat

CronInit ==
  /\ instant = 1
  /\ life = [p \in Instance |-> "down"]
  /\ step = [p \in Instance |-> "idle"]
  /\ now = [p \in Instance |-> 0]
  /\ lastFire = [p \in Instance |-> 0]
  /\ appLock = NoOne
  /\ ticks = Never
  /\ fired = [p \in Instance |-> Never]
  /\ unheard = [p \in Instance |-> Never]
  /\ lockBroke = FALSE
  /\ mishaps = 0

-----------------------------------------------------------------------------
(* The process and the clock.                                               *)

CronInstant ==
  /\ instant < MaxInstants
  /\ instant' = instant + 1
  /\ UNCHANGED <<life, step, now, lastFire, appLock, history, mishaps>>

\* start(): the schedule loop begins, with an empty lastScheduleFire.
Start(p) ==
  /\ life[p] = "down"
  /\ life' = [life EXCEPT ![p] = "up"]
  /\ UNCHANGED <<instant, step, now, lastFire, appLock, history, mishaps>>

Mishap == mishaps < MaxMishaps /\ mishaps' = mishaps + 1

\* stop(): no further check, but the one under way goes on.
Stop(p) ==
  /\ life[p] = "up"
  /\ Mishap
  /\ life' = [life EXCEPT ![p] = "stopped"]
  /\ UNCHANGED <<instant, step, now, lastFire, appLock, history>>

Released(p) == IF appLock = p THEN NoOne ELSE appLock

\* The process ends: its memory is gone, its database session closes.
Die(p) ==
  /\ life' = [life EXCEPT ![p] = "down"]
  /\ step' = [step EXCEPT ![p] = "idle"]
  /\ now' = [now EXCEPT ![p] = 0]
  /\ lastFire' = [lastFire EXCEPT ![p] = 0]
  /\ appLock' = Released(p)
  /\ fired' = [fired EXCEPT ![p] = Never]
  /\ unheard' = [unheard EXCEPT ![p] = Never]
  /\ UNCHANGED <<instant, ticks, lockBroke>>

Exit(p)  == life[p] = "stopped" /\ Die(p) /\ UNCHANGED mishaps
Crash(p) == life[p] # "down" /\ Mishap /\ Die(p)

-----------------------------------------------------------------------------
(* processSchedules() and withSchedulerLock().                              *)

\* Mutant: the due test ignores the record.
CheckAlways(p) ==
  /\ life[p] = "up" /\ step[p] = "idle"
  /\ step' = [step EXCEPT ![p] = "due"]
  /\ now' = [now EXCEPT ![p] = instant]
  /\ UNCHANGED <<instant, life, lastFire, appLock, history, mishaps>>

\* The next fire after the recorded one is due (without a record: 1970).
Check(p) ==
  /\ life[p] = "up" /\ step[p] = "idle"
  /\ lastFire[p] < instant
  /\ step' = [step EXCEPT ![p] = "due"]
  /\ now' = [now EXCEPT ![p] = instant]
  /\ UNCHANGED <<instant, life, lastFire, appLock, history, mishaps>>

\* Mutant: the return code of sp_getapplock is not looked at.
AcquireUnchecked(p) ==
  /\ step[p] = "due"
  /\ appLock' = IF appLock = NoOne THEN p ELSE appLock
  /\ step' = [step EXCEPT ![p] = "firing"]
  /\ UNCHANGED <<instant, life, now, lastFire, history, mishaps>>

\* sp_getapplock with timeout 0 gives the lock, or the check is given up.
AcquireLock(p) ==
  /\ step[p] = "due" /\ appLock = NoOne
  /\ appLock' = p
  /\ step' = [step EXCEPT ![p] = "firing"]
  /\ UNCHANGED <<instant, life, now, lastFire, history, mishaps>>

LockTaken(p) ==
  /\ step[p] = "due" /\ appLock # NoOne
  /\ step' = [step EXCEPT ![p] = "idle"]
  /\ UNCHANGED <<instant, life, now, lastFire, appLock, history, mishaps>>

\* fn() inserts the tick, on a connection that is not the lock's.
Insert(p) ==
  /\ step[p] = "firing"
  /\ ticks' = [ticks EXCEPT ![now[p]] = @ + 1]
  /\ fired' = [fired EXCEPT ![p][now[p]] = @ + 1]

InsertTick(p) ==
  /\ Insert(p)
  /\ step' = [step EXCEPT ![p] = "inserted"]
  /\ UNCHANGED <<instant, life, now, lastFire, appLock, unheard, lockBroke, mishaps>>

\* The insertion throws, having committed or not: nothing is recorded and the
\* rollback releases the lock.
Rollback(p) ==
  /\ step' = [step EXCEPT ![p] = "idle"]
  /\ appLock' = Released(p)
  /\ UNCHANGED <<instant, life, now, lockBroke>>

InsertReplyLost(p) ==
  /\ Insert(p)
  /\ Mishap
  /\ Rollback(p)
  /\ unheard' = [unheard EXCEPT ![p][now[p]] = @ + 1]
  /\ UNCHANGED lastFire

\* Mutant: the fire is recorded although its insertion failed.
InsertFailsRecorded(p) ==
  /\ step[p] = "firing"
  /\ Mishap
  /\ Rollback(p)
  /\ lastFire' = [lastFire EXCEPT ![p] = now[p]]
  /\ UNCHANGED <<ticks, fired, unheard>>

InsertFails(p) ==
  /\ step[p] = "firing"
  /\ Mishap
  /\ Rollback(p)
  /\ UNCHANGED <<lastFire, ticks, fired, unheard>>

\* Mutant: the next run is recorded in place of this one.
RecordNextRun(p) ==
  /\ step[p] = "inserted"
  /\ lastFire' = [lastFire EXCEPT ![p] = now[p] + 1]
  /\ step' = [step EXCEPT ![p] = "idle"]
  /\ appLock' = Released(p)
  /\ UNCHANGED <<instant, life, now, history, mishaps>>

\* The fire is recorded; commit releases the lock.
Record(p) ==
  /\ step[p] = "inserted"
  /\ lastFire' = [lastFire EXCEPT ![p] = now[p]]
  /\ step' = [step EXCEPT ![p] = "idle"]
  /\ appLock' = Released(p)
  /\ UNCHANGED <<instant, life, now, history, mishaps>>

\* The session of the transaction breaks while fn() is at work elsewhere.
LockLost(p) ==
  /\ appLock = p
  /\ Mishap
  /\ appLock' = NoOne
  /\ lockBroke' = TRUE
  /\ UNCHANGED <<instant, life, step, now, lastFire, ticks, fired, unheard>>

-----------------------------------------------------------------------------
LoopStep(p) ==
  \/ Check(p) \/ AcquireLock(p) \/ LockTaken(p) \/ InsertTick(p) \/ Record(p)

CronNext ==
  \/ CronInstant
  \/ \E p \in Instance :
       \/ Start(p) \/ Stop(p) \/ Exit(p) \/ Crash(p)
       \/ LoopStep(p) \/ InsertReplyLost(p) \/ InsertFails(p) \/ LockLost(p)

CronSpec == CronInit /\ [][CronNext]_vars

\* The loop of a process goes on, and a process that ended is started again.
CronFairness ==
  \A p \in Instance : WF_vars(LoopStep(p)) /\ WF_vars(Exit(p)) /\ WF_vars(Start(p))

FairCronSpec == CronSpec /\ CronFairness

-----------------------------------------------------------------------------
(* Properties.                                                              *)

\* One life of a process fires an instant once; only a fire it was not told of
\* is repeated.  The lock does not matter for this: it may break at any time.
OneFirePerLife ==
  \A p \in Instance, n \in Instants : fired[p][n] <= 1 + unheard[p][n]

\* Two fires under way never overlap unless the lock's session broke: every
\* path out of withSchedulerLock() releases the lock after fn() and not before,
\* and only the holder gives it back.
FiresSerialised ==
  ~lockBroke =>
    \A p, q \in Instance :
      (step[p] \in {"firing", "inserted"} /\ step[q] \in {"firing", "inserted"}) => p = q

\* Every instant gets a tick, or the next instant comes first: a failed
\* insertion, a lock found taken and a restart are all tried again.
EveryInstantTicks ==
  \A n \in Instants : instant = n ~> (ticks[n] > 0 \/ instant > n)

\* The inductive strengthening: what a life may still fire it has not fired
\* yet, but for the fires it was not told of.
Account(p) ==
  /\ lastFire[p] <= instant /\ now[p] <= instant
  /\ step[p] # "idle" => now[p] \in Instants /\ lastFire[p] < now[p]
  /\ \A n \in Instants :
       fired[p][n] <= unheard[p][n] +
         (IF n <= lastFire[p] \/ (step[p] = "inserted" /\ n = now[p]) THEN 1 ELSE 0)

Holding(p) == step[p] \in {"firing", "inserted"} => lockBroke \/ appLock = p

CronIInv == CronTypeOK /\ \A p \in Instance : Account(p) /\ Holding(p)

=============================================================================
