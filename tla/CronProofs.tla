------------------------------ MODULE CronProofs ------------------------------
(***************************************************************************)
(* What holds of the cron for any number of instances, instants and        *)
(* failures.  The invariant is an account per process, so it needs no      *)
(* counting over processes.                                                *)
(***************************************************************************)
EXTENDS Cron, TLAPS

USE CronAssumption DEF history

\* All that the proofs need to know of the instants.
LEMMA InstantsArePositive ==
  /\ 1 \in Instants
  /\ \A n \in Instants : n \in Nat /\ 1 <= n
  /\ Never \in [Instants -> Nat]
  /\ \A n \in Instants : Never[n] = 0
  BY DEF Instants, Never

USE InstantsArePositive

\* Initially nothing was fired.
LEMMA CronInitEstablishes == CronInit => CronIInv
<1> SUFFICES ASSUME CronInit PROVE CronIInv
  OBVIOUS
<1> USE DEF CronInit
<1>1. CronTypeOK
  BY DEF CronTypeOK
<1>2. ASSUME NEW p \in Instance PROVE Account(p) /\ Holding(p)
  BY <1>2 DEF Account, Holding
<1> QED BY <1>1, <1>2 DEF CronIInv

\* The clock: nothing of a process refers to the instant to come.
LEMMA CronInstantPreserves == CronIInv /\ CronInstant => CronIInv'
<1> SUFFICES ASSUME CronIInv, CronInstant PROVE CronIInv'
  OBVIOUS
<1>1. instant' \in Instants /\ instant \in Nat /\ instant' = instant + 1
  BY DEF CronIInv, CronTypeOK, CronInstant, Instants
<1>2. CronTypeOK'
  BY <1>1 DEF CronIInv, CronTypeOK, CronInstant
<1>3. ASSUME NEW p \in Instance PROVE Account(p)' /\ Holding(p)'
  <2>1. Account(p) /\ Holding(p) /\ UNCHANGED <<step, now, lastFire, appLock, history>>
    BY DEF CronIInv, CronInstant
  <2>2. lastFire[p] \in Nat /\ now[p] \in Nat
    BY DEF CronIInv, CronTypeOK
  <2>3. lastFire'[p] <= instant' /\ now'[p] <= instant'
    BY <1>1, <2>1, <2>2 DEF Account
  <2> QED BY <2>1, <2>3 DEF Account, Holding
<1> QED BY <1>2, <1>3 DEF CronIInv

\* A life that begins or goes on leaves every account as it is.
LEMMA LifePreserves ==
  ASSUME CronIInv, NEW p \in Instance, Start(p) \/ Stop(p)
  PROVE  CronIInv'
<1>1. CronTypeOK'
  <2>1. CASE Start(p)
    BY <2>1 DEF CronIInv, CronTypeOK, Start
  <2>2. CASE Stop(p)
    BY <2>2 DEF CronIInv, CronTypeOK, Stop, Mishap
  <2> QED BY <2>1, <2>2
<1>2. UNCHANGED <<instant, step, now, lastFire, appLock, history>>
  BY DEF Start, Stop
<1>3. ASSUME NEW q \in Instance PROVE Account(q)' /\ Holding(q)'
  BY <1>2, <1>3 DEF CronIInv, Account, Holding
<1> QED BY <1>1, <1>3 DEF CronIInv

\* A process that dies opens a new account; the lock it held is free.
LEMMA DeathPreserves ==
  ASSUME CronIInv, NEW p \in Instance, Exit(p) \/ Crash(p)
  PROVE  CronIInv'
<1> USE DEF CronIInv, Die, Released
<1>1. Die(p) /\ mishaps' \in Nat
  BY DEF CronTypeOK, Exit, Crash, Mishap
<1>2. CronTypeOK'
  BY <1>1 DEF CronTypeOK
<1>3. Account(p)' /\ Holding(p)'
  BY <1>1 DEF CronTypeOK, Account, Holding
<1>4. ASSUME NEW q \in Instance, q # p PROVE Account(q)' /\ Holding(q)'
  BY <1>1, <1>4 DEF CronTypeOK, Account, Holding
<1> QED BY <1>2, <1>3, <1>4

\* The due test and the lock: an instant is due only beyond the record.
LEMMA DuePreserves ==
  ASSUME CronIInv, NEW p \in Instance, Check(p) \/ AcquireLock(p) \/ LockTaken(p)
  PROVE  CronIInv'
<1> USE DEF CronIInv
<1>1. CronTypeOK'
  <2>1. CASE Check(p)
    BY <2>1 DEF CronTypeOK, Check
  <2>2. CASE AcquireLock(p)
    BY <2>2 DEF CronTypeOK, AcquireLock
  <2>3. CASE LockTaken(p)
    BY <2>3 DEF CronTypeOK, LockTaken
  <2> QED BY <2>1, <2>2, <2>3
<1> USE DEF Check, AcquireLock, LockTaken
<1>2. ASSUME NEW q \in Instance PROVE Account(q)' /\ Holding(q)'
  <2>1. CASE q = p
    BY <2>1 DEF CronTypeOK, Account, Holding
  <2>2. CASE q # p
    BY <2>2 DEF CronTypeOK, Account, Holding
  <2> QED BY <2>1, <2>2
<1> QED BY <1>1, <1>2

\* The insertion adds one tick to the instant of its process.
LEMMA InsertCounts ==
  ASSUME CronIInv, NEW p \in Instance, Insert(p)
  PROVE  /\ now[p] \in Instants
         /\ ticks' \in [Instants -> Nat]
         /\ fired' \in [Instance -> [Instants -> Nat]]
         /\ \A q \in Instance, n \in Instants :
              fired'[q][n] = fired[q][n] + (IF q = p /\ n = now[p] THEN 1 ELSE 0)
<1> USE DEF CronIInv, Insert
<1>1. now[p] \in Instants
  BY DEF CronTypeOK, Account
<1>2. ticks' \in [Instants -> Nat]
  BY <1>1 DEF CronTypeOK
<1> DEFINE more == [fired[p] EXCEPT ![now[p]] = @ + 1]
<1>3. more \in [Instants -> Nat] /\ fired' = [fired EXCEPT ![p] = more]
  BY <1>1 DEF CronTypeOK
<1>4. fired' \in [Instance -> [Instants -> Nat]]
  BY <1>3 DEF CronTypeOK
<1>5. ASSUME NEW q \in Instance, NEW n \in Instants
      PROVE  fired'[q][n] = fired[q][n] + (IF q = p /\ n = now[p] THEN 1 ELSE 0)
  BY <1>1, <1>3, <1>5 DEF CronTypeOK
<1> QED BY <1>1, <1>2, <1>4, <1>5

\* An insertion that is answered: the fire under way accounts for it.
LEMMA InsertTickPreserves ==
  ASSUME CronIInv, NEW p \in Instance, InsertTick(p)
  PROVE  CronIInv'
<1> USE DEF CronIInv, InsertTick
<1>1. CronTypeOK'
  BY InsertCounts DEF CronTypeOK
<1>2. Account(p)' /\ Holding(p)'
  BY InsertCounts DEF CronTypeOK, Account, Holding, Insert
<1>3. ASSUME NEW q \in Instance, q # p PROVE Account(q)' /\ Holding(q)'
  BY <1>3, InsertCounts DEF CronTypeOK, Account, Holding
<1> QED BY <1>1, <1>2, <1>3

\* An insertion that is not: the process was not told of the tick.
LEMMA InsertReplyLostPreserves ==
  ASSUME CronIInv, NEW p \in Instance, InsertReplyLost(p)
  PROVE  CronIInv'
<1> USE DEF CronIInv, InsertReplyLost, Rollback, Released, Mishap
<1> DEFINE more == [unheard[p] EXCEPT ![now[p]] = @ + 1]
<1>1. more \in [Instants -> Nat] /\ unheard' = [unheard EXCEPT ![p] = more]
  BY InsertCounts DEF CronTypeOK
<1>2. CronTypeOK'
  BY <1>1, InsertCounts DEF CronTypeOK
<1>3. Account(p)' /\ Holding(p)'
  <2>1. step'[p] = "idle" /\ UNCHANGED <<instant, now, lastFire>>
    BY DEF CronTypeOK
  <2>2. ASSUME NEW n \in Instants
        PROVE  /\ unheard'[p][n] = unheard[p][n] + (IF n = now[p] THEN 1 ELSE 0)
               /\ fired'[p][n] = fired[p][n] + (IF n = now[p] THEN 1 ELSE 0)
    BY <1>1, <2>2, InsertCounts DEF CronTypeOK
  <2>3. ASSUME NEW n \in Instants
        PROVE  fired[p][n] <= unheard[p][n] + (IF n <= lastFire[p] THEN 1 ELSE 0)
    BY <2>3 DEF CronTypeOK, Account, Insert
  <2>4. ASSUME NEW n \in Instants
        PROVE  fired'[p][n] <= unheard'[p][n] + (IF n <= lastFire[p] THEN 1 ELSE 0)
    BY <2>2, <2>3, <2>4 DEF CronTypeOK
  <2> QED BY <2>1, <2>4 DEF Account, Holding
<1>4. ASSUME NEW q \in Instance, q # p PROVE Account(q)' /\ Holding(q)'
  BY <1>1, <1>4, InsertCounts DEF CronTypeOK, Account, Holding
<1> QED BY <1>2, <1>3, <1>4

\* An insertion that failed adds nothing.
LEMMA InsertFailsPreserves ==
  ASSUME CronIInv, NEW p \in Instance, InsertFails(p)
  PROVE  CronIInv'
<1> USE DEF CronIInv, InsertFails, Rollback, Released, Mishap
<1>1. CronTypeOK'
  BY DEF CronTypeOK
<1>2. Account(p)' /\ Holding(p)'
  BY DEF CronTypeOK, Account, Holding
<1>3. ASSUME NEW q \in Instance, q # p PROVE Account(q)' /\ Holding(q)'
  BY <1>3 DEF CronTypeOK, Account, Holding
<1> QED BY <1>1, <1>2, <1>3

\* The record takes over the fire under way.
LEMMA RecordPreserves ==
  ASSUME CronIInv, NEW p \in Instance, Record(p)
  PROVE  CronIInv'
<1> USE DEF CronIInv, Record, Released
<1>1. CronTypeOK'
  BY DEF CronTypeOK
<1>2. Account(p)' /\ Holding(p)'
  <2>1. step'[p] = "idle" /\ lastFire'[p] = now[p] /\ UNCHANGED <<instant, now, history>>
    BY DEF CronTypeOK
  <2>2. now[p] \in Instants /\ lastFire[p] < now[p] /\ now[p] <= instant
    BY DEF Account
  <2>3. ASSUME NEW n \in Instants
        PROVE  fired[p][n] <= unheard[p][n] + (IF n <= now[p] THEN 1 ELSE 0)
    BY <2>2, <2>3 DEF CronTypeOK, Account
  <2> QED BY <2>1, <2>2, <2>3 DEF Account, Holding
<1>3. ASSUME NEW q \in Instance, q # p PROVE Account(q)' /\ Holding(q)'
  BY <1>3 DEF CronTypeOK, Account, Holding
<1> QED BY <1>1, <1>2, <1>3

\* A broken lock is remembered as broken.
LEMMA LockLostPreserves ==
  ASSUME CronIInv, NEW p \in Instance, LockLost(p)
  PROVE  CronIInv'
  BY DEF CronIInv, CronTypeOK, Account, Holding, LockLost, Mishap

\* Every step of the cron keeps the accounts.
LEMMA CronNextPreserves == CronIInv /\ [CronNext]_vars => CronIInv'
<1> SUFFICES ASSUME CronIInv, [CronNext]_vars PROVE CronIInv'
  OBVIOUS
<1>1. CASE CronInstant
  BY <1>1, CronInstantPreserves
<1>2. ASSUME NEW p \in Instance, Start(p) \/ Stop(p) PROVE CronIInv'
  BY <1>2, LifePreserves
<1>3. ASSUME NEW p \in Instance, Exit(p) \/ Crash(p) PROVE CronIInv'
  BY <1>3, DeathPreserves
<1>4. ASSUME NEW p \in Instance, LoopStep(p) PROVE CronIInv'
  BY <1>4, DuePreserves, InsertTickPreserves, RecordPreserves DEF LoopStep
<1>5. ASSUME NEW p \in Instance, InsertReplyLost(p) \/ InsertFails(p) PROVE CronIInv'
  BY <1>5, InsertReplyLostPreserves, InsertFailsPreserves
<1>6. ASSUME NEW p \in Instance, LockLost(p) PROVE CronIInv'
  BY <1>6, LockLostPreserves
<1>7. CASE UNCHANGED vars
  BY <1>7 DEF vars, CronIInv, CronTypeOK, Account, Holding
<1> QED BY <1>1, <1>2, <1>3, <1>4, <1>5, <1>6, <1>7 DEF CronNext

\* The accounts hold in every behaviour of the cron.
THEOREM CronInvariance == CronSpec => []CronIInv
  BY CronInitEstablishes, CronNextPreserves, PTL DEF CronSpec

\* Every variable of the cron keeps its type.
THEOREM CronTypeCorrect == CronSpec => []CronTypeOK
  BY CronInvariance, PTL DEF CronIInv

\* A life fires an instant once, but for the fires it was not told of, even
\* when the lock breaks.
THEOREM FiresOnce == CronSpec => []OneFirePerLife
<1>1. CronIInv => OneFirePerLife
  BY DEF CronIInv, CronTypeOK, Account, OneFirePerLife
<1> QED BY <1>1, CronInvariance, PTL

\* Fires under way are serialised for as long as no session broke: each of
\* them is the holder of the one lock.
THEOREM FiresExcludeEachOther == CronSpec => []FiresSerialised
<1>1. CronIInv => FiresSerialised
  BY DEF CronIInv, CronTypeOK, Holding, FiresSerialised
<1> QED BY <1>1, CronInvariance, PTL

=============================================================================
