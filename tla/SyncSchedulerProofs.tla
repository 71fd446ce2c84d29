-------------------------- MODULE SyncSchedulerProofs -------------------------
(***************************************************************************)
(* What holds of the scheduler for any environments, and any instances,    *)
(* jobs and failures of the queue underneath.                              *)
(***************************************************************************)
EXTENDS SyncScheduler, JobQueueProofs

\* The scheduler uses the queue by its own operations.
LEMMA SchedulerUsesQueue == [SchedulerNext]_allVars => [Next]_vars
<1> USE SchedulerAssumption
<1> SUFFICES ASSUME [SchedulerNext]_allVars PROVE Next \/ UNCHANGED vars
  OBVIOUS
<1>1. \A e \in Env : Scheduled(e) \in Request /\ Refresh(e) \in Request
  BY DEF SyncRequests
<1>2. Tick \in Request
  BY DEF SyncRequests
<1>3. CASE \E r \in runs, e \in Env : Offer(r, e)
  BY <1>1, <1>3 DEF Offer, Next
<1>4. CASE TickSent
  BY <1>2, <1>4 DEF TickSent, Next
<1>5. CASE RefreshSent
  BY <1>1, <1>5 DEF RefreshSent, Next
<1>6. CASE Executes
  BY <1>6 DEF Executes, Execute, Next
<1>7. CASE QueueStep
  BY <1>7 DEF QueueStep, Next
<1>8. CASE UNCHANGED allVars
  BY <1>8 DEF allVars
<1> QED BY <1>3, <1>4, <1>5, <1>6, <1>7, <1>8 DEF SchedulerNext

\* So everything proved of the queue holds of it under the scheduler.
THEOREM SchedulerImplementsQueue == SchedulerSpec => Spec
<1>1. SchedulerInit => Init
  BY DEF SchedulerInit
<1> QED BY <1>1, SchedulerUsesQueue, PTL DEF SchedulerSpec, Spec

-----------------------------------------------------------------------------
(* The fan-out.                                                             *)

Sent(e) == \E i \in JobId : request[i] = Scheduled(e)

\* What was offered was sent, and a tick's execution that resolved has offered
\* everything; hence a completed tick has.
FanOutInv ==
  /\ \A o \in offered : o.env \in Env /\ Sent(o.env)
  /\ \A r \in runs : (r.phase = "resolved" /\ request[r.job] = Tick) => \A e \in Env : Sent(e)
  /\ CompletedTickFannedOut

\* A row's request is written once.
LEMMA RequestsStay ==
  ASSUME IInv, [Next]_vars
  PROVE  \A i \in JobId : request[i] # NoRequest => request'[i] = request[i]
<1> SUFFICES ASSUME NEW i \in JobId, request[i] # NoRequest PROVE request'[i] = request[i]
  OBVIOUS
<1>1. CASE \E j \in JobId, q \in Request : Send(j, q)
  BY <1>1 DEF Send, Insert, IInv, TypeOK
<1>2. CASE UNCHANGED request
  BY <1>2
<1>3. CASE UNCHANGED row
  BY <1>3 DEF row
<1> QED BY <1>1, <1>2, <1>3
  DEF Next, vars, Start, Stop, Exit, Crash, Die, Claim, ClaimReplyLost, MarkClaimed, Execute,
      HandlerResolves, HandlerThrows, MoveTo, WriteCompleted, WriteRetry, WriteFailed, Settle,
      CompletedReplyLost, WriteRetryRefused, WriteLost, LeaseRunsOut, DelayElapses, Expires

\* So an environment that has a job keeps it.
LEMMA SentStays ==
  ASSUME IInv, [SchedulerNext]_allVars, NEW e \in Env, Sent(e)
  PROVE  Sent(e)'
<1> PICK i \in JobId : request[i] = Scheduled(e)
  BY DEF Sent
<1>1. Scheduled(e) \in Request /\ request[i] # NoRequest
  BY QueueAssumption, SchedulerAssumption DEF SyncRequests
<1>2. request'[i] = request[i]
  BY <1>1, RequestsStay, SchedulerUsesQueue
<1> QED BY <1>2 DEF Sent

\* The requests of the scheduler are told apart by channel and key.
LEMMA RequestsDiffer ==
  ASSUME NEW q \in Request
  PROVE  /\ q.name = SchedulerChannel => q = Tick
         /\ \A e \in Env : q.key = e => q = Scheduled(e)
         /\ q # NoRequest
<1>1. NoKey \notin Env /\ q # NoRequest
  BY QueueAssumption, SchedulerAssumption
<1>2. q = Tick \/ (\E e \in Env : q = Scheduled(e)) \/ (\E e \in Env : q = Refresh(e))
  BY SchedulerAssumption DEF SyncRequests
<1>3. CASE q = Tick
  BY <1>1, <1>3 DEF Tick
<1>4. ASSUME NEW e \in Env, q = Scheduled(e) PROVE q.name = EnvChannel /\ q.key = e
  BY <1>4 DEF Scheduled
<1>5. ASSUME NEW e \in Env, q = Refresh(e) PROVE q.name = EnvChannel /\ q.key = NoKey
  BY <1>5 DEF Refresh
<1>6. EnvChannel # SchedulerChannel
  BY DEF EnvChannel, SchedulerChannel
<1> QED BY <1>1, <1>2, <1>3, <1>4, <1>5, <1>6

\* An offer leaves its environment with a job, inserted or already pending.
LEMMA OfferSends ==
  ASSUME IInv, NEW r \in runs, NEW e \in Env, Offer(r, e)
  PROVE  Sent(e)'
<1>1. CASE \E j \in JobId : Send(j, Scheduled(e))
  BY <1>1 DEF Send, Insert, IInv, TypeOK, Sent
<1>2. CASE KeyPending(e) /\ UNCHANGED vars
  <2> PICK i \in JobId : state[i] \in Pending /\ request[i].key = e
    BY <1>2 DEF KeyPending
  <2>1. request[i] \in Request
    BY DEF IInv, TypeOK, Pending, Waiting
  <2>2. request[i] = Scheduled(e)
    BY <2>1, RequestsDiffer
  <2> QED BY <1>2, <2>2 DEF Sent, vars, row
<1> QED BY <1>1, <1>2 DEF Offer

\* What was offered was sent, after any step.
LEMMA OfferedWasSent ==
  ASSUME IInv, FanOutInv, SchedulerNext
  PROVE  \A o \in offered' : o.env \in Env /\ Sent(o.env)'
<1> SUFFICES ASSUME NEW o \in offered' PROVE o.env \in Env /\ Sent(o.env)'
  OBVIOUS
<1>1. ASSUME o \in offered PROVE o.env \in Env /\ Sent(o.env)'
  BY <1>1, SentStays DEF FanOutInv
<1>2. CASE offered' \subseteq offered
  BY <1>1, <1>2
<1>3. ASSUME NEW r \in runs, NEW e \in Env, Offer(r, e), o \notin offered
      PROVE  o.env \in Env /\ Sent(o.env)'
  BY <1>3, OfferSends DEF Offer
<1> QED BY <1>1, <1>2, <1>3 DEF SchedulerNext, TickSent, RefreshSent, Executes, Forget

\* Only a handler resolves an execution, and only a resolved execution
\* completes its row.
LEMMA OtherStepsResolveNothing ==
  ASSUME IInv,
         \/ \E j \in JobId, q \in Request : Send(j, q)
         \/ QueueStep
         \/ \E r \in runs : HandlerThrows(r) \/ WriteCompleted(r) \/ WriteRetry(r) \/ WriteFailed(r)
         \/ UNCHANGED vars
  PROVE  /\ \A x \in runs' : x.phase = "resolved" => x \in runs
         /\ \A j \in JobId : state'[j] = "completed" =>
              \/ state[j] = "completed"
              \/ \E r \in runs : r.job = j /\ r.phase = "resolved"
<1> USE DEF IInv, TypeOK
<1> DEFINE
      Phases == \A x \in runs' : x.phase = "resolved" => x \in runs
      Completions == \A j \in JobId : state'[j] = "completed" =>
                  state[j] = "completed" \/ \E r \in runs : r.job = j /\ r.phase = "resolved"
<1>1. ASSUME runs' \subseteq runs, state' = state PROVE Phases /\ Completions
  BY <1>1
<1>2. CASE \E j \in JobId, q \in Request : Send(j, q)
  BY <1>2 DEF Send, Insert
<1>3. CASE \E p \in Instance : Start(p)
  BY <1>3 DEF Start, Stale
<1>4. CASE \/ \E p \in Instance : Stop(p) \/ Exit(p) \/ Crash(p)
           \/ \E r \in runs : WriteRetryRefused(r) \/ WriteLost(r)
           \/ \E j \in JobId : LeaseRunsOut(j) \/ DelayElapses(j) \/ Expires(j)
           \/ UNCHANGED vars
  BY <1>1, <1>4 DEF Stop, Exit, Crash, Die, WriteRetryRefused, WriteLost, LeaseRunsOut,
                    DelayElapses, Expires, vars, row
<1>5. CASE \E p \in Instance, S \in SUBSET Claimable : Claim(p, S) \/ ClaimReplyLost(p, S)
  <2> PICK p \in Instance, S \in SUBSET Claimable : Claim(p, S) \/ ClaimReplyLost(p, S)
    BY <1>5
  <2>1. \A j \in S : NewRun(p, j).phase # "resolved"
    BY DEF NewRun
  <2>2. Phases
    BY <2>1 DEF Claim, ClaimReplyLost
  <2>3. Completions
    BY DEF Claim, ClaimReplyLost, MarkClaimed
  <2> QED BY <2>2, <2>3
<1>6. CASE \E r \in runs : HandlerThrows(r)
  BY <1>6 DEF HandlerThrows, MoveTo, Rephased, Run, row
<1>7. CASE \E r \in runs : WriteCompleted(r) \/ WriteRetry(r) \/ WriteFailed(r)
  BY <1>7 DEF WriteCompleted, WriteRetry, WriteFailed, Settle
<1>8. CASE \E r \in runs : CompletedReplyLost(r)
  <2> PICK r \in runs : CompletedReplyLost(r)
    BY <1>8
  <2>1. [r EXCEPT !.phase = "threw"].phase = "threw"
    BY DEF Run
  <2> QED BY <2>1 DEF CompletedReplyLost, Rephased
<1> QED BY <1>2, <1>3, <1>4, <1>5, <1>6, <1>7, <1>8 DEF QueueStep

\* A handler resolves for a tick when everything was offered.
LEMMA ResolvingTickSent ==
  ASSUME IInv, FanOutInv, NEW r \in runs,
         HandlerResolves(r), Ticking(r) => FannedOut(r)
  PROVE  /\ \A x \in runs' : (x.phase = "resolved" /\ request[x.job] = Tick) =>
              \A e \in Env : Sent(e)
         /\ UNCHANGED <<request, state>>
<1> USE DEF HandlerResolves, MoveTo, row
<1>1. request[r.job] = Tick => \A e \in Env : Sent(e)
  BY DEF Ticking, Tick, FannedOut, OfferedBy, FanOutInv
<1>2. [r EXCEPT !.phase = "resolved"].job = r.job
  BY DEF IInv, TypeOK, Run
<1> QED BY <1>1, <1>2 DEF Rephased, FanOutInv

\* The scheduler keeps its invariant.
LEMMA FanOutPreserved == IInv /\ FanOutInv /\ [SchedulerNext]_allVars => FanOutInv'
<1> SUFFICES ASSUME IInv, FanOutInv, [SchedulerNext]_allVars PROVE FanOutInv'
  OBVIOUS
<1>1. \A e \in Env : Sent(e) => Sent(e)'
  BY SentStays
<1>2. ASSUME NEW r \in runs, request'[r.job] = Tick PROVE request[r.job] = Tick
  BY <1>2, RequestsStay, SchedulerUsesQueue DEF IInv, TypeOK, RunsNamed, Run
<1>3. ASSUME NEW j \in JobId, request'[j] = Tick, state[j] = "completed" PROVE request[j] = Tick
  BY <1>3, RequestsStay, SchedulerUsesQueue DEF IInv, TypeOK
<1>4. \A o \in offered' : o.env \in Env /\ Sent(o.env)'
  BY OfferedWasSent DEF allVars, FanOutInv, vars, row, Sent
<1> DEFINE
      ResolvedSent == \A x \in runs' :
        (x.phase = "resolved" /\ request'[x.job] = Tick) => \A e \in Env : Sent(e)
      CompletedSent == \A j \in JobId :
        (request'[j] = Tick /\ state'[j] = "completed") => \A e \in Env : Sent(e)
<1>5. CASE \E r \in runs : HandlerResolves(r) /\ (Ticking(r) => FannedOut(r))
  <2>1. ResolvedSent /\ UNCHANGED <<request, state>>
    BY <1>5, ResolvingTickSent
  <2>2. \A x \in runs' : (x.phase = "resolved" /\ request'[x.job] = Tick) =>
          \A e \in Env : Sent(e)'
    BY <2>1, <1>1
  <2>3. CompletedTickFannedOut'
    BY <2>1 DEF FanOutInv, CompletedTickFannedOut
  <2> QED BY <2>2, <2>3, <1>4 DEF FanOutInv
<1>6. CASE \/ \E j \in JobId, q \in Request : Send(j, q)
           \/ QueueStep
           \/ \E r \in runs : HandlerThrows(r) \/ WriteCompleted(r) \/ WriteRetry(r)
                                \/ WriteFailed(r)
           \/ UNCHANGED vars
  <2>1. ResolvedSent
    BY <1>2, <1>6, OtherStepsResolveNothing DEF FanOutInv
  <2>2. CompletedSent
    BY <1>2, <1>3, <1>6, OtherStepsResolveNothing
       DEF FanOutInv, CompletedTickFannedOut, Sent
  <2> QED BY <2>1, <2>2, <1>1, <1>4 DEF FanOutInv, CompletedTickFannedOut, Sent
<1>7. \/ \E j \in JobId, q \in Request : Send(j, q)
      \/ QueueStep \/ Executes \/ UNCHANGED vars
  <2>1. Tick \in Request /\ \A e \in Env : Scheduled(e) \in Request /\ Refresh(e) \in Request
    BY SchedulerAssumption DEF SyncRequests
  <2> QED BY <2>1 DEF SchedulerNext, Offer, TickSent, RefreshSent, allVars
<1> QED BY <1>5, <1>6, <1>7 DEF Executes

\* A completed tick has fanned out to every environment.
THEOREM TicksFanOut == SchedulerSpec => []CompletedTickFannedOut
<1>1. SchedulerInit => FanOutInv
  BY DEF SchedulerInit, Init, FanOutInv, CompletedTickFannedOut
<1>2. SchedulerSpec => []FanOutInv
  BY <1>1, FanOutPreserved, SchedulerImplementsQueue, Invariance, PTL DEF SchedulerSpec
<1>3. FanOutInv => CompletedTickFannedOut
  BY DEF FanOutInv
<1> QED BY <1>2, <1>3, PTL

\* What is remembered as offered was offered by an execution that still runs.
THEOREM SchedulerTyped == SchedulerSpec => []SchedulerTypeOK
<1> DEFINE OfferedOK ==
      /\ offered \subseteq [job : JobId, nth : Nat, env : Env]
      /\ \A o \in offered : \E r \in runs : r.job = o.job /\ r.nth = o.nth
<1>1. SchedulerInit => OfferedOK
  BY DEF SchedulerInit
<1>2. ASSUME IInv, OfferedOK, [SchedulerNext]_allVars PROVE OfferedOK'
  <2>1. CASE \E r \in runs, e \in Env : Offer(r, e)
    <3>1. PICK r \in runs, e \in Env : Offer(r, e)
      BY <2>1
    <3>2. UNCHANGED runs
      BY <3>1 DEF Offer, Send, Insert, vars
    <3>3. r.job \in JobId /\ r.nth \in Nat
      BY <1>2 DEF IInv, TypeOK, Run
    <3>4. offered' = offered \cup {[job |-> r.job, nth |-> r.nth, env |-> e]}
      BY <3>1 DEF Offer
    <3> QED BY <1>2, <3>2, <3>3, <3>4
  <2>2. CASE TickSent \/ RefreshSent \/ UNCHANGED allVars
    BY <1>2, <2>2 DEF TickSent, RefreshSent, Send, Insert, allVars, vars
  <2>3. CASE Forget
    BY <1>2, <2>3 DEF Forget
  <2> QED BY <1>2, <2>1, <2>2, <2>3 DEF SchedulerNext, Executes
<1>3. SchedulerSpec => []OfferedOK
  <2> HIDE DEF OfferedOK
  <2> QED BY <1>1, <1>2, SchedulerImplementsQueue, Invariance, PTL DEF SchedulerSpec
<1>4. IInv /\ OfferedOK => SchedulerTypeOK
  BY DEF IInv, SchedulerTypeOK
<1> QED BY <1>3, <1>4, SchedulerImplementsQueue, Invariance, PTL

=============================================================================
