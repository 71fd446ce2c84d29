CONSTANTS
  Instance = {p1}
  JobId = {j1, j2, j3}
  e1 = e1
  e2 = e2
  LambdaEnv <- JustE1
  ApiEnv <- JustE2
  NoEnv = NoEnv
  NoKey = NoKey
  NoRequest = NoRequest
  Key <- Env
  Queue <- Channels
  Worker <- Channels
  Request <- SyncRequests
  RetryLimit = 1
  ClaimLimit = 10
  MaxMishaps = 1
SPECIFICATION SchedulerSpec
SYMMETRY Symmetry
INVARIANTS
  SchedulerTypeOK
  CompletedTickFannedOut
CHECK_DEADLOCK FALSE
