CONSTANTS
  Instance = {p1, p2}
  JobId = {j1}
  k1 = k1
  NoKey = NoKey
  NoRequest = NoRequest
  Key <- MCKey
  Queue <- MCQueue
  Worker <- MCWorker
  Request <- AllRequests
  RetryLimit = 1
  ClaimLimit = 2
  MaxMishaps = 1
SPECIFICATION FairSpec
PROPERTY EveryJobSettles
CHECK_DEADLOCK FALSE
