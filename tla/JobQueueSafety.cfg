CONSTANTS
  Instance = {p1, p2}
  JobId = {j1, j2}
  k1 = k1
  NoKey = NoKey
  NoRequest = NoRequest
  Key <- MCKey
  Queue <- MCQueue
  Worker <- MCWorker
  Request <- AllRequests
  RetryLimit = 1
  ClaimLimit = 2
  MaxMishaps = 1
SYMMETRY Symmetry
SPECIFICATION Spec
INVARIANTS
  TypeOK
  PendingKeysUnique
  OneExecutionUntilDoubt
  KeyedExecutionsExclusive
  WorkBudget
PROPERTIES
  OrphansOnlyByMishap
  RefinesLedger
CHECK_DEADLOCK FALSE
