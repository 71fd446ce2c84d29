SPECIFICATION EnvFairSpec
CONSTANTS
  n1 = n1  n2 = n2  u1 = u1  u2 = u2  s1 = s1  s2 = s2
  Tenant = {n1, n2}
  Default = Default
  Url = {u1, u2}
  NoUrl = NoUrl
  InitUrl = u1
  InitApis <- MCInitApis
  Sync = {s1, s2}
  Budgets <- MCBudgets
INVARIANTS
  EnvTypeOK
  CredentialsFitAddress
PROPERTIES
  FailuresRemoveNothing
  EventuallyMirrors
