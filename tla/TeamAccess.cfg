SPECIFICATION AccessFairSpec
CONSTANTS
  e1 = e1  t1 = t1  o1 = o1  d1 = d1  d2 = d2
  Env = {e1}
  Tenant = {t1}
  Ods = {o1}
  Edorg = {d1, d2}
  EnvOf <- MCEnvOf
  TenantOf <- MCTenantOf
  OdsOf <- MCOdsOf
  Root = Root
  All = All
  NoScope = NoScope
  Engine = {"mssql", "pgsql"}
  Instance = {i1}
  Load = {l1, l2}
  NoLoad = NoLoad
  reader = reader  full = full
  RoleName = {reader, full}
  InitRows <- MCInitRows
  InitRole <- MCInitRole
  InitTree <- MCInitTree
  RoleSets <- MCRoleSets
  Trees <- MCTrees
  MaxChanges <- MCMaxChanges
  MaxOutages <- MCMaxOutages
INVARIANTS
  AccessTypeOK
  ToldMeansReloaded
  NeverMoreThanOwned
  AsMuchAsOwned
  ThrowsForAReason
PROPERTY
  EventuallyCurrent
