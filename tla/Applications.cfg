SPECIFICATION ApplicationsSpec
CONSTANTS
  o1 = o1  o2 = o2  x = x  y = y
  Version = {"v2", "v3"}
  Ods = {o1, o2}
  Org = {x, y}
  InitEdorgs <- MCInitEdorgs
  Ask <- MCAsk
  AskStores <- MCAskStores
  Control <- MCControl
  Req = {q1, q2}
  MaxApps = 1
  MaxClients = 2
  Budgets <- MCBudgets
SYMMETRY Symmetry
INVARIANTS
  ApplicationsTypeOK
  LastCredentialStays
  RowsDescribeApplications
PROPERTIES
  GivenAsAsked
  ChangedUnderControl
CHECK_DEADLOCK FALSE
