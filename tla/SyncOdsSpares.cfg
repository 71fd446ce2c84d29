CONSTANTS
  Key = {k1, k2}
  a = a
  b = b
  EdorgId = {a, b}
  Label = {l1}
  Tree <- OneTree
  NoOds = NoOds
  Root = Root
  Sync = {s1}
  OneOdsSyncs = TRUE
  MaxId = 5
  MaxChanges = 3
  MaxMishaps = 0
SPECIFICATION SyncSpec
PROPERTIES
  OnlyAbsentRowsDeleted
CHECK_DEADLOCK FALSE
