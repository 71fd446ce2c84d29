CONSTANTS
  Key = {k1, k2}
  a = a
  b = b
  EdorgId = {a, b}
  Label = {l1, l2}
  Tree <- OneTree
  NoOds = NoOds
  Root = Root
  Sync = {s1, s2}
  OneOdsSyncs = FALSE
  MaxId = 5
  MaxChanges = 2
  MaxMishaps = 0
SYMMETRY Symmetry
SPECIFICATION SyncSpec
INVARIANT SyncTypeOK
PROPERTIES
  SoloSyncMirrors
  OnlyAbsentRowsDeleted
  ChangesReported
CHECK_DEADLOCK FALSE
