CONSTANTS
  Key = {k1, k2}
  a = a
  b = b
  EdorgId = {a, b}
  Label = {l1}
  Tree <- AllTrees
  NoOds = NoOds
  Root = Root
  Sync = {s1}
  OneOdsSyncs = TRUE
  MaxId = 5
  MaxChanges = 3
  MaxMishaps = 1
SPECIFICATION SyncSpec
INVARIANT SyncTypeOK
PROPERTIES
  SoloSyncMirrors
  ChangesReported
  SameAgain
  
CHECK_DEADLOCK FALSE
