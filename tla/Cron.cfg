CONSTANTS
  Instance = {p1, p2}
  NoOne = NoOne
  MaxInstants = 3
  MaxMishaps = 2
SPECIFICATION FairCronSpec
INVARIANTS
  CronTypeOK
  OneFirePerLife
  FiresSerialised
PROPERTY EveryInstantTicks
CHECK_DEADLOCK FALSE
