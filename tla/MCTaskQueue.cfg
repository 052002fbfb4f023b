SPECIFICATION Spec
CONSTANTS
  MaxLag = 1
  TaskCall = {t1}
  CronCall = {k1, k2}
  Free = Free
  Capacity = 2
  BitmapBits = 2
  MaxReads = 2
INVARIANTS
  TypeOK
  QueuedIsPlaced
  LoserHasWinner
  SureIsRun
PROPERTIES
  EveryMonitorSettles
CHECK_DEADLOCK FALSE
