SPECIFICATION Spec
CONSTANTS
  TaskCall = {t1, t2}
  CronCall = {}
  Free = Free
  Capacity = 1
  BitmapBits = 2
  MaxLag = 0
  MaxReads = 1
INVARIANT OfferedSlotExists
CHECK_DEADLOCK FALSE
