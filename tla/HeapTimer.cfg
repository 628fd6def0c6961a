SPECIFICATION HeapTimerSpec
CONSTANTS
  Ids <- FourIds
  Cyclic <- OnlyFirst
  Period <- OneAndTwo
  MaxDelay = 4
  MaxOverdue = 2
  StrayLarge = TRUE
INVARIANTS
  HeapTimerTypeOK
  HeapIsSound
  NoneOverdue
  SleepsTillFirst
PROPERTIES
  ImplementsTimers
CHECK_DEADLOCK FALSE
