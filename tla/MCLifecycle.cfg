CONSTANTS
  MaxTasks = 1
SPECIFICATION FairSpec
CHECK_DEADLOCK FALSE
INVARIANTS
  TypeOK
  NoCircularWait
  ObjectsOutliveUse
  TimerWakesAtOnce
PROPERTIES
  QuitCompletes
