CONSTANTS
  w1 = w1  w2 = w2  w3 = w3
  t1 = t1  t2 = t2  t3 = t3
  Workers <- ThreeWorkers
  First = w1
  Tasks <- ThreeTasks
  Free = Free
  NoTask = NoTask
SPECIFICATION Spec
CHECK_DEADLOCK FALSE
INVARIANTS TypeOK MutexHeld OnePlace NoTaskStranded QuietWhenGone
PROPERTIES FutureIsFinal EveryGetReturns OnlySleepersStay ImplementsExecutor
