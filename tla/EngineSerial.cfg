CONSTANTS
  w1 = w1  w2 = w2  w3 = w3
  Workers <- ThreeWorkers
  First = w1
  NQ = 3  NP = 2
  Tasks <- ThreeQueries
  Kind <- AddAddSum
  Large <- FirstTwo
  Throws <- NoneThrows
  Free = Free
  NoTask = NoTask
SPECIFICATION EngineSpec
CHECK_DEADLOCK FALSE
INVARIANTS EngineTypeOK NoTaskOutlivesQuery StaticsBelongToTask DrainIsAlone
PROPERTIES ImplementsSerial
