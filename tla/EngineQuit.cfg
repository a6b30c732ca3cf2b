CONSTANTS
  w1 = w1  w2 = w2  w3 = w3
  Workers <- ThreeWorkers
  First = w1
  NQ = 2  NP = 2
  Tasks <- TwoQueries
  Kind <- AddAdd
  Large <- FirstTwo
  Throws <- NoneThrows
  Free = Free
  NoTask = NoTask
SPECIFICATION EngineSpec
CHECK_DEADLOCK FALSE
PROPERTIES QuitReturns
