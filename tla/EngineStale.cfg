CONSTANTS
  w1 = w1  w2 = w2  w3 = w3
  Workers <- ThreeWorkers
  First = w1
  NQ = 2  NP = 2
  Tasks <- TwoQueries
  Kind <- AddAdd
  Large <- FirstTwo
  Throws <- FirstThrows
  Free = Free
  NoTask = NoTask
SPECIFICATION EngineSafeSpec
CHECK_DEADLOCK FALSE
INVARIANTS StaticsBelongToTask
