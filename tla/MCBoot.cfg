CONSTANTS
  w1 = w1
  w2 = w2
  router = router
  Size = 2
  NumTokenizers = 1
  MayCrash = TRUE
  GroupSize = 2
  Memory = {8, 10, 14}
  Weights = 4
  PageCost = 1
  Giga = 2
  Percent = 75
  Override = 0
  Disturbances = 1
  WorkerList <- TwoWorkers
  TheRouter = router
  MaxWait = 2
SPECIFICATION MCSpec
CHECK_DEADLOCK FALSE
INVARIANTS
  ServesOnlyWhenReady
  OneCreator
  PagesAgree
  EveryChildTold
  RaiseTogether
PROPERTIES
  StartsUp
