CONSTANTS
  Tasks = {t1, t2}
  MaxLoops = 1
  Required = {"safety", "localization"}
  SerialGoals = TRUE
  NoChild = NoChild
SPECIFICATION FairSpec
PROPERTIES LossStopsChain EveryTaskEnds
CHECK_DEADLOCK FALSE
