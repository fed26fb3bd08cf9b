CONSTANTS
  Tasks = {t1, t2}
  MaxLoops = 1
  Required = {"safety"}
  SerialGoals = FALSE
  NoChild = NoChild
SPECIFICATION FairSpec
PROPERTIES LossStopsChain
CHECK_DEADLOCK FALSE
