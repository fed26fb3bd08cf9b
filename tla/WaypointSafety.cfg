CONSTANTS
  Tasks = {t1, t2}
  MaxLoops = 2
  Required = {"safety"}
  SerialGoals = TRUE
  NoChild = NoChild
SPECIFICATION Spec
SYMMETRY TaskSymmetry
INVARIANTS NoOrphanChain
CHECK_DEADLOCK FALSE
PROPERTIES SupervisesMotion
