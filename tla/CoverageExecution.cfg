SPECIFICATION CoverageSpec
CONSTANTS
  Tasks = {t1, t2}
  Deadline = FALSE
  Paths = {p1, p2}
  NoPath = NoPath
  Connections = {1, 2}
  Verdicts <- MCVerdicts
  Costmaps <- MCCostmaps
  Timers = {w1, w2}
  Goals = {g1, g2}
  NoGoal = NoGoal
  AutoStart = TRUE
  Runs = {1, 2}
  MaxClock = 4
  Moving = {"execution", "repair", "panel", "teach"}
INVARIANTS KnownPathIsStopped ReportIsConfirmed FindingsAreOwn
  DrivenIsSupervised
PROPERTIES UnsafeStopsPath EveryTaskEnds RepairedIsWhole CheckingEnds
  SerialLossStopsPath
CONSTRAINT Claimed
CHECK_DEADLOCK FALSE
