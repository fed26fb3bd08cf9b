CONSTANTS
  g1 = g1
  g2 = g2
  p1 = p1
  p2 = p2
  NoProcess = NoProcess
  Goals = {g1, g2}
  Processes = {p1, p2}
  Requests <- MCRequests
  r1 = r1
  e1 = e1
  c1 = c1
  c2 = c2
  NoChild = NoChild
  NoExperiment = NoExperiment
  Threads = {r1}
  Experiments = {e1}
  Children = {c1, c2}
  Managed = {"IDLE"}
  PageRequests <- MCPageRequests
  Others = {}
  Maps = {m1}
  NoMap = NoMap
  Polled = {"map"}
  Topics = {"localization"}
  Nodes = {"n"}
  Period = 1
  Timeout <- MCTimeout
  Answering = TRUE
  MaxForward = 10
  MaxReverse = 5
  MaxTurn = 4
  MaxTrack = 11
  LinearRise = 1
  LinearFall = 3
  TurnRise = 1
  TurnFall = 1
  MaxDt = 1
  RequireLocalization = TRUE
  StartupEnabled = FALSE
  Commands <- MCCommands
  SafetyPeriod = 1
  GuardPeriod = 1
  GuardTimeout = 2
  Delay = 1
  HardLinear = 2
  HardTurn = 1
  Moving = {"console"}
SPECIFICATION OperationsSpec
INVARIANT NoReplayInNavigation
