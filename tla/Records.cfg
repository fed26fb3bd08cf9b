CONSTANTS
  v1 = v1
  v2 = v2
  Versions = {v1, v2}
  NoVersion = NoVersion
  Parent <- MCParent
  g1 = g1
  g2 = g2
  p1 = p1
  p2 = p2
  s1 = s1
  s2 = s2
  NoProcess = NoProcess
  NoSession = NoSession
  NoMap = NoMap
  NoGoal = NoGoal
  Goals = {g1, g2}
  Processes = {p1, p2}
  Sessions = {s1, s2}
  MapVersions = {v1}
  Requests = {}
  ConsoleRequests <- MCConsoleRequests
  Terminals = {s1, s2}
  Contents = {1, 2}
  Bags = {"b1"}
  MapNames = {p1, p2}
  Ids = {g1, g2}
  Editors = {"e"}
  Backups = 2
  MaxSaves = 3
  Pictures = {"i1", "i2", "i3"}
  Tasks = {"k1", "k2"}
  Limit = 2
  Moving = {"registry", "sessions", "teach", "groups", "history"}
SPECIFICATION RecordsSpec
INVARIANTS
  RecordsAgree ActivationRestores
  CaptureHasSession CandidateIsBuilt CandidateIsPure
  IndexMatches LastSavedIsKept HistoryIsTrue
CONSTRAINT Claimed
SYMMETRY Interchangeable
