CONSTANTS
  MaxCandidates = 2
  FailuresToRecover = 2
  FailuresToLost = 3
  MaxAttempts = 2
  MaxFailures = 2
  Moving = {"gate"}
SPECIFICATION NodesSpec
PROPERTIES
  CutStartIsPaused
