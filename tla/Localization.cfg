CONSTANTS
  MaxCandidates = 2
  FailuresToRecover = 2
  FailuresToLost = 3
  MaxAttempts = 2
  MaxFailures = 2
  Moving = {"localization", "gate"}
SPECIFICATION NodesSpec
INVARIANTS
  AcceptedIsTracking AttemptsBounded ActiveIsKnown
PROPERTIES
  SearchEnds LossStopsNavigation ReadyStartsNavigation
