CONSTANTS
  Requests = {"count", "test"}
  MaxCommands = 6
SPECIFICATION FairSpec
CHECK_DEADLOCK FALSE
INVARIANT PatientInventoryKeepsRunning
PROPERTY CommandReturns
PROPERTY ClosingIsReported
