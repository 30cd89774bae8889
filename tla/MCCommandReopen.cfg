CONSTANTS
  Requests = {"count"}
  MaxCommands = 4
SPECIFICATION FairSpec
CHECK_DEADLOCK FALSE
INVARIANT OpenInventoryKeepsRunning
