SPECIFICATION FairSpec
CONSTANTS
    MaxSignals = 2
    MaxCommands = 1
    Writers = {"main", "net", "handler"}
    MaxQueue = 2
    MaxPrints = 6
INVARIANTS ZeroHasAReason QuietStopIsClean EndedIsWritten LossIsReported
PROPERTIES LostConnectionIsRetried SignalEndsProcess
CHECK_DEADLOCK FALSE
