CONSTANTS
  Doors = {left, right}
  None = None
  OpenDelay = 3
  DeinitDelay = 10
  CloseDelay = 3
  StopDelay = 5
  MaxCommands = 3
  MaxAlarms = 1
SPECIFICATION CoolerSpec
CHECK_DEADLOCK FALSE
INVARIANT ActiveIsBounded
INVARIANT BothOpenOnlyForAlarm
INVARIANT AlarmFindsItsDoor
INVARIANT AtRestReported
PROPERTY OpenIsNotReported
PROPERTY ActiveEnds
