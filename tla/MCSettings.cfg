CONSTANTS
  Width = 8
  HeadByte = 5
  Reader = 1
  SetPower = 2
  GetPower = 3
  SetRegion = 4
  GetRegion = 6
  Success = 1
  Fail = 2
  MaxFrequency = 6
  MaxPower = 4
  Unread = Unread
  Commands <- MCCommands
  Garbage <- MCGarbage
  Errors = {3}
  Configurations <- MCConfigurations
  MaxRequests = 3
SPECIFICATION SettingsSpec
CHECK_DEADLOCK FALSE
INVARIANT SettingsTypeOK
INVARIANT DeliversIntact
INVARIANT ConfiguredIsSet
INVARIANT NothingIsInvented
PROPERTY ReportIsCurrent
