CONSTANTS
  RoundThreads = {inv}
  SettingsThreads = {ws}
  Nobody = Nobody
  MaxWire = 2
SPECIFICATION FairSpec
PROPERTY EveryWaitEnds
