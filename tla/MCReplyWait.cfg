CONSTANTS
  RoundThreads = {inventory}
  SettingsThreads = {server}
  Nobody = nobody
  MaxWire = 2
SPECIFICATION FairSpec
INVARIANT CallbackFrameAlive
INVARIANT NoLostWakeup
PROPERTY TimedWaitEnds
