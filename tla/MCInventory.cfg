CONSTANTS
  Slots = {s1, s2}
  None = None
  Counts = {0, 1, 3}
  Wrap = 4
SPECIFICATION FairSpec
INVARIANT ThreadsAreOwned
INVARIANT OneInventory
INVARIANT RunFlagIsTrue
INVARIANT StoppedMeansQuiet
PROPERTY PromptCallReturns
PROPERTY ImplementsInventory
