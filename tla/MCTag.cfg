CONSTANTS
  Tags = {a, b}
  Attempts = 2
  MaxPolls = 2
  MaxFaults = 1
SPECIFICATION FairSpec
CHECK_DEADLOCK FALSE
INVARIANT AccumulatedIsFound
INVARIANT PollsDoNotMix
INVARIANT TestCountsPolls
PROPERTY PollEnds
