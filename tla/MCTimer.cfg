CONSTANT MaxCalls = 3
SPECIFICATION FairSpec
PROPERTY InitialisedDestroyEnds
PROPERTY RestartFires
PROPERTY ImplementsOneShot
CHECK_DEADLOCK FALSE
