CONSTANTS
  Slots = {s1, s2, s3}
  None = None
  Counts = {1}
  Wrap = 4
SPECIFICATION FairSpec
PROPERTY CallReturns
