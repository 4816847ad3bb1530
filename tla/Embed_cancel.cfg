SPECIFICATION FairSpec
CONSTANTS
  Legs = 2
  Inputs = 3
  MaxRetries = 3
  NoResult = NoResult
PROPERTY
  BackoffCancelEnds
CHECK_DEADLOCK FALSE
