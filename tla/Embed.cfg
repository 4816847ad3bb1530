SPECIFICATION FairSpec
CONSTANTS
  Legs = 3
  Inputs = 3
  MaxRetries = 3
  NoResult = NoResult
INVARIANTS
  TypeOK
  FailureNamesEveryLeg
  VectorsAligned
PROPERTIES
  IsFallback
  DoneReturns
CHECK_DEADLOCK FALSE
