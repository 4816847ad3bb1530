SPECIFICATION FairCall
CONSTANTS
  Options <- MC_CallOptions
  Chunk <- MC_FewChunks
  MaxRetries = 2
  MaxChunk = 2
  NoResult = NoResult
INVARIANT
  ForwardedIsAnswer
PROPERTIES
  CallEnds
  CloseFrees
  BudgetUnpins
CHECK_DEADLOCK FALSE
