SPECIFICATION Spec
CONSTANTS
  Options <- MC_BudgetOptions
  Chunk <- MC_FewChunks
  MaxRetries = 2
  MaxChunk = 1
  NoResult = NoResult
INVARIANT
  ConnectionFailureAdvances
CHECK_DEADLOCK FALSE
