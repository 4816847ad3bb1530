SPECIFICATION Spec
CONSTANTS
  Options <- MC_Options
  Chunk <- MC_Chunk
  MaxRetries = 2
  MaxChunk = 2
  NoResult = NoResult
INVARIANTS
  TypeOK
  NoSplice
  
  NoTruncatedCallRuns
  
  BodiesClosed
PROPERTY
  IsFallback
CHECK_DEADLOCK FALSE
