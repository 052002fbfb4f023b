SPECIFICATION Spec
CONSTANTS
  Call = {c1, c2}
  NoCall = NoCall
  Lengths = {2, 11}
  MaxAccounts = 2
  BytesPerAccount = 6
  ReallocBytes = 2
  EmbiggenPerTx = 2
  UploadBytes = 2
  ChunkSize = 2
  InitBytes = 2
INVARIANTS
  TypeOK
  PublishedIsComplete
  ResolvedIsPublished
  SingleWriter
  UploadFits
  ChunkBarrier
PROPERTIES
  ImplementsPublication
  NoFinalizeAfterFailure
  EveryCallSettles
CHECK_DEADLOCK FALSE
