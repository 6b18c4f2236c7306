SPECIFICATION Spec
CONSTANTS
  Size = 12
  BlockStarts <- MCBlockStarts
  Bits <- MCBits
  Contents <- MCContents
  Chunks <- MCChunks
  MaxMode = 4
  ParamEnd = 4
  ParamStart = 8
  ParamWords = 2
  MainWords = 4
  BufferWords = 2
  LockReg = 128
  OtpWords = 4
  ReadWords = 2
  MaxJobs = 2
INVARIANTS
  TypeOK
  ChipUnderstood
  Confined
  ReadableWhenIdle
  QueryAnswered
PROPERTIES
  ImplementsMemory
  EveryChunkEnds
