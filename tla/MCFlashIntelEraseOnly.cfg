SPECIFICATION Spec
CONSTANTS
  Size = 8
  BlockStarts <- MCBlockStarts
  Bits <- MCBits
  Contents <- MCContents
  Chunks <- MCChunks
  MaxMode = 4
  ParamEnd = 4
  ParamWords = 2
  MainWords = 4
  BufferWords = 2
  Lock0 = 0
  Lock1 = 5
  RegWords = 2
  MoreWords = 2
  MaxJobs = 2
INVARIANT
  ReadableWhenIdle
