SPECIFICATION Spec
CONSTANTS
  Values <- MCValues
  Buffers <- MCBuffers
  Bases <- MCBases
  RxDataSize = 16
  MaxSource = 4
  MaxSize = 9
CHECK_DEADLOCK FALSE
INVARIANTS
  TypeOK
  PayloadAligned
  NothingElse
