SPECIFICATION Spec
CONSTANTS
  Frames <- MCFrames
  MaxFrames = 3
  Window = 2
  Coalesce = FALSE
  PacketSize = 16
  DataArraySize = 32
  RxDataSize = 64
  RxDataAlign = 0
  CommandSize = 12
  MinBin = 8
  MaxBin = 40
INVARIANTS
  TypeOK
  BuffersHold
  ReadsOnlyReceived
PROPERTIES
  ImplementsChannel
  EveryFrameAnswered
