SPECIFICATION Spec
CONSTANTS
  Frames <- RefusedFrames
  MaxFrames = 2
  Window = 1
  Coalesce = FALSE
  PacketSize = 16
  DataArraySize = 32
  RxDataSize = 64
  RxDataAlign = 0
  CommandSize = 12
  MinBin = 8
  MaxBin = 40
INVARIANT
  RefusedNotExecuted
