SPECIFICATION Spec
CONSTANTS
  Frames <- CoalescedFrames
  MaxFrames = 4
  Window = 4
  Coalesce = TRUE
  PacketSize = 16
  DataArraySize = 32
  RxDataSize = 64
  RxDataAlign = 0
  CommandSize = 12
  MinBin = 8
  MaxBin = 40
INVARIANT
  ExecutedAsSent
