SPECIFICATION Spec
CONSTANTS
  Size = 8
  BlockStarts <- MCBlockStarts
  Bits <- MCBits
  Contents <- MCContents
  Chunks <- MCChunks
  MaxMode = 2
  Plans <- MCPlans
  Phones <- MCPhones
  Value <- MCValue
  StackBytes = {0, 222}
  FLASH_START_ADDRESS = 268435456
  RamStart = 66912256
  USB_MAX_TX_DATA_SIZE = 86
  MinRead = 4
  ReadWords = 2
  MAX_READ_RESPONSE_SIZE = 64
  MaxFailures = 2
CHECK_DEADLOCK FALSE
INVARIANTS
  TypeOK
  EachChunkAtItsPlace
  SureSurvives
  VerifyFindsImage
  AnswersTrue
PROPERTY
  UploadEnds
