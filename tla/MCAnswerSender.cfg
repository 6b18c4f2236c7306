SPECIFICATION Spec
CONSTANTS
  Answers <- MCAnswers
  MaxAnswers = 3
  PacketSize = 4
  TxDataSize = 32
CHECK_DEADLOCK FALSE
INVARIANTS
  TypeOK
  InOrder
  NothingLeftOpen
PROPERTIES
  NoOverwrite
  ImplementsChannel
  EveryAnswerHeard
