SPECIFICATION FairSpec
CONSTANTS
  MaxLength = 6
  SendBufSize = 12
  Clock <- SomeTimes
  Timeout = 3000
INVARIANTS
  TypeOK
  SuccessIffWholePacket
  ReadsInsideSendBuf
PROPERTIES
  Answers
  ImplementsAtomicSend
CHECK_DEADLOCK FALSE
