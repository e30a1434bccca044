SPECIFICATION FairSpec
CONSTANTS
  Calls <- GatewayCalls
  MsgTopic <- ThreeMessages
  MsgQoS <- ThreeQoS0
  Topics = 1
  MaxHandlers = 5
  ConnackCodes = {0, 5}
  KeepAlive = TRUE
  PromptApp = FALSE
  MaxAgain = 1
INVARIANTS
  TypeOK
  SubscribeJustified
  SendBufExclusive
  PingAccounting
  DeliveredWithoutGap
  EofClosesSession
PROPERTIES
  CallsReturn
  EofEndsLoop
  PublishedIsDelivered
CHECK_DEADLOCK FALSE
