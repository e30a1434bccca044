SPECIFICATION Spec
CONSTANTS
  Calls <- CallAgain
  MsgTopic <- MessageOfEach
  MsgQoS <- QoS0And1
  Topics = 2
  MaxHandlers = 2
  ConnackCodes = {0, 5}
  KeepAlive = TRUE
  PromptApp = TRUE
  MaxAgain = 0
INVARIANTS
  ConnectJustified
  DeliveredOnce
CHECK_DEADLOCK FALSE
