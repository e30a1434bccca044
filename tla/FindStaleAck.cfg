SPECIFICATION Spec
CONSTANTS
  Calls <- TwoSubscriptions
  MsgTopic <- MessageOfEach
  MsgQoS <- QoS0And1
  Topics = 2
  MaxHandlers = 5
  ConnackCodes = {0}
  KeepAlive = TRUE
  PromptApp = TRUE
  MaxAgain = 0
INVARIANTS
  SubscribeJustified
CHECK_DEADLOCK FALSE
