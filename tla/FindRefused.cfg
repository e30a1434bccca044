SPECIFICATION Spec
CONSTANTS
  Calls <- GatewayCalls
  MsgTopic <- ThreeMessages
  MsgQoS <- ThreeQoS0
  Topics = 1
  MaxHandlers = 5
  ConnackCodes = {0}
  KeepAlive = TRUE
  PromptApp = TRUE
  MaxAgain = 0
INVARIANTS
  SubscribeGranted
CHECK_DEADLOCK FALSE
