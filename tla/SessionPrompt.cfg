SPECIFICATION Spec
CONSTANTS
  Calls <- GatewayCalls
  MsgTopic <- TwoMessages
  MsgQoS <- QoS1And2
  Topics = 1
  MaxHandlers = 5
  ConnackCodes = {0, 5}
  KeepAlive = TRUE
  PromptApp = TRUE
  MaxAgain = 1
INVARIANTS
  SuccessMeansHandler
  IsConnectedIsTruth
  KeepaliveChain
  HandshakeToken
CHECK_DEADLOCK FALSE
