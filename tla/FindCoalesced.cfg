SPECIFICATION Spec
CONSTANTS
  Base = 8
  Sent <- Retained
  InBufSize = 20
  PacketBufSize = 14
  ReadSize = 13
  Coalesced = TRUE
  SplitHeaders = 0
INVARIANTS
  FramesInOrder
CHECK_DEADLOCK FALSE
