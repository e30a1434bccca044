SPECIFICATION FairSpec
CONSTANTS
  Base = 8
  Sent <- GatewayPackets
  InBufSize = 20
  PacketBufSize = 14
  ReadSize = 13
  Coalesced = FALSE
  SplitHeaders = 1
INVARIANTS
  TypeOK
  BufferIsUnhandledBytes
PROPERTIES
  ImplementsChannel
  AllAreHandled
  OverlongStopsReading
CHECK_DEADLOCK FALSE
