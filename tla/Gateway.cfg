SPECIFICATION FairSpec
CONSTANTS
  NULL = NULL
  Junk = Junk
  NoTemperature = NoTemperature
  Other = Other
  t1 = t1
  t2 = t2
  Programs <- GatewayPrograms
  Descriptors <- GatewayDescriptors
  Temperatures <- TwoTemperatures
  MaxInputs = 2
INVARIANTS
  TypeOK
  StaysWatched
  FreedAfterTheEnd
  EveryMessageHeard
PROPERTIES
  EndIsSeen
CHECK_DEADLOCK FALSE
