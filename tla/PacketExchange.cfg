SPECIFICATION Spec
CONSTANTS
  NULL = NULL
  BufLen = 132
  Conversations <- AllConversations
  Tails <- AllTails
INVARIANTS
  TypeOK
  UnderstoodAsMeant
  ReservesEnough
  MatchIsByLevel
PROPERTY
  PacketsAsSent
CHECK_DEADLOCK FALSE
