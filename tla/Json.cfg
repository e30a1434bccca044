SPECIFICATION Spec
CONSTANTS
  MaxItems = 4
  Names = {1}
  Values <- JsonValues
  Codes <- CodeLimits
  Prebuffers = {1, 2, 5}
  Comment <- Comments
INVARIANTS
  TypeOK
  TextSurvives
PROPERTIES
  ImplementsForest
CHECK_DEADLOCK FALSE
