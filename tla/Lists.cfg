SPECIFICATION Spec
CONSTANTS
  NULL = NULL
  h1 = h1
  e1 = e1
  e2 = e2
  e3 = e3
  Heads <- OneHead
  Elems <- ThreeElems
INVARIANTS
  LinkedBothWays
PROPERTIES
  ImplementsQueues
