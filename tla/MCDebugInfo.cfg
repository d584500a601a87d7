SPECIFICATION DebugSpec
CONSTANTS
  NStabs = 8
  Types <- MCTypes
  ADDR_MAX = 6
  ULIM = 1
  Shapes <- MCShapes
INVARIANTS
  TypeOK
  ContainsUnlessNext
  RightPlace
PROPERTY
  Answered
CHECK_DEADLOCK FALSE
