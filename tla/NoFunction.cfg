SPECIFICATION DebugSpec
CONSTANTS
  NStabs = 8
  Types <- MCTypes
  ADDR_MAX = 6
  ULIM = 1
  Shapes <- MCShapes
INVARIANT
  NamesFunction
CHECK_DEADLOCK FALSE
