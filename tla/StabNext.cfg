SPECIFICATION Spec
CONSTANTS
  NStabs = 3
  Types = {36, 100}
  ADDR_MAX = 3
INVARIANT
  Contains
CHECK_DEADLOCK FALSE
