SPECIFICATION FairSpec
CONSTANTS
  CRT_ROWS = 2
  CRT_COLS = 2
  INT_MAX = 127
  Kinds <- MCKinds
INVARIANTS
  TypeOK
  SerialText
  ParamsSpelled
PROPERTIES
  TerminalSpec
  PutReturns
