\* Ctrl (29), Alt (56), the extended (224) or keypad Delete key (83)
\* come in beside the mouse and a serial byte.
SPECIFICATION FairSpec
CONSTANTS
  CONSBUFSIZE = 3
  SerialBytes = {65}
  KbdBytes = {29, 56, 83, 224}
  MouseBytes = {1}
  MaxInput = 5
INVARIANTS
  TypeOK
  DataIsThere
  InOrder
PROPERTIES
  QueueSpec
  KeyboardIsReadAlone
  GetcharReturns
