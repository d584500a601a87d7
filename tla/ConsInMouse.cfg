SPECIFICATION FairSpec
CONSTANTS
  CONSBUFSIZE = 3
  SerialBytes = {0, 65}
  KbdBytes = {30, 42, 170}
  MouseBytes = {1}
  MaxInput = 3
PROPERTIES
  KeyboardIsRead

