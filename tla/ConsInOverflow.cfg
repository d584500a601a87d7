SPECIFICATION Spec
CONSTANTS
  CONSBUFSIZE = 3
  SerialBytes = {65}
  KbdBytes = {}
  MouseBytes = {}
  MaxInput = 4
INVARIANT
  ZeroMeansNoneWaiting
