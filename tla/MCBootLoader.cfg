SPECIFICATION Spec
CONSTANTS
  SECTSIZE = 2
  HdrSects = 2
  ELFHDR = 4
  A20BIT = 16
  MemSize = 28
  Kernels <- MCKernels
  JunkHeaders <- MCJunkHeaders
INVARIANTS
  Loaded
  NothingElseWritten
PROPERTY
  Decides
CHECK_DEADLOCK FALSE
