SPECIFICATION KernelSpec
CONSTANTS
  BUFLEN = 6
  MAXARGS = 3
  Keys <- MCKeys
  Commands <- MCCommands
  Leftovers <- MCLeftovers
  Function <- MCFunction
  PGSIZE = 8
  NPTENTRIES = 32
  NPDENTRIES = 4
  KERNBASE = 512
  ULIM = 256
  entry_at = 528
  i386_init_at = 536
  pgdir_at = 576
  pgtable_at = 584
  bootstacktop = 768
  FNSIZE = 5
  buf_at = 592
  Beyond = 7
  MaxPanics = 2
INVARIANTS
  TypeOK
  Seen
  ArgsAreWords
  Fetches
  AtHome
  BacktraceTrue
  FirstPanicSaid
PROPERTIES
  Answered
  PanicReachesMonitor
  NoReturnFromPanic
