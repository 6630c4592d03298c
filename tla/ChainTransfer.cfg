SPECIFICATION Spec
CONSTANTS
  Base = 16
  U16 = 1
  U32 = 2
  U64 = 2
  AddrSize = 1
  RegisterPadding = 1
  COMMAND_PREFIX <- MCPrefix
  KeyLen = 3
  SigLen = 2
  HashLen = 1
  Chains <- MCChains
  MallocFails = TRUE
INVARIANTS
  TypeOK
  WholeChainArrives
  AcceptedChainIsSent
  MemoryIsReturned
CHECK_DEADLOCK FALSE
