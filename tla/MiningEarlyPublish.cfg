SPECIFICATION Spec
CONSTANTS
  k1 = k1
  kBad = kBad
  Key <- MCKey
  UnreadableKey <- MCUnreadableKey
  MinerKey = k1
  InitialChain <- MCInitialChain
  PublishedChains <- ValidChains
  HashZeros <- MCHashZeros
  MaxChains = 3
  MaxProof = 2
  MaxBlocks = 2
  HasOutfile = FALSE
  LibraryFailures = FALSE
  PublishBeforeStart = TRUE
INVARIANTS
  NoUseAfterDestroy
CHECK_DEADLOCK FALSE
