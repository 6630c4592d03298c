SPECIFICATION Spec
CONSTANTS
  k1 = k1
  k2 = k2
  kBad = kBad
  Key <- MCKey
  UnreadableKey <- MCUnreadableKey
  MinerKey = k1
  InitialChain <- MCInitialChain
  PeerChains <- MCValidChains
  HashZeros <- MCHashZeros
  MaxChains = 3
  MaxProof = 1
  MaxBlocks = 3
  HasOutfile = FALSE
  LibraryFailures = FALSE
  PeersStall = FALSE
  ServerFailures = FALSE
INVARIANTS
  NoUseAfterDestroy
CHECK_DEADLOCK FALSE
