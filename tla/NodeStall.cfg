SPECIFICATION FairSpec
CONSTANTS
  k1 = k1
  k2 = k2
  kBad = kBad
  Key <- MCKey
  UnreadableKey <- MCUnreadableKey
  MinerKey = k1
  InitialChain <- MCInitialChain
  PeerChains <- MCValidChains
  HashZeros <- MCHashZeros
  MaxChains = 2
  MaxProof = 1
  MaxBlocks = 3
  HasOutfile = FALSE
  LibraryFailures = FALSE
  PeersStall = TRUE
  ServerFailures = FALSE
PROPERTIES
  ServerStopIsAnswered
CHECK_DEADLOCK FALSE
