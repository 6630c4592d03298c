SPECIFICATION FairSpec
CONSTANTS
  k1 = k1
  k2 = k2
  kBad = kBad
  Key <- MCKey
  UnreadableKey <- MCUnreadableKey
  MinerKey = k1
  InitialChain <- MCInitialChain
  PeerChains <- MCPeerChains
  HashZeros <- MCHashZeros
  MaxChains = 3
  MaxProof = 1
  MaxBlocks = 3
  HasOutfile = FALSE
  LibraryFailures = FALSE
  PeersStall = TRUE
  ServerFailures = TRUE
INVARIANTS
  TypeOK
  ReplyIsValid
  ReplyIsNotShorter
  OnlyFailuresLeak
PROPERTIES
  ImplementsLongestChain
  MutexIsReleased
  ServerStops
CHECK_DEADLOCK FALSE
