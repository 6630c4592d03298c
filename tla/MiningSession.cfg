SPECIFICATION FairSpec
CONSTANTS
  k1 = k1
  kBad = kBad
  Key <- MCKey
  UnreadableKey <- MCUnreadableKey
  MinerKey = k1
  InitialChain <- MCInitialChain
  PublishedChains <- AllChains
  HashZeros <- MCHashZeros
  MaxChains = 3
  MaxProof = 2
  MaxBlocks = 2
  HasOutfile = TRUE
  LibraryFailures = TRUE
  PublishBeforeStart = FALSE
INVARIANTS
  TypeOK
  NoUseAfterDestroy
  OutfileIsValid
PROPERTIES
  ValidChainsStayValid
  StopIsAnswered
  SwitchIsAnswered
CHECK_DEADLOCK FALSE
