SPECIFICATION FairSpec
CONSTANTS
  p1 = p1
  p2 = p2
  Peer <- MCPeer
  s1 = s1
  s2 = s2
  Slot <- MCSlot
  Keepalive = 0
  MaxTime = 1
  MaxFds = 2
  StartsListening = TRUE
  PrintProgress = TRUE
  NameFailures = FALSE
  NetFailures = FALSE
PROPERTIES
  RequestsEnd
  PeersRegister
  PeerStops
CHECK_DEADLOCK FALSE
