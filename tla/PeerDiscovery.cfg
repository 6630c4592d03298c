SPECIFICATION Spec
CONSTANTS
  p1 = p1
  p2 = p2
  Peer <- MCPeer
  s1 = s1
  s2 = s2
  Slot <- MCSlot
  Keepalive = 1
  MaxTime = 2
  MaxFds = 1
  StartsListening = FALSE
  PrintProgress = TRUE
  NameFailures = TRUE
  NetFailures = TRUE
INVARIANTS
  TypeOK
  ListedOnce
  ActivePeersAreListed
  RepliesAreActive
SYMMETRY Symmetry
CHECK_DEADLOCK FALSE
