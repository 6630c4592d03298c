SPECIFICATION Spec
CONSTANTS
  Base = 8
  U16 = 1
  U32 = 2
  U64 = 2
  AddrSize = 1
  RegisterPadding = 1
  COMMAND_PREFIX <- MCPrefix
  Self <- MCSelf
  OldPeers <- MCOldPeers
  Known <- MCKnown
  Strangers <- MCStrangers
  Now = 20
  Delays <- MCDelays
  Keepalive = 10
  Capacity = 3
INVARIANTS
  TypeOK
  RegisteredAsSent
  ReplyArrivesWhole
  SpinsOnlyWhenAbandoned
PROPERTIES
  ExchangeEnds
  RegistrationSucceeds
CHECK_DEADLOCK FALSE
