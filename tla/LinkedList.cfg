SPECIFICATION Spec
CONSTANTS
  n1 = n1
  n2 = n2
  n3 = n3
  d1 = d1
  d2 = d2
  d3 = d3
  Null = Null
  Node <- MCNode
  Data <- MCData
  Key <- MCKey
INVARIANTS
  TypeOK
  NoUseAfterFree
  NothingLeaks
  ReaderSeesTheList
PROPERTIES
  ImplementsListSpec
  CallsEnd
CHECK_DEADLOCK FALSE
