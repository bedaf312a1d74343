SPECIFICATION CoreSpec
CONSTANTS
  a = a
  b = b
  Node = {a, b, c}
  MaxUpstreams = 2
  Wirings <- MCWirings
  RootLists <- MCRootLists
  Value = {p, q, nan}
  Time = {1, 2}
  None = None
  Unequal = {nan}
  MaxSeq = 4
INVARIANTS LayersSound WiringFaithful
PROPERTIES ImplementsEventQueue WiringEnds
CHECK_DEADLOCK FALSE
