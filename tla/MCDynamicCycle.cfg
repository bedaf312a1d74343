SPECIFICATION Spec
CONSTANTS
  s = s
  c = c
  d = d
  x = x
  y = y
  e = e
  z = z
  w = w
  Node = {s, c, d, x, y, e, z, w}
  NoNode = NoNode
  Declared <- MCDeclared
  Initial <- MCInitial
  InitialLayer <- MCLayer
  InitialLists = 3
  Adds <- MCAdds
  Removes <- MCRemoves
  Fails <- MCFails
  MaxCycles = 2
  MaxRequests = 3
  MaxLayer = 8
INVARIANTS CyclesRefused
CHECK_DEADLOCK FALSE
