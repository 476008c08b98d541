SPECIFICATION FairSpec
CONSTANTS
  N = 2
  c1 = c1
  c2 = c2
  c3 = c3
  Conns = {c1, c2, c3}
  Home <- HomeOf
  Acceptors = {a1, a2}
  Closers = {k1, k2}
  NoConn = NoConn
INVARIANTS
  DrainInv
  CloseIsComplete
PROPERTIES
  NoLateDelivery
  CloseSettles
CHECK_DEADLOCK FALSE
