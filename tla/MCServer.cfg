SPECIFICATION FairSpec
CONSTANTS
  Conns = {c1, c2, c3}
  NoConn = NoConn
INVARIANTS
  Inv
  GracefulReturn
  NoAbandonedSend
  NoShutdownError
PROPERTIES
  AbstractSpec
  CancelStops
  AcceptedIsServed
