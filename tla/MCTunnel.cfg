SPECIFICATION FairSpec
CONSTANTS
  MaxLine = 3
  MaxSent <- Sends
  MaxRaw = 2
INVARIANTS
  SocketInv
  BytesConserved
PROPERTIES
  CopiesEnd
  TunnelStops
