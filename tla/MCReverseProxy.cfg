SPECIFICATION FairSpec
CONSTANTS
  Methods = {"GET", "CONNECT", "TRACE", "OPTIONS"}
  Upgrades = {TRUE, FALSE}
  Early = TRUE
  WBuf = 2
  MaxBytes = 2
INVARIANTS
  TunnelInv
  CleanReturn
PROPERTIES
  TunnelEnds
  Delivered
