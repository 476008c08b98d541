SPECIFICATION FairSpec
CONSTANTS
  Conns = {c1, c2}
  Extra = x
  NFds <- Limits
INVARIANTS
  FDInv
  HandOver
PROPERTIES
  Settles
