SPECIFICATION FairProxySpec
CONSTANTS
  LineLengths = {12, 32, 107, 108}
  Payloads = {0, 2, 30}
  ReadSizes = {1, 7}
INVARIANTS
  PayloadInv
PROPERTIES
  HeaderSettles
