SPECIFICATION Spec
CONSTANTS
  MaxReq = 2
  Methods = {"GET", "HEAD"}
  Proxies = {TRUE, FALSE}
  B = 3
  Sizes = {0, 1, 2, 5}
  Lengths = {0, 2}
  MaxUint64 = 11
  MaxBody = 8
INVARIANTS
  BufferInv
  NeverGarbled
  AbortIsVisible
  FirstIsAnswered
PROPERTIES
  HijackIsSilent
