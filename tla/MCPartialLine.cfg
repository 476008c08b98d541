SPECIFICATION Spec
CONSTANTS
  MaxLine = 3
  MaxSent <- Sends
  MaxRaw = 2
INVARIANT WholeLines
