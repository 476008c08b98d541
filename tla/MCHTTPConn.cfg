SPECIFICATION FairSpec
CONSTANTS
  MaxHeader = 2
  MaxFlight = 3
INVARIANTS
  LimitInv
PROPERTIES
  IdleStops
  GoneStops
