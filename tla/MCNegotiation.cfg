SPECIFICATION NegotiationSpec
CONSTANTS
  TypeFields <- MCTypeFields
  TypeOffers <- MCTypeOffers
  CodingFields <- MCCodingFields
  Decoders <- MCDecoders
  Layers <- MCLayers
  MaxParts = 2
  MaxText = 4
  Headers <- MCHeaders
  Hosts <- MCHosts
INVARIANTS
  CodingInv
  CodingIsAccepted
  BestIsChosen
  ParamIntact
  HopsAreListed
