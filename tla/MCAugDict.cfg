CONSTANTS
  ByteBits = 8
  Cap = 1023
  KeyBits = 3
  Extras <- MCExtras
  Values <- MCValues
  Trailers <- MCTrailers

SPECIFICATION Spec

CHECK_DEADLOCK FALSE

INVARIANTS
  RootNodeExact
  AugDictRoundTrip
