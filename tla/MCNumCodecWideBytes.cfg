CONSTANTS
  ByteBits = 2
  Cap = 40
  Inputs <- MCInputsWideBytes
  Rhs = {0, 2, 3}
  MaxOps = 3
  MaxStores = 3

SPECIFICATION Spec

CHECK_DEADLOCK FALSE

INVARIANTS
  RoundTrip
