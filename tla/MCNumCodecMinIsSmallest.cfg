CONSTANTS
  ByteBits = 1
  Cap = 40
  Inputs <- MCInputs
  Rhs = {0, 1, 4}
  MaxOps = 3
  MaxStores = 3

SPECIFICATION Spec

CHECK_DEADLOCK FALSE

INVARIANTS
  MinIsSmallest
