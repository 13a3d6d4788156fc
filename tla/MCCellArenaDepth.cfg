CONSTANTS
  DepthBits = 1
  MaxCells = 4
  MaxRefsIn = 2
  Tokens <- MCTokens
  t1 = t1
  NoByte = NoByte

SPECIFICATION Spec

INVARIANTS
  TypeOK
