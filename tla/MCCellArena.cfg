CONSTANTS
  DepthBits = 2
  MaxCells = 4
  MaxRefsIn = 2
  Tokens <- MCTokens
  t1 = t1
  NoByte = NoByte

SPECIFICATION Spec

INVARIANTS
  ReprHashIdentifiesCell
  PrunedTreeKeepsHash
  DepthExceedsChildren
