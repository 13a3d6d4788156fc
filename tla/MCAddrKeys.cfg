CONSTANTS
  ByteBits = 8
  Cap = 1023
  Addrs <- MCAddrs
  KeyAddrs <- MCKeyAddrs
  Pads <- MCPads
  Prefixes <- MCPrefixes
  MaxStores = 0
  MaxKeys = 2

SPECIFICATION Spec

CHECK_DEADLOCK FALSE

INVARIANTS
  DictKeyRoundTrip
