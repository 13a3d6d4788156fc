CONSTANTS
  ByteBits = 8
  Cap = 1023
  Addrs <- MCAddrs
  KeyAddrs <- MCKeyAddrs
  Pads <- MCPads
  Prefixes <- NoPrefixes
  MaxStores = 4
  MaxKeys = 0

SPECIFICATION Spec

CHECK_DEADLOCK FALSE

INVARIANTS
  TypeOK
  AddrRoundTrip
  AddrStoreExactSize

PROPERTIES
  StoreImplementsWriter
