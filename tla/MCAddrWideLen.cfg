CONSTANTS
  ByteBits = 8
  Cap = 1023
  Addrs <- WideLenAddrs
  KeyAddrs <- MCKeyAddrs
  Pads <- MCPads
  Prefixes <- NoPrefixes
  MaxStores = 1
  MaxKeys = 0

SPECIFICATION Spec

CHECK_DEADLOCK FALSE

PROPERTIES
  StoreImplementsWriter

