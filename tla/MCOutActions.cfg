CONSTANTS
  ByteBits = 8
  Cap = 1023
  CurrencyBits = 4
  Actions <- MCActions
  MaxPushes = 3

SPECIFICATION Spec

CHECK_DEADLOCK FALSE

INVARIANTS
  RevIterReturnsPushed
  MalformedListFails
