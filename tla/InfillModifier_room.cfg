CONSTANTS
  PayloadBits = 8
  Payloads <- MCPayloads
  MaxRows = 13
  MaxOdd = 0
SPECIFICATION Spec
INVARIANT EncodedLayerReadable
CHECK_DEADLOCK FALSE
