CONSTANTS
  PayloadBits = 8
  Payloads <- MCPayloads
  MaxRows = 13
  MaxOdd = 1
SPECIFICATION Spec
INVARIANTS TypeOK SpellsPayload OthersUnmoved
CHECK_DEADLOCK FALSE
