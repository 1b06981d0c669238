SPECIFICATION AscendingSpec
CONSTANTS
  None = None
  Keys <- OneKey
  ElementCount = 4
  MaxRows = 58
  MaxRejected = 0
INVARIANTS
  SearchFindsAll
CHECK_DEADLOCK FALSE
