SPECIFICATION OnceSpec
CONSTANTS
  None = None
  Keys <- EightKeys
  ElementCount = 4
  MaxRows = 8
  MaxRejected = 0
INVARIANTS
  SearchFindsAll
CHECK_DEADLOCK FALSE
