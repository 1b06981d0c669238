SPECIFICATION RepeatingSpec
CONSTANTS
  None = None
  Keys <- FiveKeys
  ElementCount = 2
  MaxRows = 5
  MaxRejected = 0
INVARIANTS
  RowsIndexed
CHECK_DEADLOCK FALSE
