SPECIFICATION Spec
CONSTANTS
  None = None
  Keys <- FiveKeys
  ElementCount = 2
  MaxRows = 6
  MaxRejected = 1
INVARIANTS
  ElementsPointAtTheirRows
  FindSound
PROPERTIES
  ElementsKept
CHECK_DEADLOCK FALSE
