SPECIFICATION Spec
CONSTANTS
  None = None
  Keys = {1, 2}
  Writers = {w1, w2}
  Readers = {}
  MaxRows = 3
  MaxFiles = 3
SYMMETRY TwoQueries
INVARIANTS
  AcknowledgedKept
CHECK_DEADLOCK FALSE
