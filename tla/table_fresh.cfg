SPECIFICATION FreshSpec
CONSTANTS
  None = None
  Keys = {1, 2}
  Writers = {w1, w2}
  Readers = {}
  MaxRows = 2
  MaxFiles = 3
SYMMETRY TwoQueries
INVARIANTS
  TypeOK
  InOrder
  AcknowledgedKept
PROPERTIES
  ImplementsStore
CHECK_DEADLOCK FALSE
