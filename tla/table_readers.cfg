SPECIFICATION KeepingSpec
CONSTANTS
  None = None
  Keys = {1, 2}
  Writers = {w1}
  Readers = {r1}
  MaxRows = 2
  MaxFiles = 3
SYMMETRY TwoQueries
INVARIANTS
  ResultsStay
PROPERTIES
  SelectsWhole
CHECK_DEADLOCK FALSE
