SPECIFICATION RepeatingSpec
CONSTANTS
  None = None
  Keys <- GappedKeys
  ElementCount = 2
  MaxRows = 19
  MaxRejected = 0
INVARIANTS
  HeadersRightToThreeLevels
  MissedOnlyByHeaders
  KeysHiddenOnlyBySplit
  Balanced
  EndsAreExtremes
PROPERTIES
  ImplementsMap
  InsertEnds
CHECK_DEADLOCK FALSE
