SPECIFICATION Spec
CONSTANTS
  Columns = {"n", "d"}
  Type <- MCType
  Cells <- AllCells
  Intval <- MCIntval
  Strtotime <- MCStrtotime
  Loosely <- MCLoosely
  Text <- MCText
  Patterns <- FivePatterns
  Blank <- NoCharacters
  None = None
  Kinds = {"select", "delete", "update"}
  CellsOf <- MCCellsOf
  Rank <- MCRank
  Missing = "missing"
  Used = Used
  Careless = {}
  MaxRows <- RowsOfKind
  MaxConditions <- DeleteTwice
INVARIANTS
  ExtremesFound
PROPERTIES
  AnswersAsked
  WritesAsked
