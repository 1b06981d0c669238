CONSTANTS
  Keys = {0, 1}
  Numbers = {1}
  Locals = {"x", "y"}
  Properties = {"p"}
  Statics = {"q"}
  Cells <- MCCells
  Paths <- MCPaths
  MaxDone = 3
  MaxNumber = 2
  SharedNulls = FALSE
  StaticsReplaced = FALSE
SPECIFICATION Spec
CHECK_DEADLOCK FALSE
INVARIANTS
  NothingDangling
PROPERTIES
  ImplementsValues
  OnlyTheseLose
