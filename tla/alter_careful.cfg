SPECIFICATION Spec
CONSTANTS
  Names = {a, b, c}
  Null = Null
  None = None
  Careless = {}
  MaxColumns = 3
  MaxRows = 2
  MaxUses = 6
SYMMETRY Renamings
INVARIANTS
  WidthsAgree
  AfterNamed
  OpensAgain
PROPERTIES
  ImplementsShape
CHECK_DEADLOCK FALSE
