SPECIFICATION Spec
CONSTANTS
  KeyNumber <- MCKeyNumber
  HashOf <- MCHashOf
  Slots = 2
  Indexes <- MCIndexes
  Literals <- MCLiterals
  Elements = {x, y}
  CapitalOf <- MCCapitalOf
  Letters <- MCLetters
  Spells <- MCSpells
  Operands <- MCOperands
  MaxBuckets = 3
  MaxNext = 3
  MaxLength = 4
  ParentOf <- MCParentOf
  Declared <- MCDeclared
  Magic = {"container"}
  Defined = {"get"}
  SmallName <- MCSmallName
  Environments <- MCEnvironments
  CallsFrom <- CallsOf
  MaxCached = 2
INVARIANTS
  StoredIsFound
  WholeArrays
  SearchesAgree
  PiecesReturn
  ComparesAlike
  ConvertsAlike
  CallsReach
SYMMETRY ElementsAlike
CHECK_DEADLOCK FALSE
