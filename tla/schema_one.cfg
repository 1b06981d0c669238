SPECIFICATION Spec
CONSTANTS
  Procs = {p}
  Tables = {t, u}
  Columns = {a, b}
  None = None
  Absent = Absent
  Killed = FALSE
SYMMETRY Alike
INVARIANTS
  GivenStays
  CreatedEmpty
  LoadsAnswer
CHECK_DEADLOCK FALSE
