SPECIFICATION Spec
CONSTANTS
  Procs = {p}
  Tables = {t, u}
  Columns = {a}
  None = None
  Absent = Absent
  Killed = TRUE
SYMMETRY Alike
INVARIANTS
  TypeOK
  ExistsWhole
CHECK_DEADLOCK FALSE
