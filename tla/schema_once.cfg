SPECIFICATION OnceSpec
CONSTANTS
  Procs = {p, q}
  Tables = {t}
  Columns = {a}
  None = None
  Absent = Absent
  Killed = TRUE
SYMMETRY Alike
INVARIANTS
  ExistsWhole
  HeldIsGiven
CHECK_DEADLOCK FALSE
