SPECIFICATION Spec
CONSTANTS
  Op = {a}
  Plain = Plain
  Task = {t1, t2}
  NoTask = NoTask
  Kinds = {"add", "flush", "delete"}
  Cancels = {}
  Faults = FALSE
  MaxCrashes = 0
  MaxRows = 0
  MaxGen = 3
INVARIANTS NoResurrection
CHECK_DEADLOCK FALSE
