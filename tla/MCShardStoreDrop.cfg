SPECIFICATION Spec
CONSTANTS
  Op = {a}
  Plain = Plain
  Task = {t1}
  NoTask = NoTask
  Kinds = {"add", "remove", "flush", "delete"}
  Cancels = {"add", "flush", "delete"}
  Faults = TRUE
  MaxCrashes = 2
  MaxRows = 0
  MaxGen = 3
INVARIANTS Restorable
PROPERTIES RemovedStays
CHECK_DEADLOCK FALSE
