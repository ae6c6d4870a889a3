SPECIFICATION Spec
CONSTANTS
  Op = {a, b}
  Plain = Plain
  Task = {t1, t2}
  NoTask = NoTask
  Kinds = {"add", "flush", "shutdown"}
  Cancels = {"flush"}
  Faults = FALSE
  MaxCrashes = 1
  MaxRows = 0
  MaxGen = 3
INVARIANTS SnapshotHonest NoDuplicate
PROPERTIES OverlapRestorable ExitKeepsRows
CHECK_DEADLOCK FALSE
