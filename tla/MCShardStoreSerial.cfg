SPECIFICATION FairSpec
CONSTANTS
  Op = {a, b}
  Plain = Plain
  Task = {t1, t2}
  NoTask = NoTask
  Kinds = {"add", "plain"}
  Cancels = {}
  Faults = TRUE
  MaxCrashes = 2
  MaxRows = 2
  MaxGen = 3
INVARIANTS TypeOK
PROPERTIES KeepsPromise RequestsEnd
CHECK_DEADLOCK FALSE
