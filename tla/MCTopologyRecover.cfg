SPECIFICATION Spec
CONSTANTS
  n1 = n1
  n2 = n2
  n3 = n3
  n4 = n4
  Addr = {n1, n2}
  Admin = {a1}
  Searcher = {s1}
  Scaler = scaler
  Free = free
  FirstShards <- MCTwo
  FirstRows <- MCRows00
  FirstSpares <- MCNone
  Kinds = {"fit", "split"}
  Ceiling = 1
  Ingest = "any"
  Faults = TRUE
  MaxMoves = 2
  MaxRows = 1
  MaxCrashes = 1
INVARIANTS SavedRowsKeepPair
PROPERTIES GenerationNamesTable
CHECK_DEADLOCK FALSE
