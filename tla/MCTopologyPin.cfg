SPECIFICATION Spec
CONSTANTS
  n1 = n1
  n2 = n2
  n3 = n3
  n4 = n4
  Addr = {n1, n2}
  Admin = {a1}
  Searcher = {s1}
  Scaler = scaler
  Free = free
  FirstShards <- MCOne
  FirstRows <- MCRows2
  FirstSpares <- MCSpare2
  Kinds = {"split"}
  Ceiling = 1
  Ingest = "quiesced"
  Faults = FALSE
  MaxMoves = 1
  MaxRows = 0
  MaxCrashes = 0
INVARIANTS PinIsCurrent
CHECK_DEADLOCK FALSE
