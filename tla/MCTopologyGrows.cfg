SPECIFICATION FairSpec
CONSTANTS
  n1 = n1
  n2 = n2
  n3 = n3
  n4 = n4
  Addr = {n1, n2, n3, n4}
  Admin = {}
  Searcher = {s1}
  Scaler = scaler
  Free = free
  FirstShards <- MCTwo
  FirstRows <- MCRows23
  FirstSpares <- MCSpare34
  Kinds = {"auto"}
  Ceiling = 2
  Ingest = "quiesced"
  Faults = FALSE
  MaxMoves = 3
  MaxRows = 1
  MaxCrashes = 1
PROPERTIES CeilingKept SavedRowsStay
CHECK_DEADLOCK FALSE
