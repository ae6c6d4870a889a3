SPECIFICATION AnnouncingSpec
CONSTANTS
  n1 = n1
  n2 = n2
  n3 = n3
  n4 = n4
  Addr = {n1, n2}
  Admin = {a1}
  Searcher = {}
  Scaler = scaler
  Free = free
  FirstShards <- MCOne
  FirstRows <- MCRows2
  FirstSpares <- MCSpare2
  Kinds = {"split", "join", "auto"}
  Ceiling = 1
  Ingest = "quiesced"
  Faults = FALSE
  MaxMoves = 2
  MaxRows = 1
  MaxCrashes = 1
INVARIANTS TypeOK DurableBeforeVisible SparesServeNothing TopologyDurable EachRowOnce
PROPERTIES AutosplitKeepsRows EveryNodeIsKnown
CHECK_DEADLOCK FALSE
