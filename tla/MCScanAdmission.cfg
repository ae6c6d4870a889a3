SPECIFICATION FairSpec
CONSTANTS
  Node <- MCNode
  Slots <- MCSlots
  Request <- MCRequest
  Query <- MCQuery
  RequestOf <- MCRequestOf
  Route <- MCRoute
  Window = 2
  Batches = {0, 2}
  Buffer = 1
  Direct <- MCDirect
  DirectNode <- MCDirectNode
INVARIANTS NoStall
PROPERTIES Answered PermitsReturn
CHECK_DEADLOCK FALSE
