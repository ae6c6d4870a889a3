SPECIFICATION FairSpec
CONSTANTS
  MaxLabel = 10
  BitmapLists <- MCBitmapLists
  NumShards = 2
  ShardLen <- MCShardLen21
  Starts <- MCStarts
  Floors = {2}
  OutCap = 1
  QueueCap = 1
  BatchRows = 2
INVARIANTS TypeOK AdmitsExactly
PROPERTIES KeepsContract Concluded ScansReleased
CHECK_DEADLOCK FALSE
