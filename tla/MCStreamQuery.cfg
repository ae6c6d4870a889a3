SPECIFICATION FairSpec
CONSTANTS
  NumShards = 2
  ShardLen <- MCShardLen21
  Query <- MCQuery
  BlockRows = 1
  QueueCap = 1
  Scores = {1, 2}
INVARIANTS NothingLost FloorSound NoSelfAbort CollectedOnce Inductive
PROPERTIES ExactOrError Answered ScansReleased
CHECK_DEADLOCK FALSE
