SPECIFICATION Spec
CONSTANTS
  v = v
  w = w
  x = x
  y = y
  None = None
  Sessions = {1, 2}
  Shards = {x, y}
  Shard <- CrossedShards
  Aliases <- PairAliases
  Workers = {v, w}
  MaxMessages = 3
  MaxFailures = 2
SYMMETRY WorkerSymmetry
INVARIANTS
  OneOperationPerSession
  NothingElseIsLost
  VisibleInOrder
  ExactWhenClean
PROPERTIES
  KeepsLog
CHECK_DEADLOCK FALSE
