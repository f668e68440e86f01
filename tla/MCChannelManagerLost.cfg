SPECIFICATION Spec
CONSTANTS
  Names = {tg}
  Settings = {"a", "b"}
  Incomplete = {}
  MaxReloads = 1
  MaxMessages = 1
  QueueSize = 1
  MaxTries = 1
  tg = tg
INVARIANT StartedHasWorker
CHECK_DEADLOCK FALSE
