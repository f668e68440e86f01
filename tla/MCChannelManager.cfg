SPECIFICATION FromA
CONSTANTS
  Names = {tg}
  Settings = {"a", "b"}
  Incomplete = {}
  MaxReloads = 2
  MaxMessages = 2
  QueueSize = 1
  MaxTries = 1
  tg = tg
INVARIANT DeliveredInOrder
PROPERTIES LockIsReleased EveryMessageSettles
CHECK_DEADLOCK FALSE
