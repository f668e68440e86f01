SPECIFICATION LiveSpec
CONSTANTS
  a = a
  b = b
  c = c
  stop = stop
  cmd = cmd
  sys = sys
  s1 = s1
  main1 = main1
  None = None
  Messages = {a, stop, cmd, sys}
  Sessions = {s1, main1}
  SessionOf <- OneSession
  KindOf <- MCKindOf
  MaxParallelTurns = 1
  MaxQueueSize = 1
  Panics = {a}
  SteeringAll = TRUE
  MayShutdown = TRUE
PROPERTIES
  PanicTakesOnlyItsOwn
  WorkersReturn
  MainReturns
CHECK_DEADLOCK FALSE
