SPECIFICATION LiveSpec
CONSTANTS
  m1 = m1
  m2 = m2
  m3 = m3
  m4 = m4
  c1 = c1
  c2 = c2
  Free = Free
  Messages = {m1, m2, m3, m4}
  Closers = {c1, c2}
  StreamOf <- MCStreamOf
  NoContext <- MCNoContext
  Capacity <- MCCapacity
INVARIANTS
  NoSendOnClosedChannel
  CloseLeavesNothingBehind
PROPERTIES
  KeepsPromise
  CloseTerminates
  PublishReturns
CHECK_DEADLOCK FALSE
