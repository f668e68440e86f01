SPECIFICATION Spec
CONSTANTS
  a = a
  b = b
  c = c
  stop = stop
  cmd = cmd
  sys = sys
  s1 = s1
  main1 = main1
  None = None
  Messages = {a, b, c, stop}
  Sessions = {s1}
  SessionOf <- OneSession
  KindOf <- MCKindOf
  MaxParallelTurns = 2
  MaxQueueSize = 2
  Panics = {}
  SteeringAll = FALSE
  MayShutdown = TRUE
SYMMETRY ChatSymmetry
INVARIANTS
  OneTurnUnlessRobbed
  ClaimHasLiveOwner
PROPERTIES
  ClaimsAreHandedOnByTheirOwner
CHECK_DEADLOCK FALSE
