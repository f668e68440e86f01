SPECIFICATION Spec
CONSTANTS
  OldTurns = 1
  InitialSteering = 0
  Steers = 2
  SubResults = 1
  MaxIterations = 2
  MaxCalls = 2
  MaxRetries = 1
  DefaultAgent = TRUE
  MayAbort = TRUE
  MayInterrupt = TRUE
  MayHook = TRUE
  MayOverflow = FALSE
  SteeringAll = FALSE
INVARIANTS
  EveryCallIsAnswered
  SteeringIsNotLost
  SteeringInOrder
  IterationsAreBounded
  InterruptStopsTools
  AbortRestoresHistory
CHECK_DEADLOCK FALSE
