SPECIFICATION LiveSpec
CONSTANTS
  OldTurns = 1
  InitialSteering = 1
  Steers = 2
  SubResults = 0
  MaxIterations = 2
  MaxCalls = 2
  MaxRetries = 2
  DefaultAgent = TRUE
  MayAbort = TRUE
  MayInterrupt = TRUE
  MayHook = TRUE
  MayOverflow = TRUE
  SteeringAll = TRUE
PROPERTIES
  CompactionKeepsPairs
  TurnEnds
CHECK_DEADLOCK FALSE
