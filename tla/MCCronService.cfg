SPECIFICATION LiveSpec
CONSTANTS
  Jobs = {a}
  Services = {1, 2}
  Every = 1
  Delays = {1}
  MaxSleep = 1
  MaxEdits = 3
  MaxLoads = 2
  a = a
INVARIANTS AtMostOnce FileFollows
PROPERTY DueJobRuns
CHECK_DEADLOCK FALSE
