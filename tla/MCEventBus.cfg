SPECIFICATION LiveSpec
CONSTANTS
  waiting = waiting
  urgent = urgent
  logger = logger
  bridge = bridge
  Publishers = {waiting, urgent}
  Urgent = {urgent}
  Subs = {logger, bridge}
  Policy <- MCPolicy
  Once = {bridge}
  Readers = {logger}
  Buffer = 1
INVARIANTS
  NoSendOnClosed
  EveryEventAccounted
PROPERTIES
  DoneMeansDone
  CloseEnds
CHECK_DEADLOCK FALSE
