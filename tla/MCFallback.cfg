SPECIFICATION FallbackLiveSpec
CONSTANTS
  p = p
  q = q
  a = a
  b = b
  Requests = {p, q}
  Keys = {a, b}
  Chain <- MCChain
  Burst <- MCBurst
  Standard <- MCStandard
  Billing <- MCBilling
  Window = 3
PROPERTIES
  NeverShortened
  BlocksRunOut
  EveryRequestReturns
CHECK_DEADLOCK FALSE
