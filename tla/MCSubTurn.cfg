SPECIFICATION LiveSpec
CONSTANTS
  r = r
  c = c
  d = d
  g1 = g1
  g2 = g2
  agent = agent
  None = None
  Turns = {r, c, d, g1, g2}
  Parent <- MCParent
  Async = {d, g1, g2}
  AgentOf <- MCAgentOf
  Agents = {agent}
  MaxDepth = 2
  MaxConcurrent = 1
  Capacity = 1
  Switches = 1
  Panics = {g1}
INVARIANTS
  RunningBounded
PROPERTIES
  SpawnEnds
  ModelChangeEnds
CHECK_DEADLOCK FALSE
