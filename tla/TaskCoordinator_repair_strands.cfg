SPECIFICATION FairSpec
CONSTANTS
  None = None
  s1 = s1 s2 = s2
  stop = stop low = low thin = thin deep = deep
  p1 = p1 p2 = p2 w1 = w1 w2 = w2 w3 = w3
  N = 2
  Undefined = {2}
  Scopes = {s1}
  Scope <- MCScope2
  Roots <- MCRoots
  Preflight <- MCPreflight2
  Payloads = {p1, p2}
  Patches = {w1, w2}
  Unsound = {w2}
  Steps = 1
  FailPoints <- MCRepairFails
PROPERTIES RetryCompletesTask
