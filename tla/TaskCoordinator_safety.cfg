SPECIFICATION Spec
CONSTANTS
  None = None
  s1 = s1 s2 = s2
  stop = stop low = low thin = thin deep = deep
  p1 = p1 p2 = p2 w1 = w1 w2 = w2 w3 = w3
  N = 3
  Undefined = {3}
  Scopes = {s1, s2}
  Scope <- MCScope
  Roots <- MCRoots
  Preflight <- MCPreflight
  Payloads = {p1, p2}
  Patches = {w1, w2, w3}
  Unsound = {w3}
  Steps = 2
  FailPoints <- MCFailPoints
INVARIANTS TypeOK SerialOrder ResumeIdentity SinkAgreement TaskSinkFaithful ReplyCurrent
PROPERTIES Settled KeepsPromise RunsKeepContract
