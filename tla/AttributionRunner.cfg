SPECIFICATION FairSpec
CONSTANTS
  None = None
  v1 = v1 v2 = v2
  base = base fix = fix more = more
  q1 = q1 q2 = q2 q3 = q3 q4 = q4 q5 = q5 q6 = q6 
  r1 = r1 r2 = r2 good = good bad = bad
  Invalid = Invalid
  Workers = {v1}
  MayAbandon = FALSE
  K = 3
  RepairLimit = 2
  Automatic = {2}
  Producing = {1, 3}
  Query <- MCQuery
  Rewrites = {base, fix}
  QueryIds = {q1, q2, q3, q4, q5, q6}
  Classes = {"semantic_analysis", "query_execution"}
  Roots = {r1, r2}
  Canonical = None
  External <- MCExternal
  Patches = {good, bad}
  Unsound = {bad}
INVARIANTS TypeOK StateLoads EventsOnce EvidenceFaithful
PROPERTIES QueueCompletes Forward KeepsRunContract
CHECK_DEADLOCK FALSE
