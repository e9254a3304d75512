SPECIFICATION Spec
CONSTANTS
  None = None
  v1 = v1 v2 = v2
  base = base fix = fix more = more
  q1 = q1 q2 = q2 q3 = q3 q4 = q4 q5 = q5 q6 = q6
  r1 = r1 r2 = r2 good = good bad = bad
  Invalid = Invalid
  Workers = {v1, v2}
  MayAbandon = TRUE
  K = 2
  RepairLimit = 2
  Automatic = {}
  Producing = {1, 2}
  Query <- MCQuery
  Rewrites = {fix}
  QueryIds = {q1, q2}
  Classes = {"semantic_analysis", "query_execution"}
  Roots = {r1}
  Canonical = r1
  External = {}
  Patches = {}
  Unsound = {}
SYMMETRY WorkerSymmetry
PROPERTIES Forward
CHECK_DEADLOCK FALSE
