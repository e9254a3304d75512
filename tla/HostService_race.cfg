SPECIFICATION Spec
CONSTANTS
  None = None
  t1 = t1 t2 = t2 t3 = t3 p1 = p1 p2 = p2
  success = success apps = apps latency = latency strange = strange
  dated = dated undated = undated
  Routes <- MCRoutes RuleIdentity <- MCRuleIdentity Date <- MCDate
  Workers = {t1, t2}
  Alerts <- MCAlerts
  Patches = {p1, p2}
  Cases = {"both"}
  MaxFaults = 1
PROPERTIES SinksSettled
CHECK_DEADLOCK FALSE
