SPECIFICATION Spec
CONSTANTS
  pA = pA
  pW = pW
  c1 = c1
  c2 = c2
  w1 = w1
  w2 = w2
  t1 = t1
  t2 = t2
  Absent = Absent
  Policy <- MCPolicy
  Context <- MCContext
  Time <- MCTime
  MaxRules = 2
  NumRules <- MCNumRules
  Fires <- MCFires
  Elapsed <- MCElapsed
  RuleVerdict <- MCRuleVerdict
  Window <- MCWindow
  Malformed = {c2}
  OnViolation = "DENY"
  Process = {w1, w2}
  Thread = {t1, t2}
  Home <- MCHome
  MaxStores = 2
  MaxFaults = 1
  HostTimes = {1}
  ClockReads = {Absent, 0}
  RequireAudit = TRUE
INVARIANTS TypeOK AuditBeforeEffect RecordsAreAnswers RecordsVerify
CHECK_DEADLOCK FALSE
