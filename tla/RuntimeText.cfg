SPECIFICATION Spec
CONSTANTS
  pA = pA
  pB = pB
  pW = pW
  c1 = c1
  c2 = c2
  t1 = t1
  t2 = t2
  Absent = Absent
  Policy <- MCPolicy
  Context <- MCContext
  Time <- MCTime
  MaxRules = 2
  NumRules <- MCNumRules
  Fires <- MCFires
  Elapsed <- MCElapsed
  RuleVerdict <- MCRuleVerdict
  Window <- MCWindow
  Malformed = {}
  OnViolation = "DENY"
  Caller = {t1}
  Texts <- MCTexts
  CacheSize = 2
  HostTimes <- MCTime
  ClockReads = {Absent}
  MaxCalls = 2
  MaxSwaps = 0
INVARIANT AnswerIsFromPolicyAsked
CHECK_DEADLOCK FALSE
