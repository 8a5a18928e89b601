SPECIFICATION Spec
CONSTANTS
  pA = pA
  pB = pB
  pW = pW
  c1 = c1
  c2 = c2
  t1 = t1
  t2 = t2
  Absent = Absent
  Policy <- MCPolicy
  Context <- MCContext
  Time <- MCTime
  MaxRules = 2
  NumRules <- MCNumRules
  Fires <- MCFires
  Elapsed <- MCElapsed
  RuleVerdict <- MCRuleVerdict
  Window <- MCWindow
  Malformed = {}
  OnViolation = "DENY"
  Caller <- MCCaller
  Texts <- MCTexts
  CacheSize = 1
  HostTimes <- MCTime
  ClockReads <- MCRejecting
  MaxCalls = 3
  MaxSwaps = 1
INVARIANTS TypeOK  AnswerIsCurrent CacheBounded RaisesOnlyRobbed
SYMMETRY Symmetry
CHECK_DEADLOCK FALSE
