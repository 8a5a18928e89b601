SPECIFICATION Spec
CONSTANTS
  p1 = p1
  p2 = p2
  t1 = t1
  t2 = t2
  t3 = t3
  allow = allow
  deny = deny
  None = None
  Process = {p1, p2}
  Thread = {t1, t2, t3}
  Home <- MCHome
  Proof = {allow, deny}
  MaxStores = 4
  MaxFaults = 1
INVARIANT HonestArchiveVerifies
CHECK_DEADLOCK FALSE
