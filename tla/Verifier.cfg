SPECIFICATION Spec
CONSTANTS
  p1 = p1
  p2 = p2
  p3 = p3
  t1 = t1
  t2 = t2
  t3 = t3
  t4 = t4
  t5 = t5
  x1 = x1
  y1 = y1
  x2 = x2
  pA = pA
  pB = pB
  i1 = i1
  i2 = i2
  None = None
  Process = {p1, p2, p3}
  Thread = {t1, t2, t3, t4, t5}
  Home <- MCHome
  Proof = {x1, y1, x2}
  Genuine = {x1, x2}
  Policy = {pA, pB}
  PolicyOf <- MCPolicyOf
  Id = {i1, i2}
  IdOf <- MCIdOf
  Durable = {p1, p2}
  MaxCalls = 3
  MaxFaults = 1
  MaxRevocations = 2
INVARIANTS TypeOK AcceptedOnce MemorySingleUse ReplayMeansRecorded RestartAppliesRevocation
SYMMETRY Symmetry
CHECK_DEADLOCK FALSE
