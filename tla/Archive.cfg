SPECIFICATION FairSpec
CONSTANTS
  p1 = p1
  p2 = p2
  t1 = t1
  t2 = t2
  t3 = t3
  allow = allow
  deny = deny
  None = None
  Process = {p1, p2}
  Thread = {t1, t2, t3}
  Home <- MCHome
  Proof = {allow, deny}
  MaxStores = 3
  MaxFaults = 1
INVARIANTS TypeOK LinksBack SoleWriterExact
PROPERTIES AppendOnlyDurable EveryStoreEnds
CHECK_DEADLOCK FALSE
