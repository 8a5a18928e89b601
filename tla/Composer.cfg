SPECIFICATION Spec
CONSTANTS
  a = a
  b = b
  c = c
  filed = filed
  missing = missing
  broken = broken
  Absent = Absent
  Unreadable = Unreadable
  Malformed = Malformed
  Names <- MCNames
  Catalog <- MCCatalog
  SetCatalog <- MCSetCatalog
  Files <- MCFiles
  MaxTime = 1
  MaxRegistered = 1
  MaxDepth = 7
INVARIANTS TypeOK ErrorsAreEarned PathDecides ContextScoped SetDecides
CHECK_DEADLOCK FALSE
