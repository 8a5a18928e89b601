SPECIFICATION MCSpec
CONSTANTS
  Payloads <- MCPayloads
  Wires <- MCWires
  MaxBuffer = 5
  MaxFlushes = 1
  d1 = d1
  d2 = d2
  wa = wa
  walk = walk
  walks = walks
  the = the
  Docs <- MCDocs
  Word <- MCWord
  Text <- MCText
  StartWith <- MCStartWith
  StopWords <- MCStopWords
  Stem <- MCStem
  Terms <- MCTerms
  NoTerm = NoTerm
  Absent = Absent
  MaxEntries = 2
  v = v
  w = w
  NoReturn = NoReturn
  Raises = Raises
  Modules <- MCModules
  Seeds = 2
  Length = 3
  Threads = 2
  p1 = p1
  p2 = p2
  Processes <- MCProcesses
  Steps <- MCSteps
  Configs <- MCConfigs
  MaxAppends = 3
  MaxOpens = 3
CHECK_DEADLOCK FALSE
INVARIANTS DeliveredAreSent NoFrameLost BufferBounded ContentCurrent EveryWordFinds
INVARIANTS VerdictsEarned SoleWriterVerifies ReportVouches SuccessMeansAll
PROPERTIES Settles ModulesDecided
