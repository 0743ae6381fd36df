SPECIFICATION Spec
CONSTANTS
  Sens = {s1}
  Recs = {r1, r2, r3}
  Pipelines <- AllPipelines
  MaxPieces = 3
  PipeCap = 1
  Items = 2
  ListItems = {m16, mn, x}
  Head0 = head
  Moduli = {0, 7, 9, 16}
  M16 = m16
  Mn = mn
  Setters = {p1}
  Others = {o}
  Regions <- SomeRegions
  Size = 7
  LastByte = 7
  Handlers = {off_bash, stop_server}
  MaxLogCalls = 3
  MaxLogFails = 1
  Texts <- AllTexts
  PrintClients = {c1, c2, c3}
  Lines = {"print", "exit"}
  MaxStarts = 2
INVARIANTS TypeOK Exchanged ScreenInOrder RunnerIsLast SumsModulo StableLocksListed
  UncutRecordWhole CleanWhenIdle TransferIsReference
PROPERTIES MsgReturns PipelineEnds ListIsSequence ScanEnds CommandsServed
CHECK_DEADLOCK FALSE
