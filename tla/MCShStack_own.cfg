SPECIFICATION FairAttachedSpec
CONSTANTS
  p1 = p1
  p2 = p2
  p3 = p3
  Procs <- Two
  Menu <- PushPop
  Waits <- NoWaits
  Sizes = {12}
  Page = 4
  Word = 2
  SemMax = 12
  FirstId = 1
  MaxIds = 1
  MaxCalls = 3
  Rule = "own"
  Mortal = TRUE
INVARIANTS MutualExclusion CountAccounted PopNeverEmpty
PROPERTY EveryCallReturns
CHECK_DEADLOCK FALSE
