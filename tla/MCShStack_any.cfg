SPECIFICATION Spec
CONSTANTS
  p1 = p1
  p2 = p2
  p3 = p3
  Procs <- Two
  Menu <- Full
  Waits <- OddWaits
  Sizes = {1, 3}
  Page = 4
  Word = 2
  SemMax = 2
  FirstId = 1
  MaxIds = 2
  MaxCalls = 3
  Rule = "any"
  Mortal = FALSE
INVARIANT TypeOK
CHECK_DEADLOCK FALSE
