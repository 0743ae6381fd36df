SPECIFICATION Spec
CONSTANTS
  p1 = p1
  p2 = p2
  p3 = p3
  Procs <- Two
  Menu <- Full
  Waits <- AllWaits
  Sizes = {2}
  Page = 4
  Word = 2
  SemMax = 9
  FirstId = 1
  MaxIds = 2
  MaxCalls = 4
  Rule = "serial"
  Mortal = FALSE
INVARIANT HandlesWhole
PROPERTY ImplementsStack
CHECK_DEADLOCK FALSE
