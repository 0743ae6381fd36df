SPECIFICATION FairAttachedSpec
CONSTANTS
  p1 = p1
  p2 = p2
  p3 = p3
  Procs <- Two
  Menu <- Pushers
  Waits <- NoWaits
  Sizes = {4}
  Page = 4
  Word = 2
  SemMax = 9
  FirstId = 1
  MaxIds = 1
  MaxCalls = 1
  Rule = "any"
  Mortal = FALSE
PROPERTY ImplementsStack
CHECK_DEADLOCK FALSE
