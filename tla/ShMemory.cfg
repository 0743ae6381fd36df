SPECIFICATION FairSpec
CONSTANTS
  MaxSize = 4
  MaxGrow = 1
INVARIANTS TypeOK NoOverwrite CopiedInOrder
PROPERTY BothEnd
