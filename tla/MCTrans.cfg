SPECIFICATION FairSpec
CONSTANTS
  Senders = {"s1", "s2"}
  MaxBlocks = 2
  Files <- Mixed
  Interrupts = {"receiver", "s1"}
INVARIANTS TypeOK NoBlockDropped OutIsPrefix
PROPERTIES TransferEnds InterruptStopsBoth
CHECK_DEADLOCK FALSE
