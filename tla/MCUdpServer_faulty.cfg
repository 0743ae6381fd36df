SPECIFICATION Spec
CONSTANTS
  c1 = c1
  c2 = c2
  c3 = c3
  Clients <- Three
  Id <- Distinct
  MaxClients = 2
  Typed = {"shell"}
  MaxTyped <- OneEach
  MaxForks = 3
  PipeSize = 2
  Faults = {"lose", "dup", "reorder"}
  MaxFaults = 1
  Killable = {c1}
  ShellFails = TRUE
INVARIANTS OwnClientOnly TableLeadsHome
CHECK_DEADLOCK FALSE
