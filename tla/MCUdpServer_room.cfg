SPECIFICATION Spec
CONSTANTS
  c1 = c1
  c2 = c2
  c3 = c3
  Clients <- Two
  Id <- Distinct
  MaxClients = 1
  Typed = {"quit"}
  MaxTyped <- OneEach
  MaxForks = 2
  PipeSize = 2
  Faults = {}
  MaxFaults = 0
  Killable = {}
  ShellFails = FALSE
INVARIANT RoomForClients
CHECK_DEADLOCK FALSE
