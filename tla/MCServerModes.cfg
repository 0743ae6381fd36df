SPECIFICATION ModesSpec
CONSTANTS
  c1 = c1
  c2 = c2
  Clients <- Two
  Id <- Distinct
  MaxClients = 2
  Typed = {"line", "shell", "quit"}
  MaxTyped <- ThreeOne
  MaxForks = 2
  PipeSize = 1
  Faults = {}
  MaxFaults = 0
  Killable = {}
  ShellFails = FALSE
  TcpClients <- Two
  TcpTyped = {"line", "shell", "quit"}
  TcpMaxTyped <- ThreeOne
  TcpMaxForks = 2
  TcpRoom = 2
  TcpKillable = {c2}
INVARIANTS ModesTypeOK ServedInOrder
PROPERTIES QuitServedNoMore EveryoneServed
CHECK_DEADLOCK FALSE
