SPECIFICATION FairGateSpec
CONSTANTS
  Account = {o1, o2}
  Owners = {o1, o2}
  Goroutine = {g1, g2, g3}
  MaxConn = 2
  Limits <- Everything
  Gated = {o1}
CHECK_DEADLOCK FALSE
INVARIANTS ServersAccounted StoresApart ReadyIsProven CloseLeavesNothing
PROPERTIES GateOpens
