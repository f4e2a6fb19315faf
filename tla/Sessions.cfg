SPECIFICATION Spec
CONSTANTS
  Browser = {b1, b2}
  Account = {a1, a2}
  NoAccount = none
  Request = {r1, r2}
  Socket = {}
  Queue = 1
  FlowLimit = 1
  MaxFlow = 2
  MaxSession = 2
  MaxFailure = 0
SYMMETRY Symmetry
CHECK_DEADLOCK FALSE
INVARIANTS ClearsAreDue
PROPERTIES ImplementsLogins
