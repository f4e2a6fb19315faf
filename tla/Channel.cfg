SPECIFICATION FairSpec
CONSTANTS
  Key = {k1, k2}
  Chat = {c1}
  Message = {m1}
  Request = {r1, r2}
  Controls = {"approval", "steer", "command"}
  MaxApproval = 1
  Limits <- Everything
CHECK_DEADLOCK FALSE
INVARIANTS HandedOnce ActiveIsNewest ActiveIsProcessed
PROPERTIES ImplementsReceipts AcceptedSettles
