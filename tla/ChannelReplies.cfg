SPECIFICATION Spec
CONSTANTS
  Key = {k1}
  Chat = {c1}
  Message = {m1}
  Request = {r1}
  Controls = {"steer"}
  MaxApproval = 0
  Limits <- OneSteer
CHECK_DEADLOCK FALSE
PROPERTIES RepliesPersist
