SPECIFICATION Spec
CONSTANTS
  Thread = {t1}
  Body = {b1}
  Request = {q1}
  Handler = {h1}
  Follower = {f1}
  Configurations <- MayBeRemoved
  HermesStatus = {"completed"}
  Streaming = FALSE
  MaxOutput = 1
  MaxSession = 1
  Limits <- MostFaults
SYMMETRY Symmetry
CHECK_DEADLOCK FALSE
INVARIANTS ActiveRunIsFollowed CloseQuiesces OutcomeIsGateways
PROPERTIES ImplementsLedger NotResubmitted
