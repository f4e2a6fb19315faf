SPECIFICATION Spec
CONSTANTS
  Thread = {t1}
  Body = {b1}
  Request = {q1, q2}
  Handler = {h1, h2}
  Follower = {f1, f2}
  Configurations <- AllConfigured
  HermesStatus = {"completed"}
  Streaming = FALSE
  MaxOutput = 1
  MaxSession = 1
  Limits <- NoFault
SYMMETRY Symmetry
CHECK_DEADLOCK FALSE
INVARIANTS OneActivePerThread ReplyMatchesRun NoOrphans SingleFollower
PROPERTIES TerminalIsFinal
