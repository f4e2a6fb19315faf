SPECIFICATION FairSpec
CONSTANTS
  Thread = {t1}
  Body = {b1}
  Request = {q1}
  Handler = {h1}
  Follower = {f1}
  Configurations <- AllConfigured
  HermesStatus = {"running", "completed"}
  Streaming = TRUE
  MaxOutput = 1
  MaxSession = 2
  Limits <- LiveFaults
CHECK_DEADLOCK FALSE
PROPERTIES StopSettles OutcomeRecorded
