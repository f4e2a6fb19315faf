SPECIFICATION FairSpec
CONSTANTS
  Browser = {b1}
  Account = {a1}
  NoAccount = none
  Request = {r1}
  Socket = {k1, k2}
  Queue = 2
  FlowLimit = 2
  MaxFlow = 1
  MaxSession = 1
  MaxFailure = 1
CHECK_DEADLOCK FALSE
INVARIANTS NoSendOnClosed
PROPERTIES SocketsClose
