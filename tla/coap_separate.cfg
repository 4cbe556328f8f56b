\* Acknowledged first and answered later, next to an unconfirmable request.
SPECIFICATION FairSpec
CONSTANTS
  Requests = {1, 2}
  Confirmable = {1}
  Observe = {}
  TokenMode = "own"
  Replies = {"later"}
  AutoAcks = {TRUE}
  MaxNotify = 1
  IdModulus = 65536
  FirstId = 65000
  AckTimeout = 1
  MaxTimeout = 2
  MaxRetransmit = 2
  MaxLatency = 1
  MaxDups = 0
  Resets = FALSE
  SendFails = {"client", "server"}
  ResolveFails = FALSE
  Pow2 <- MCPow2
INVARIANTS AckMeansRun
PROPERTY Settles
CHECK_DEADLOCK FALSE
