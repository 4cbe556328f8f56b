\* Two confirmable requests answered at once; datagrams are lost, delayed and duplicated.
SPECIFICATION Spec
CONSTANTS
  Requests = {1, 2}
  Confirmable = {1, 2}
  Observe = {}
  TokenMode = "auto"
  Replies = {"now", "fail"}
  AutoAcks = {TRUE}
  MaxNotify = 1
  IdModulus = 65536
  FirstId = 65000
  AckTimeout = 1
  MaxTimeout = 3
  MaxRetransmit = 2
  MaxLatency = 2
  MaxDups = 1
  Resets = FALSE
  SendFails = {"client"}
  ResolveFails = TRUE
  Pow2 <- MCPow2
INVARIANTS TypeOK RunOnce OwnAnswer
PROPERTY Acknowledges
CHECK_DEADLOCK FALSE
