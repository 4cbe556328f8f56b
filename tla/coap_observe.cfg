\* An observed request, foreign resets, and acknowledgements sent by the script.
SPECIFICATION Spec
CONSTANTS
  Requests = {1}
  Confirmable = {1}
  Observe = {1}
  TokenMode = "own"
  Replies = {"now", "later"}
  AutoAcks = {TRUE, FALSE}
  MaxNotify = 2
  IdModulus = 65536
  FirstId = 65000
  AckTimeout = 1
  MaxTimeout = 2
  MaxRetransmit = 2
  MaxLatency = 0
  MaxDups = 0
  Resets = TRUE
  SendFails = {"server"}
  ResolveFails = FALSE
  Pow2 <- MCPow2
INVARIANTS WithinSpan
CHECK_DEADLOCK FALSE
