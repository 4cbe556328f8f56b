\* Both ends send, ping and close; each behaviour has at most one fault.
SPECIFICATION FairSpec
CONSTANTS
  Faults = {"none", "unreachable", "refused", "rejected", "break", "write", "drop", "stop"}
  MaxCalls = 2
INVARIANTS TypeOK NoFreed NothingLost
PROPERTIES CloseIsLast Ends
CHECK_DEADLOCK FALSE
