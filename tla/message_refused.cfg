SPECIFICATION Spec
CONSTANTS
  x1 = x1
  x2 = x2
  h1 = h1
  w1 = w1
  o1 = o1
  Content = {c1}
  None = None
  Promise = Promise
  HandlerWait = HandlerWait
  ContentWait = ContentWait
  Scheme <- SchemeOf
  Message = {x1}
  WaitMessage = {}
  Sniffing = {}
  RedirectTo = {"other"}
  Script = {"redirect"}
  MaxHost = 1
  MaxCalls = 3
INVARIANTS
  UsageCounts
CHECK_DEADLOCK FALSE
