SPECIFICATION Spec
CONSTANTS
  x1 = x1
  x2 = x2
  h1 = h1
  w1 = w1
  o1 = o1
  Content = {c1}
  None = None
  Promise = Promise
  HandlerWait = HandlerWait
  ContentWait = ContentWait
  Scheme <- SchemeOf
  Message = {x1, h1}
  WaitMessage = {}
  Sniffing = {}
  RedirectTo = {}
  Script = {"cancel", "dispose", "wait", "notify", "promise"}
  MaxHost = 2
  MaxCalls = 4
INVARIANTS
  TypeOK
  UsageCounts
  NoGoneTarget
  OneCompletion
PROPERTIES
  CancelSilences
CHECK_DEADLOCK FALSE
