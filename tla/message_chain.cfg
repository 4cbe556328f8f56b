SPECIFICATION Spec
CONSTANTS
  x1 = x1
  x2 = x2
  h1 = h1
  w1 = w1
  o1 = o1
  Content = {c1}
  None = None
  Promise = Promise
  HandlerWait = HandlerWait
  ContentWait = ContentWait
  Scheme <- SchemeOf
  Message = {x1, x2, h1}
  WaitMessage = {}
  Sniffing = {x2}
  RedirectTo = {"xkpr", "http"}
  Script = {"redirect", "wait", "promise"}
  MaxHost = 2
  MaxCalls = 4
INVARIANTS
  IInv
  NoLeak
  SuspendedUntilComplete
CHECK_DEADLOCK FALSE
