SPECIFICATION FairSpec
CONSTANTS
  x1 = x1
  x2 = x2
  h1 = h1
  w1 = w1
  o1 = o1
  Content = {c1}
  None = None
  Promise = Promise
  HandlerWait = HandlerWait
  ContentWait = ContentWait
  Scheme <- SchemeOf
  Message = {x1, h1, w1}
  WaitMessage = {w1}
  Sniffing = {}
  RedirectTo = {}
  Script = {"cancel", "dispose", "wait", "promise", "contentWait"}
  MaxHost = 2
  MaxCalls = 3
INVARIANTS
  NoDangling
  NoLeakButWaits
PROPERTIES
  Settles
CHECK_DEADLOCK FALSE
