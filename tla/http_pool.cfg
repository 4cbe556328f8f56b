\* Two connections for three messages of three priorities, redirected, retried and cancelled.
SPECIFICATION Spec
CONSTANTS
  m1 = m1
  m2 = m2
  m3 = m3
  m4 = m4
  h1 = h1
  h2 = h2
  o1 = o1
  o2 = o2
  None = None
  Message = {m1, m3, m4}
  Host = {h1, h2}
  PoolSize = 2
  UrlHost <- MCUrlHost
  Priority <- MCPriority
  Owner <- MCOwner
  RedirectTo = {h2}
  MaxRedirects = 1
  MaxDrops = 0
  CacheStates = {"none"}
  Fails = FALSE
  Closes = {"done"}
  Racy = FALSE
  Stops = FALSE
INVARIANTS TypeOK Custody NothingForgotten
PROPERTIES ImplementsService NoOvertaking
CHECK_DEADLOCK FALSE
