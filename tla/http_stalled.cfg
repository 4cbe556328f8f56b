\* A request fails and its connection is closed: the next one is forgotten.
SPECIFICATION FairSpec
CONSTANTS
  m1 = m1
  m2 = m2
  m3 = m3
  m4 = m4
  h1 = h1
  h2 = h2
  o1 = o1
  o2 = o2
  None = None
  Message = {m1, m2}
  Host = {h1, h2}
  PoolSize = 1
  UrlHost <- MCUrlHost
  Priority <- MCPriority
  Owner <- MCOwner
  RedirectTo = {}
  MaxRedirects = 0
  MaxDrops = 0
  CacheStates = {"none"}
  Fails = TRUE
  Closes = {"failed"}
  Racy = FALSE
  Stops = FALSE
PROPERTIES Serves
CHECK_DEADLOCK FALSE
