\* Two connections, the cache, redirections, drops, failures and the race, under fairness.
SPECIFICATION FairSpec
CONSTANTS
  m1 = m1
  m2 = m2
  m3 = m3
  m4 = m4
  h1 = h1
  h2 = h2
  o1 = o1
  o2 = o2
  None = None
  Message = {m1, m2}
  Host = {h1, h2}
  PoolSize = 2
  UrlHost <- MCUrlHost
  Priority <- MCPriority
  Owner <- MCOwner
  RedirectTo = {h2}
  MaxRedirects = 1
  MaxDrops = 1
  CacheStates = {"none", "fresh", "stale"}
  Fails = TRUE
  Closes = {"again"}
  Racy = TRUE
  Stops = TRUE
PROPERTIES CancelReturns Serves
CHECK_DEADLOCK FALSE
