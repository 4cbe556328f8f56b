\* The services thread, a thread that posts, the shell that stops it, and two timers.
SPECIFICATION FairSpec
CONSTANTS
  p1 = p1
  t1 = t1
  t2 = t2
  Poster = {p1}
  Services = Services
  Shell = Shell
  None = None
  Timer = {t1, t2}
  Delays = {1}
  MaxPosts = 2
  MaxCalls = 2
  MaxTime = 1
INVARIANTS TypeOK NoFreed InOrder NoLostWake NoSpin PassComplete OnTime
PROPERTIES Delivered Fires Joins
CHECK_DEADLOCK FALSE
