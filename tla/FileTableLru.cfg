CONSTANTS
  Callers = {c1}
  Objs = {o1, o2, o3}
  Paths = {p, q, r}
  Cap = 2
  MaxTime = 2
  MaxLost = 0
  NoObj = NoObj
  NoPath = NoPath
  NoCaller = NoCaller
SPECIFICATION LruSpec
PROPERTIES EvictsLeastRecentlyUsed
