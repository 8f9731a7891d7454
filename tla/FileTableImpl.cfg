CONSTANTS
  Callers = {c1, c2}
  Objs = {o1, o2, o3}
  Paths = {p, q}
  Cap = 2
  MaxTime = 1
  MaxLost = 1
  NoObj = NoObj
  NoPath = NoPath
  NoCaller = NoCaller
SPECIFICATION FairSpec
INVARIANTS TypeOK RefcntExact NoDangling FreedOnce NeverLeaked CopiesBounded
PROPERTIES ImplementsHandlesLive
