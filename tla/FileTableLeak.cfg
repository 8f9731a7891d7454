CONSTANTS
  Callers = {c1}
  Objs = {o1, o2}
  Paths = {p, q}
  Cap = 1
  MaxTime = 0
  MaxLost = 2
  NoObj = NoObj
  NoPath = NoPath
  NoCaller = NoCaller
SPECIFICATION Spec
INVARIANTS TableOwnsOne
