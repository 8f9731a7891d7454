CONSTANTS
  Clis = {a, b, c}
  NoCli = NoCli
  MaxClients = 3
  InitCap = 1
  ShrinkFree = 2
  ShrinkSlack = 1
  NEvents = 5
  FdLimit = 9
  MaxOther = 0
  MaxBacklog = 1
  Faults = {}
SPECIFICATION Spec
CHECK_DEADLOCK FALSE
INVARIANTS EndsOnlyWhenStopped
