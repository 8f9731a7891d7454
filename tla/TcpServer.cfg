CONSTANTS
  Clis = {a, b, c}
  NoCli = NoCli
  MaxClients = 3
  InitCap = 1
  ShrinkFree = 2
  ShrinkSlack = 1
  NEvents = 2
  FdLimit = 4
  MaxOther = 1
  MaxBacklog = 1
  Faults = {"setup", "poll", "nomem", "accept", "add", "mod"}
SPECIFICATION Spec
SYMMETRY Symmetry
CHECK_DEADLOCK FALSE
INVARIANTS TypeOK DenseArray WithinCap EventsLive DescriptorsExact
