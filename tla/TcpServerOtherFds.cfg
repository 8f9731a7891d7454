CONSTANTS
  Clis = {a, b, c}
  NoCli = NoCli
  MaxClients = 4
  InitCap = 1
  ShrinkFree = 2
  ShrinkSlack = 1
  NEvents = 5
  FdLimit = 1
  MaxOther = 1
  MaxBacklog = 1
  Faults = {}
SPECIFICATION PatientSpec
CHECK_DEADLOCK FALSE
PROPERTIES BackoffEnds
