CONSTANTS
  Clis = {a, b}
  NoCli = NoCli
  MaxClients = 3
  InitCap = 1
  ShrinkFree = 2
  ShrinkSlack = 1
  NEvents = 5
  FdLimit = 2
  MaxOther = 1
  MaxBacklog = 1
  Faults = {}
SPECIFICATION FairSpec
CHECK_DEADLOCK FALSE
PROPERTIES StopWorks LeaveEndsBackoff ImplementsConnSetLive
