CONSTANTS
  Scripts <- Served
  HdrLen = 2
  FileLen = 3
  MaxResize = 0
  RxCap = 2
  RxInc = 3
  TxCap = 1
  Faults = {}
SPECIFICATION FairSpec
CHECK_DEADLOCK FALSE
PROPERTIES Answered ImplementsService
