CONSTANTS
  Scripts <- AllScripts
  HdrLen = 2
  FileLen = 3
  MaxResize = 2
  RxCap = 2
  RxInc = 3
  TxCap = 1
  Faults = {"nomem", "read", "intr", "leave"}
SPECIFICATION Spec
CHECK_DEADLOCK FALSE
INVARIANTS TypeOK TxInside InOrder WholeBodies CloseWhenDrained NoOverrun
