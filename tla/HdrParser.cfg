CONSTANTS
  Messages <- AllMessages
  MaxLen = 28
SPECIFICATION Spec
CHECK_DEADLOCK FALSE
INVARIANTS TypeOK ParsedRight RefusedRight LimitKept ReadsInside
