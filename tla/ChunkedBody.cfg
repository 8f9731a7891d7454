CONSTANTS
  Bodies <- AllBodies
  Limits <- AllLimits
  MaxRoom = 2
  MaxDigits = 3
SPECIFICATION FairSpec
CHECK_DEADLOCK FALSE
INVARIANTS TypeOK DecodedRight RefusedRight LimitKept PredictionHolds AgainHonest
PROPERTIES Decodes
