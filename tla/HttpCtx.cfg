CONSTANTS
  N = 4
  MaxSignals = 3
  Faults = {"init", "thread", "die"}
SPECIFICATION FairSpec
CHECK_DEADLOCK FALSE
INVARIANTS TypeOK FreedAfterUse NothingHeld JoinsStopped
 
