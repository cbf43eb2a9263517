SPECIFICATION FairIrqSpec
CONSTANTS
  Line = {0, 1, 4, 7, 8, 14}
  MaxSleep = 2
INVARIANT AcknowledgesOwnLine

  
CHECK_DEADLOCK FALSE
