SPECIFICATION Spec
CONSTANTS
  QLen = 2
  MaxSends = 3
  MaxProducers = 3
  MaxCrashes = 2
  MaxAttachFails = 1
  MaxMapFails = 1
  MaxLate = 1
INVARIANT AtMostOnce
CHECK_DEADLOCK FALSE
