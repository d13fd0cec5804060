SPECIFICATION FairSpec
CONSTANTS
  QLen = 2
  MaxSends = 3
  MaxProducers = 1
  MaxCrashes = 0
  MaxAttachFails = 0
  MaxMapFails = 0
  MaxLate = 4
PROPERTY AllDelivered
CHECK_DEADLOCK FALSE
