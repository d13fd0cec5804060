SPECIFICATION Spec
CONSTANTS
  QLen = 2
  MaxSends = 3
  MaxProducers = 2
  MaxCrashes = 0
  MaxAttachFails = 0
  MaxMapFails = 0
  MaxLate = 1
INVARIANT SameObject
