SPECIFICATION FairSpec
CONSTANTS
  QLen = 3
  MaxSends = 4
  MaxProducers = 1
  MaxCrashes = 0
  MaxAttachFails = 2
  MaxMapFails = 1
  MaxLate = 2
INVARIANTS TypeOK SameObject AckHasRoom Conserved
PROPERTIES AllDelivered BigGetsThrough SendReturns
