SPECIFICATION EFairSpec
CONSTANTS
  Cap = 16
  HW = 12
  LW = 3
  Needs = {2, 8, 15}
  MaxNeed = 14
  Modes = {"blocking", "measured", "nonblocking"}
  StoreBuffer = 0
INVARIANTS TypeOK NoLostWakeup PopWithinSeen
PROPERTIES BacklogBound EmuIsFutex PushReturns
