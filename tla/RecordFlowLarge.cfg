SPECIFICATION RFairSpec
CONSTANTS
  Cap = 16
  HW = 12
  LW = 3
  Needs = {3, 10}
  MaxNeed = 14
  Modes = {"blocking"}
  StoreBuffer = 0
PROPERTY PushReturns
