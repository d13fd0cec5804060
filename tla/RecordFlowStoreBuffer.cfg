SPECIFICATION RSpec
CONSTANTS
  Cap = 16
  HW = 12
  LW = 3
  Needs = {3, 8}
  MaxNeed = 14
  Modes = {"blocking"}
  StoreBuffer = 1
INVARIANT NoLostWakeup
