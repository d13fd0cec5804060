SPECIFICATION Spec
CONSTANTS
  SwitchCost = 1
  Margin = 3
  SetupCost = 5
  Budgets = {0, 3}
  Weight = 2
  LogSize = 2
  LogWord = 4
  Sizes <- MCSizes
  Worlds <- MCWorlds
  Eps = 1
  MinSamples = 1
  MaxSeq = 6
INVARIANTS TypeOK FrameFits ClassifiedOnce StickyRoute NoFlap LogIsSuffix
