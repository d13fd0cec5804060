SPECIFICATION FairSpec
CONSTANTS
  Slots = 2
  Messages = 5
  Leftover = FALSE
  Starts <- MCStarts
CHECK_DEADLOCK FALSE
INVARIANTS TypeOK Backed SameRing InOrderOnce LossPerDeath
PROPERTY AllTaken
