\* Two instances; a key lives for two intervals, the set for three.
SPECIFICATION FairSpec
CONSTANTS
  i1 = i1
  i2 = i2
  Ids = {i1, i2}
  KeyTTL = 2
  SetTTL = 3
INVARIANTS DeregisteredIsGone NeverDropped
PROPERTIES CrashedIsForgotten
CHECK_DEADLOCK FALSE
