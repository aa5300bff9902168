CONSTANTS
  LastFrame = 4
  DevWindow = 3
  LinkCap = 3
  KaEvery = 0
  StallAfter = 1
  StallBack = 1
  Echoes = {}
SPECIFICATION Spec
INVARIANTS NoAckOverGap
