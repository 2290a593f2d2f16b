SPECIFICATION FairSpec
CONSTANTS
  p1 = p1
  p2 = p2
  p3 = p3
  NoPool = NoPool
  Pool <- ThreePools
  Score <- Mixed
  Worst <- Bottom
  MinGain = 1
  Checkpointable = FALSE
  MaxChanges = 2
PROPERTIES
  Settles
  Recovers
