SPECIFICATION Spec
CONSTANTS
  MaxSeq = 4
  MaxStarts = 2
INVARIANTS
  CleanStreamIsInOrder
  GapsAccountForLoss
  FlagsTellTheTruth
