SPECIFICATION Spec
CONSTANTS
  Width = 4
  MaxExp = 3
  MaxCoef = 3
  Factors <- SomeFactors
INVARIANTS
  SortMoves
  SortOrders
  NoFalseMismatch
