SPECIFICATION Spec
CONSTANTS
  a = a
  N = 2
  Total = 3
  Caps = {0, 1, 2, 3}
  Weights = {1, 2}
  Bound = {1, 2}
  Host <- MCHost
  Score <- MCScore
  Word = 2
  Chunk = 2
  Nothing = Nothing
  Cut = Cut
  MaxRuns = 2
  MaxLost = 1
INVARIANTS
  PlanIsExact
  CleanRunIsExact
  WitnessedByAPrefix
CHECK_DEADLOCK FALSE
