SPECIFICATION Spec
CONSTANTS
  s1 = s1
  s2 = s2
  k1 = k1
  k2 = k2
  Source = {s1, s2}
  Lock <- MCLock
  Checkout = {c1}
  Tag = {t1}
  File = {f1}
  Push = {p1, p2}
  Deploy = {d1, d2}
  Nothing = Nothing
  Torn = Torn
  MaxEdits = 1
SYMMETRY Alike
INVARIANTS
  RecordsAreTrue
  RunsWhatWasRecorded
  GapOnlyWhileReplacing
PROPERTIES
  OldWorkIsSpared
CHECK_DEADLOCK FALSE
