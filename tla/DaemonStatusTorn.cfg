SPECIFICATION StatusSpec
CONSTANTS
  h1 = h1
  h2 = h2
  Nobody = Nobody
  Thread <- TwoThreads
INVARIANT OccupiedIsBusy
