SPECIFICATION FairStatusSpec
CONSTANTS
  h1 = h1
  h2 = h2
  Nobody = Nobody
  Thread <- TwoThreads
INVARIANTS
  GPUExclusive
  AllAccounted
  SilenceIsAFailure
  SteadyWorkIsSeen
PROPERTY EveryRequestEnds
