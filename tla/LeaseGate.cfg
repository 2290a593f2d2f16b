SPECIFICATION Spec
CONSTANTS
  h1 = h1
  h2 = h2
  t1 = t1
  t2 = t2
  t3 = t3
  t4 = t4
  NoToken = NoToken
  Handlers <- MCHandlers
  Token <- MCToken
  OfferedTTL <- MCOfferedTTL
  MinTTL = 1
  MaxTTL = 2
  Debug = TRUE
  MaxEpoch = 3
  MaxInstance = 2
SYMMETRY Symmetry
INVARIANTS
  TypeOK
  InFlightKeepsLease
  OneAtTheDaemon
  NoResurrection
  EpochFence
PROPERTIES
  CommitFence
  KeepsPromise
