SPECIFICATION FairDispatchSpec
CONSTANTS
  c1 = c1
  c2 = c2
  t1 = t1
  t2 = t2
  NoToken = NoToken
  Handlers <- TwoCallers
  Token <- TwoTokens
  TTL = 2
  OfferedTTL <- OneTTL
  MinTTL = 1
  MaxTTL = 2
  Debug = FALSE
  MaxEpoch = 2
  MaxInstance = 2
INVARIANTS
  SuccessIsAcceptedAndReleased
PROPERTIES
  NoEntryAfterRelease
  LateResultsAreFenced
  SlotFreed
  ReleaseTakesEffect
