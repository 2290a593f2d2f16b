SPECIFICATION FairSpec
CONSTANTS
  TTL = 3
  MaxAge = 1
  MaxSkew = 2
  MaxRTT = 1
  Ahead <- NearAndFar
  RetireTimes <- EarlyOrNever
  LastSend = 2
  Horizon = 10
INVARIANTS
  TypeOK
  EligibleIsRecent
PROPERTIES
  NoRevival
  DeadNodeDisappears
