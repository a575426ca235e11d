CONSTANTS
  Token = 4
  Capacity = 20
  Rate = 3
  MaxSince = 7
SPECIFICATION FairSpec
INVARIANTS
  TypeOK
  RateCeiling
  OneSleepIsEnough
PROPERTIES
  EveryAskIsGranted
