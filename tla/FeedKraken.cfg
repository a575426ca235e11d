CONSTANTS
  Token = 4
  Capacity = 4
  Rate = 1
  MaxSince = 4
  Second = 2
  MaxDelay = 4
  AttemptCap = 1
  StabilityWindow = 2
  NeedsSubscribe = TRUE
  Pings = TRUE
  IdlePing = 2
SPECIFICATION FairSpec
PROPERTIES
  ImplementsBucket
  BooksFlowAgain
