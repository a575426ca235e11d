CONSTANTS
  Token = 4
  Capacity = 20
  Rate = 1
  MaxSince = 20
  Second = 2
  MaxDelay = 60
  AttemptCap = 5
  StabilityWindow = 60
  NeedsSubscribe = TRUE
  Pings = FALSE
  IdlePing = 60
SPECIFICATION Spec
INVARIANTS
  TypeOK
  BucketNeverThrottles
