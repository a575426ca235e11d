CONSTANTS
  Client = {c1, c2}
  Summary = {a, b, c}
  NoSummary = NoSummary
  MaxVersion = 4
SPECIFICATION FairSpec
INVARIANTS
  TypeOK
  NothingWithheld
  LastSummaryReachesEveryone
PROPERTIES
  ImplementsLatestSummary
CHECK_DEADLOCK FALSE
