CONSTANTS
  Venue = {1, 2}
  TopN = 2
  NoSummary = NoSummary
  Book <- MCBook
  Staleness <- MCStaleness
  Grace = 1
  GraceCheckInterval = 4
  ReportInterval = 4
  QueueCap = 1
  TimerLag = 0
  MaxTime = 3
  MaxSends = 3
  Client = {c}
  MaxVersion = 3
  Published <- MCPublished
SPECIFICATION StatusFairSpec
INVARIANTS
  NoVenueUpInError
PROPERTIES
  FeedsTheStreams
  NewsReachesClients
CHECK_DEADLOCK FALSE
