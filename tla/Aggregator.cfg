CONSTANTS
  Venue = {1, 2}
  TopN = 2
  NoSummary = NoSummary
  Book <- MCBook
  Staleness <- MCStaleness
  Grace = 3
  GraceCheckInterval = 2
  ReportInterval = 3
  QueueCap = 2
  TimerLag = 1
  MaxTime = 7
  MaxSends = 3
SPECIFICATION Spec
INVARIANTS
  TypeOK
  PublishedIsCurrent
  ReportsAddUp
  GraceExit
  SpreadSpansTheMarket
PROPERTIES
  OnlyNewsIsPublished
CHECK_DEADLOCK FALSE
