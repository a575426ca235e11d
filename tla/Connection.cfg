CONSTANTS
  Number = {1}
  Unreadable = unreadable
  MaxLevels = 2
  MaxWire = 4
SPECIFICATION ConnectionSpec
INVARIANTS
  TunnelStartsClean
  WholeBooksOnly
PROPERTY AttemptEnds
CHECK_DEADLOCK FALSE
