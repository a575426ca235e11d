CONSTANTS
  Client = {me}
  Summary = {a, b}
  NoSummary = NoSummary
  MaxVersion = 3
  Width = 35
  Split = 26
  MaxAmount = 40
SPECIFICATION ScreenSpec
INVARIANTS
  EveryColumnOnce
  WholeCell
PROPERTY CatchesUp
CHECK_DEADLOCK FALSE
