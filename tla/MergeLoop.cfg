CONSTANTS
  Venue = {1, 2, 3}
  TopN = 3
  NoSummary = NoSummary
  Prices = {1, 2, 3}
  Amounts = {1, 2}
  MaxLen = 2
  InputLists <- MCInputLists
SPECIFICATION Spec
INVARIANTS
  TypeOK
  OutBestFirst
  NothingBetterLeftBehind
  OutIsTopN
  LoopComputesMergeSide
CHECK_DEADLOCK FALSE
