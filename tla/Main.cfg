CONSTANTS
  Feed = {binance, kraken}
  Aggregator = aggregator
  Server = server
  Default = "default"
  FromEnv = "env"
  FromFlag = "flag"
SPECIFICATION MainSpec
INVARIANTS
  CleanExitMeansNoData
PROPERTIES
  StartsAsAsked
  AnyEndEndsProcess
CHECK_DEADLOCK FALSE
