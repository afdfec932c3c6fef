SPECIFICATION Fair
CONSTANTS
  Server = "server"
  Runners = {"server", "deploy"}
  Files = 2
  Ids = {"a", "b", "c"}
  FeedOf <- MCFeedOf
  Window = 1
  Signals = {"SIGINT", "SIGTERM"}
  MaxEvents = 2
  MaxClock = 2
  MaxBoots = 2
  MayRefuse = TRUE
  MaxLosses = 3
  Null = Null
  CommonWords = {"USDT", "BINANCE", "OKX", "BYBIT"}
  Means <- MCMeans
  RowLimit = 2
  CoinLimit = 3
  Templates <- MCTemplates
  RowValues <- MCRowValues
  MaxRows = 3
  WrittenAt = 5000
  ReceivedAt = 6000
  Second = 1000
  EpochLimit = 1000
INVARIANTS
  MigrationsAreSafe
  OnlyTheTailIsLost
  ReplayIsRecent
  OnlyOverdueJobIsLost
  OneRoundPerReason
  EntriesAreTheRows
PROPERTIES
  SignalEndsTheProcess
  RefreshHeals
CHECK_DEADLOCK FALSE
