SPECIFICATION FairSpec
CONSTANTS
  Symbols = {"s", "t"}
  MaxVersion = 1
  MaxWire = 1
  MaxLosses = 1
  MaxFailures = 1
  Sources <- MCSources
  RefreshOnStart = TRUE
  MaxListing = 2
  MaxCrashes = 1
  MaxRefusals = 2
  Books <- MCBooks
  Queries <- MCQueries
  Upper <- MCUpper
  Position <- MCPosition
  MaxAttempts = 3
  MaxPages = 2
  DefaultLimit = 2
  Listed <- MCListed
  LastPrice <- MCLastPrice
  DayOpen <- MCDayOpen
  DayAgo <- MCDayAgo
  Volume <- MCVolume
  Place <- MCPosition
  DiskSymbols <- MCDiskSymbols
  GeckoPages <- MCGeckoPages
  MaxGeckoPages = 3
  EnoughSnapshots = 2
  BatchSize = 1
  KlineConcurrency = 2
  MaxDay = 1
  MaxPulls = 2
  Limits = {1, 2}
INVARIANTS
  QuietAfterStop
  AnswersAreWhole
PROPERTIES
  ListingsAreNeverLost
  StaysConnected
  SettledPricesAreServed
  ListingsAreFetched
CHECK_DEADLOCK FALSE
