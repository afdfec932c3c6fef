CONSTANTS
  a = a
  b = b
  c = c
  quiet = quiet
  Id = {a, b, c, quiet}
  FeedOf <- MCFeedOf
  BufferSize = 2
  ViewSize = 2
  Ttl = 1
  SweepLimit = 1
  AlertFeed = {"listings"}
  MaxNow = 1
  MaxReceived = 3
  MaxStreams = 2
  CryptoHalal <- MCCryptoHalal
  CryptoIslam <- MCCryptoIslam
  ListedSymbols <- MCListedSymbols
  PageEvents <- MCPageEvents
  Exchanges <- MCExchanges
  ExchangeFilters <- MCExchangeFilters
  Queries = {"active", "all"}
  MaxClicks = 2
  DefaultScoreWindows = {5, 15}
  ServerScoreWindows = {15, 60}
  PreferredWindow = 15
  ScoredCoins = {"BTC", "ADA"}
  Nets <- MCNets
  NetsAtMount <- MCNetsAtMount
  NarrowCoins = {"BTC"}
  FeedKeysOf <- MCFeedKeysOf
  ConfidenceOptions = {0, 50}
  FilterChoices <- MCFilterChoices
  TopLimit = 1
  CurrentLimit = 2
  MaxChanges = 2
SPECIFICATION DashboardSpec
INVARIANT VisibleWhenListed
CHECK_DEADLOCK FALSE
