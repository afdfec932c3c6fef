SPECIFICATION FairSpec
CONSTANTS
  Coins = {"a", "b"}
  Named = {"a spot", "b elsewhere"}
  Listed <- MCListed
  CoinOf <- MCCoinOf
  ScoreMarket <- MCScoreMarket
  Scored <- MCScored
  MaxTargets = 2
  CoinTtl = 1
  Horizons = {1}
  Skew = 1
  BatchSize = 1
  Answering = {"a spot"}
  Late = 1
  MaxClock = 3
  MaxSources = 2
  MaxTicks = 3
  MaxFaults = 1
INVARIANTS
  ReturnSpansTheHorizon
PROPERTIES
  RecentCoinsArePriced
  PricedIsLabelled
CHECK_DEADLOCK FALSE
