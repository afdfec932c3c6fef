CONSTANTS
  btc = btc
  eth = eth
  sol = sol
  Coins <- MCCoins
  EventCoins <- MCEventCoins
  BatchCoins = 1
  MaxQueueDepth = 2
  Window = 1
  Horizon = 2
  MaxEvents = 2
  MaxClock = 2
  MaxFailures = 1
SPECIFICATION FairSpec
INVARIANT NoCoinSlipsAway
PROPERTY StopIsQuiet
PROPERTY RecentCoinsAreScored
CHECK_DEADLOCK FALSE
