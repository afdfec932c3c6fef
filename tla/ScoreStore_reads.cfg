CONSTANTS
  v1 = v1
  v2 = v2
  Coins = {"a", "b"}
  Versions <- MCVersions
  Alerts <- MCAlerts
  Backlogs <- MCBacklogs
  MaxAlerts = 2
  MaxClock = 1
  MaxFaults = 1
  HalalCoins = {"b"}
  Alphabetical <- MCAlphabetical
  Horizons = {1}
  Returns = {1}
  MaxLabels = 1
SPECIFICATION BacktestSpec
SYMMETRY Interchangeable
INVARIANTS
  TimelineEndsAtCurrent
  QuietCoinsFade
  ScoresMirror
  ScoreReadsAgree
  BacktestsAgree
CHECK_DEADLOCK FALSE
