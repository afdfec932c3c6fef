CONSTANTS
  v1 = v1
  v2 = v2
  Coins = {"a", "b"}
  Versions <- MCVersions
  Alerts <- MCAlerts
  Backlogs <- MCBacklogs
  MaxAlerts = 4
  MaxClock = 2
  MaxFaults = 1
  HalalCoins = {"b"}
  Alphabetical <- MCAlphabetical
  Horizons = {1}
  Returns = {1}
  MaxLabels = 0
SPECIFICATION BacktestSpec
SYMMETRY Interchangeable
INVARIANT EverySnapshotKeepsItsEvidence
CHECK_DEADLOCK FALSE
