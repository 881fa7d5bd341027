SPECIFICATION PositionFairSpec
CONSTANTS
  m1 = m1
  m2 = m2
  Monitor <- TwoMonitors
  MarketRegime <- Regimes
  SignalRegime = {"TREND"}
  Side = 1
  FreezeLevel = FALSE
  Price = {1, 4}
  Entry = 2
  Cost = 1
  ComputedRisk = {1}
  InitialStop = 1
  Multiplier = 1
  MaxAge <- Ages
  TrailDistance <- Trailing
  StopDistance <- Adjustments
  MinProfit = 1
  BreakevenOn = TRUE
  Oldest = 1
INVARIANTS SyncedHasRow
PROPERTIES LossBounded Expires
CHECK_DEADLOCK FALSE
