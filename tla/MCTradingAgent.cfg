SPECIFICATION Spec
CONSTANTS
  N = 2
  Prices <- MCPrices
  StartingCash = 5
  SafetyPct = 100
  FeePct = 50
  CanaryPct = 100
  TrailPct = 30
  DrawdownPct = 20
  MaxNotional = 2
  MaxTotal = 3
  PerSymbol = 3
  MaxFailures = 2
  MaxErrors = 2
  SnapshotEvery = 1
  Mode = "canary"
  Keys = {"market", "qc", "strategy", "execution"}
  MaxTrades = 2
  MaxCrashes = 1
INVARIANTS BookIsReplayOfTrades TickExposureBound
PROPERTIES SavedTradesStay TrippedStaysTripped
