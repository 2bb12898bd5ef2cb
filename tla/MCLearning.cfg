SPECIFICATION FairSpec
CONSTANTS
  N = 1
  Events <- MCEvents
  Ts <- MCTs
  SymbolOf <- MCSymbolOf
  MayRaise = {1, 2}
  SnapshotEvery = 2
  Stages = {"canary"}
  ThresholdSets <- MCThresholds
  MaxPolicies = 2
  MaxCrashes = 1
INVARIANTS EventsSeenUnlessLate PromotionStaysJustified
PROPERTIES ProgressIsKept EventsAreLearned
