SPECIFICATION FairSpec
CONSTANTS
  Req = {"r1", "r2"}
  Weights = {"pinned", "other"}
  Expected = "pinned"
  Questions = {"goal", "risk"}
  MaxOutcomes = 2
INVARIANTS StateOnlyToExpected
PROPERTIES ImplementsProviderCall EveryCallSettles
CHECK_DEADLOCK FALSE
