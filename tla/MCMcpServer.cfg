SPECIFICATION FairMSpec
CONSTANTS
  Run <- mcRun
  Session <- mcSession
  Turn <- mcTurn
  SessionOf <- mcSessionOf
  TurnOf <- mcTurnOf
  MaxConcurrent = 1
  MaxQueue = 2
  MaxQueuePerSession = 1
  PerTurnCalls = 2
  PerSessionCalls = 3
  Origins <- mcOrigins
  Loopback <- mcLoopback
  Configs <- mcConfigs
  Inputs <- mcInputs
  Cancellable <- mcCancellable
  MaxQuestions = 2
  MaxStateBytes = 5
  Weights <- mcWeights
  WeightsOf <- mcWeightsOf
  ServiceQuestions = 1
INVARIANTS LedgerExact StateOnlyToNamed NoContactUnlisted
PROPERTIES CancelledNeverAsked EveryCallAnswered
CHECK_DEADLOCK FALSE
