SPECIFICATION mcSpec
CONSTANTS
  Run <- mcRun
  Session <- mcSession
  Turn <- mcTurn
  Key <- mcKey
  SessionOf <- mcSessionOf
  TurnOf <- mcTurnOf
  KeyOf <- mcKeyOf
  Cancellable <- mcCancellable
  MaxConcurrent = 1
  MaxQueue = 2
  MaxQueuePerSession = 1
  PerTurnCalls = 2
  PerSessionCalls = 2
  Deadline = 2
  MaxApply = 2
INVARIANTS TypeOK NoIllegalTransition OutcomeHonest AppliedOnce
PROPERTIES ProviderCallWanted ImplementsAdmission EveryRunAnswered
CHECK_DEADLOCK FALSE
