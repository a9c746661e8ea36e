SPECIFICATION mcSpec
CONSTANTS
  Run <- mcRun
  Session <- mcSession
  Turn <- mcSession
  Key <- mcRun
  SessionOf <- mcSessionOf
  TurnOf <- mcSessionOf
  KeyOf <- mcKeyOf
  Cancellable <- mcCancellable
  MaxConcurrent = 1
  MaxQueue = 4
  MaxQueuePerSession = 3
  PerTurnCalls = 9
  PerSessionCalls = 9
  Deadline = 2
  MaxApply = 0
INVARIANTS BoundedBypass QueueWellFormed
CHECK_DEADLOCK FALSE
