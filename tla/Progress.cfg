SPECIFICATION Spec
CONSTANTS
  Path = {deploy, status}
  PollPath = {status}
  Root = {r1, r2, r3}
  NoRoot = NoRoot
  Fingerprint = {EACCES, ENOTFOUND}
  MixedOutcomes = FALSE
  MaxIdenticalFailures = 2
  PollBudget = 1
  MaxSequence = 5
CHECK_DEADLOCK FALSE
INVARIANTS LimitPauses
PROPERTIES PauseEarned PauseHolds
