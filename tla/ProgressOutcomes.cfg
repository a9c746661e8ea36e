SPECIFICATION Spec
CONSTANTS
  Path = {deploy}
  PollPath = {}
  Root = {r1, r2, r3}
  NoRoot = NoRoot
  Fingerprint = {EACCES}
  MixedOutcomes = TRUE
  MaxIdenticalFailures = 2
  PollBudget = 1
  MaxSequence = 4
CHECK_DEADLOCK FALSE
PROPERTY PauseEarned
