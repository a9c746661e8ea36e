SPECIFICATION FairSpec
CONSTANTS
  Conn = {"c1", "c2"}
  Jobs = 2
  Questions = 2
  QueueDepth = 1
INVARIANTS OneLane OwnResult DeliveredIsNotDiscarded
PROPERTIES ScoredForSomebody EveryRequestAnswered
CHECK_DEADLOCK FALSE
