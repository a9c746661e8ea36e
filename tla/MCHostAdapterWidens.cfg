SPECIFICATION Spec
CONSTANTS
  Call <- mcCall
  Scope = {"session"}
  Path = {"deploy"}
  Root = {"r1", "r2"}
  ScopeOf <- mcScopeOf
  PathOf <- mcPathOf
  RootOf <- mcRootOf
  NoRoot = "no root"
  Digest = {"[]", "tools"}
  EmptyCatalog = "[]"
  Unseen = "unseen"
  Config <- mcConfig
  HostSays <- mcHostSays
  Reply <- mcReply
  MaxIdenticalFailures = 1
  DispatchCap = 1
  MaxSequence = 1
  Top <- mcTop
  Report <- mcReport
  DefaultThresholds <- mcDefault
  FittedThresholds <- mcFitted
PROPERTIES VerdictNeverWidens
CHECK_DEADLOCK FALSE
