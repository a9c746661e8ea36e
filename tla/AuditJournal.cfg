SPECIFICATION Spec
CONSTANTS
  Rows = 5
  Bytes = {1, 2, 5, 6}
  MaxFileBytes = 5
  Clock = 2
  MaxFaults = 2
INVARIANTS ToldIsFound TearHidesOne FileBounded
PROPERTY ConfirmedStays
CHECK_DEADLOCK FALSE
