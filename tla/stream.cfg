SPECIFICATION StreamFairSpec
CONSTANTS
  Items <- SomeItems
  FlushInterval = 2
  MaxItems = 4
CHECK_DEADLOCK FALSE
INVARIANTS EndIsComplete OutputIsWhole
PROPERTIES Ends
