SPECIFICATION FairSpec
CONSTANTS
  RowSizes = {2, 5}
  MaxRows = 4
  MaxItems = 3
  Limits = {7, 16}
  DefaultLimit = 40
  Frame = 3
  MaxAttempts = 3
CHECK_DEADLOCK FALSE
INVARIANTS BatchesFit StoredOnce
PROPERTIES ImplementsTransfer Returns
