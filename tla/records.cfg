SPECIFICATION FairSpec
CONSTANTS
  Tasks = {"a", "b"}
  Programs <- AllPrograms
  MaxFirst = 3
  MaxSecond = 2
  Handles = {"dataset", "experiment", "clone"}
  Ids = {1, 2}
  Failed = Failed
  None = None
  MaxStranded = 2
  Checked = TRUE
  DataSize = 3
  BatchSize = 2
CHECK_DEADLOCK FALSE
INVARIANTS RowsKeptOnce RowsInOrder ReadsEverything LoggedIsFlushed OneObject
PROPERTIES CallsReturn
