SPECIFICATION FairSpec
CONSTANTS
  Threads = {t1, t2}
  RowsPerThread = 2
  MaxRows = 2
  Callers = {f1}
  MaxTriggers = 1
  QueueMaxSize = 1
  Configs <- QueueConfigs
  WorkerCapacity = 1
INVARIANTS TypeOK QueueBounded SlotAccounting FlushBarrier 
PROPERTIES ImplementsLedger CallsAnswered RowsSettle ClosedDrains
