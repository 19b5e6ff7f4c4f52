SPECIFICATION Spec
CONSTANTS
  Threads = {t1}
  RowsPerThread = 1
  MaxRows = 1
  Callers = {f1}
  MaxTriggers = 1
  QueueMaxSize = 1
  Configs <- ClientConfigs
  WorkerCapacity = 1
INVARIANT NoRowVanishes
