SPECIFICATION LiveSpec
CONSTANTS
  j1 = j1
  w1 = w1
  w2 = w2
  NoJob = NoJob
  Jobs <- OneJob
  MaxRetries = 2
  MaxAttempts = 3
  Workers <- TwoWorkers
  Concurrency = 1
  Faults = {"call", "crash"}
  MaxFaults = 1
  Cancellable <- OneWorker
  Closable <- OtherWorker
INVARIANTS
  Accounted
  RetriesSpent
PROPERTIES
  SettledForGood
  EveryJobEnds
  StartReturns
CHECK_DEADLOCK FALSE
