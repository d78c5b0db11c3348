SPECIFICATION LiveSpec
CONSTANTS
  p1 = p1
  p2 = p2
  r1 = r1
  r2 = r2
  r3 = r3
  NoOne = NoOne
  Procs <- TwoProcs
  Runs <- ThreeRuns
  ProcOf <- Spread
  Singleton = TRUE
  RetryCount = 1
  Timeout = 3
  Interval = 1
  LockTTL = 8
  Obedient = TRUE
  Faults <- Orderly
  MaxErrors = 1
INVARIANTS
  OneInstance
  SingletonKept
PROPERTIES
  UsesLock
  NothingStaysTaken
