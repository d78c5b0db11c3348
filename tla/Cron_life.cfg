SPECIFICATION CronLiveSpec
CONSTANTS
  a1 = a1
  a2 = a2
  b1 = b1
  g1 = g1
  Jobs <- ThreeJobs
  NameOf <- Named
  Bad = {a2}
  SingletonJobs = {a1}
  Stoppers <- OneStopper
  MaxStarts = 2
  MaxTasks = 1
INVARIANTS
  OneEntryEach
  StoppedIsSilent
  ShutdownWaits
PROPERTIES
  BothReturn
CHECK_DEADLOCK FALSE
