SPECIFICATION LiveSpec
CONSTANTS
  NumSteps = 4
  Undoable <- FirstTwo
  RetryCount = 1
  Faults <- EveryFault
  MaxFaults = 4
INVARIANTS
  RecordIsTruthful
PROPERTIES
  KeepsPromise
  BackwardsOnly
  Returns
CHECK_DEADLOCK FALSE
