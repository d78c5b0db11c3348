SPECIFICATION LiveSpec
CONSTANTS
  r1 = r1
  r2 = r2
  Relays <- OneRelay
  MaxStarts = 2
  NumMsgs = 1
  BatchSize = 1
  MaxRetries = 1
  Faults <- EveryFault
  MaxFaults = 2
INVARIANTS
  StopIsQuiet
  NothingLost
  DuplicatesAreResets
PROPERTIES
  EverythingSettled
  StopEnds
CHECK_DEADLOCK FALSE
