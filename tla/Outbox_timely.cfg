SPECIFICATION Spec
CONSTANTS
  r1 = r1
  r2 = r2
  Relays <- TwoRelays
  MaxStarts = 1
  NumMsgs = 2
  BatchSize = 2
  MaxRetries = 1
  Faults <- OrderlyOnes
  MaxFaults = 1
SYMMETRY Symmetry
INVARIANTS
  OneHolder
PROPERTIES
  KeepsPromise
CHECK_DEADLOCK FALSE
