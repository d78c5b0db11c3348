SPECIFICATION LiveSpec
CONSTANTS
  r1 = r1
  r2 = r2
  r3 = r3
  NoOne = NoOne
  Requests <- ThreeRequests
  Size = 2
  Blocking <- BlockingOne
  Skipping <- SkippingOne
  Faults <- EveryFault
  MaxFaults = 2
INVARIANTS
  NeverOverAdmits
  RepeatsExplained
PROPERTIES
  GuardsReopen
CHECK_DEADLOCK FALSE
