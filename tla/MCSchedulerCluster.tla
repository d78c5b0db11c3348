------------------------- MODULE MCSchedulerCluster -------------------------
(* Two processes: two runs may meet in the first, a third is in the second.  *)
EXTENDS SchedulerCluster

CONSTANTS p1, p2, r1, r2, r3

TwoProcs    == {p1, p2}
ThreeRuns   == {r1, r2, r3}
Spread      == [r \in ThreeRuns |-> IF r = r3 THEN p2 ELSE p1]
Orderly     == {"error", "crash"}
=============================================================================
