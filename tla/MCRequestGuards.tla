--------------------------- MODULE MCRequestGuards ---------------------------
(* Small instances of RequestGuards: three requests for two permits, one of   *)
(* them guarded WithSkipOnError, another one WithBlock.                       *)
EXTENDS RequestGuards

CONSTANTS r1, r2, r3

ThreeRequests == {r1, r2, r3}
SkippingOne   == {r3}
BlockingOne   == {r1}
EveryFault    == AllFaults
=============================================================================
