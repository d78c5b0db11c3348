--------------------------- MODULE MCEventSourcing ---------------------------
(* Small instances of EventSourcing: two sessions on one aggregate.         *)
EXTENDS EventSourcing

CONSTANTS s1, s2, a

TwoSessions == {s1, s2}
OneId       == {a}
EveryFault  == AllFaults
NoFault     == {}
=============================================================================
