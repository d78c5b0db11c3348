------------------------------- MODULE MCSaga -------------------------------
(* Small instances of Saga: four steps, the last two without Compensate.     *)
EXTENDS Saga

FirstTwo     == {1, 2}
EveryFault   == AllFaults
=============================================================================
