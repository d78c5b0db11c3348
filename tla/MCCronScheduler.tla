--------------------------- MODULE MCCronScheduler ---------------------------
(* Small instances of CronScheduler.                                         *)
EXTENDS CronScheduler

CONSTANTS a1, a2, b1, g1

(* Two jobs of one name, and one of another.                                 *)
ThreeJobs == {a1, a2, b1}
Named     == [j \in ThreeJobs |-> IF j = b1 THEN "b" ELSE "a"]
OneStopper  == {g1}
=============================================================================
