----------------------------- MODULE MCJobQueue -----------------------------
(* A small instance of JobQueue: one job, two workers.                      *)
EXTENDS JobQueue

CONSTANTS j1, w1, w2

OneJob      == {j1}
TwoWorkers  == {w1, w2}
OneWorker   == {w1}
OtherWorker == {w2}
=============================================================================
