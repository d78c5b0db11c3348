------------------------------ MODULE MCOutbox ------------------------------
(* Small instances of Outbox: the constants of every run are in its .cfg.   *)
EXTENDS Outbox, TLC

CONSTANTS r1, r2

OneRelay  == {r1}
TwoRelays == {r1, r2}
Symmetry  == Permutations(Relays)

OrderlyOnes == {"broker", "db", "crash"}
EveryFault  == AllFaults
=============================================================================
