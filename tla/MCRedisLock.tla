----------------------------- MODULE MCRedisLock -----------------------------
(* Small instances of RedisLock: two goroutines share an instance, a third   *)
(* has one of its own.                                                       *)
EXTENDS RedisLock

CONSTANTS i1, i2, c1, c2, c3

TwoInstances == {i1, i2}
ThreeCallers == {c1, c2, c3}
SharedAndOwn == [c \in ThreeCallers |-> IF c = c3 THEN i2 ELSE i1]
Anything     == {"error", "crash", "outlive"}
=============================================================================
