-------------------------------- MODULE Mutex --------------------------------
(***************************************************************************)
(* What storage/lock promises to the callers of one key: one of them at a   *)
(* time is between a TryLock or Lock that succeeded and the Unlock that     *)
(* gives the lock back.  How they wait, and how an entry that nobody owns   *)
(* any more disappears, is left out.                                        *)
(***************************************************************************)
EXTENDS FiniteSets

CONSTANT Callers

VARIABLE inside  \* the callers the lock was given to

MutexInit == inside = {}

Enter(c) == inside = {} /\ inside' = {c}

Leave(c) == inside = {c} /\ inside' = {}

MutexNext == \E c \in Callers : Enter(c) \/ Leave(c)

MutexSpec == MutexInit /\ [][MutexNext]_inside
=============================================================================
