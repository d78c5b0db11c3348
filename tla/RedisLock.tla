------------------------------ MODULE RedisLock ------------------------------
(***************************************************************************)
(* The distributed lock of storage/lock on the Redis cache, for one key.    *)
(*                                                                         *)
(* An instance is one *lock.Redis: it has one owner id and one counter      *)
(* held[key], which all the goroutines that use it share.  A caller is such *)
(* a goroutine; At says of which instance.  One Redis command is one step,  *)
(* and so is one critical section of heldMu: between the two other callers  *)
(* run.                                                                     *)
(*                                                                         *)
(* Time is a choice: an entry may expire whenever nobody it was given to    *)
(* still works under it; that it expires under one who does is the fault    *)
(* "outlive" (the work takes longer than the ttl).  The fault "error" is a  *)
(* Redis command that fails, before or after it took effect; "crash" ends   *)
(* the process of an instance, and one that is started again is another     *)
(* instance, since NewRedis draws a new owner id.                            *)
(***************************************************************************)
EXTENDS Naturals, FiniteSets

CONSTANTS Instances,  \* the *lock.Redis objects
          Callers,    \* the goroutines that use them
          At,         \* At[c]: the instance caller c uses
          NoOne,      \* no entry in Redis; no caller
          Faults,     \* the faults that may happen
          MaxErrors,  \* bound: how many Redis commands fail
          MaxLapses   \* bound: how many entries of an instance expire under their holder

ASSUME AtAssumption == At \in [Callers -> Instances]
ASSUME CallersAssumption == IsFiniteSet(Callers)
ASSUME NoOneAssumption == NoOne \notin Instances /\ NoOne \notin Callers
ASSUME FaultsAssumption == Faults \subseteq {"outlive", "error", "crash"}
ASSUME BoundsAssumption == MaxErrors \in Nat /\ MaxLapses \in Nat

VARIABLES
  key,    \* the value of the entry: the owner id, here the instance
  taker,  \* the caller whose SETNX wrote the entry (history)
  held,   \* held[i]: Redis.held[key] of instance i
  at,     \* at[c]: where caller c stands
  errors, \* Redis commands that have failed
  lapses  \* lapses[i]: entries of instance i that expired under their holder (history)

vars == <<key, taker, held, at, errors, lapses>>

Phase == {"idle",     \* outside
          "waiting",  \* in Lock, between two attempts
          "taken",    \* SETNX succeeded, held not yet counted
          "inside",   \* TryLock or Lock has returned with the lock
          "extend",   \* Extend: held[key] > 0 was seen
          "lost",     \* Extend: Redis said no, held not yet deleted
          "expired",  \* Extend has returned ErrLockExpired
          "unlock",   \* Unlock: held[key] > 0 was seen
          "uncount",  \* Unlock: Redis has answered, held not yet decremented
          "dead"}     \* the process is gone

(* The callers that were given the lock and have not given it back.         *)
Holding == {"taken", "inside", "extend", "lost", "unlock"}
Holders == {c \in Callers : at[c] \in Holding}

(* The callers of instance i that have added to held[key] and have not yet   *)
(* taken that back.                                                          *)
Counted(i) ==
  {c \in Callers : At[c] = i /\ at[c] \notin {"idle", "waiting", "taken", "dead"}}

TypeOK ==
  /\ key \in Instances \cup {NoOne}
  /\ taker \in Callers \cup {NoOne}
  /\ held \in [Instances -> Nat]
  /\ at \in [Callers -> Phase]
  /\ errors \in 0 .. MaxErrors
  /\ lapses \in [Instances -> Nat]
  /\ taker # NoOne => key = At[taker]

Init ==
  /\ key = NoOne
  /\ taker = NoOne
  /\ held = [i \in Instances |-> 0]
  /\ at = [c \in Callers |-> "idle"]
  /\ errors = 0
  /\ lapses = [i \in Instances |-> 0]

MovesTo(c, phase) == at' = [at EXCEPT ![c] = phase]

Fails  == "error" \in Faults /\ errors < MaxErrors /\ errors' = errors + 1
Answers == UNCHANGED errors

-----------------------------------------------------------------------------
(* cache.TryLock: SETNX with a ttl.                                          *)

(* mutant: GET, then SET *)
AcquiresBlindly(c) ==
  /\ key' = At[c]
  /\ taker' = c

(* The entry was free and is now c's.                                        *)
Acquires(c) ==
  /\ key = NoOne
  /\ key' = At[c]
  /\ taker' = c

(* An error: nothing was written, or the answer of a SETNX that did write   *)
(* was lost, and the entry belongs to nobody.                                *)
TryFails(c) ==
  /\ Fails
  /\ \/ UNCHANGED <<key, taker>>
     \/ key = NoOne /\ key' = At[c] /\ taker' = NoOne

(* Redis.TryLock called directly: one attempt.                               *)
TryLock(c) ==
  /\ at[c] = "idle"
  /\ \/ Acquires(c) /\ Answers /\ MovesTo(c, "taken")
     \/ TryFails(c) /\ UNCHANGED at
  /\ UNCHANGED <<held, lapses>>

(* Redis.Lock: attempts until one succeeds or fails with an error ...       *)
Lock(c) ==
  /\ at[c] \in {"idle", "waiting"}
  /\ \/ Acquires(c) /\ Answers /\ MovesTo(c, "taken")
     \/ key # NoOne /\ Answers /\ MovesTo(c, "waiting") /\ UNCHANGED <<key, taker>>
     \/ TryFails(c) /\ MovesTo(c, "idle")
  /\ UNCHANGED <<held, lapses>>

(* ... or the context ends or maxRetries is reached.                        *)
GiveUp(c) ==
  /\ at[c] = "waiting"
  /\ MovesTo(c, "idle")
  /\ UNCHANGED <<key, taker, held, errors, lapses>>

(* held[key]++                                                               *)
Count(c) ==
  /\ at[c] = "taken"
  /\ held' = [held EXCEPT ![At[c]] = @ + 1]
  /\ MovesTo(c, "inside")
  /\ UNCHANGED <<key, taker, errors, lapses>>

-----------------------------------------------------------------------------
(* Extend                                                                    *)

(* mutant: the scripts do not compare *)
OwnsWhatever(c) == key # NoOne

(* What the Lua scripts of Unlock and ExtendLock compare.                    *)
Owns(c) == key = At[c]

(* Extend returns ErrLockNotHeld at once unless held[key] > 0.               *)
Extend(c) ==
  /\ at[c] = "inside"
  /\ held[At[c]] > 0
  /\ MovesTo(c, "extend")
  /\ UNCHANGED <<key, taker, held, errors, lapses>>

(* ExtendLock gave the entry a fresh ttl, or said no, or failed.             *)
ExtendRuns(c) ==
  /\ at[c] = "extend"
  /\ \/ Owns(c) /\ Answers /\ MovesTo(c, "inside")
     \/ ~ Owns(c) /\ Answers /\ MovesTo(c, "lost")
     \/ Fails /\ MovesTo(c, "inside")
  /\ UNCHANGED <<key, taker, held, lapses>>

(* delete(held, key)                                                         *)
DropHeld(c) ==
  /\ at[c] = "lost"
  /\ held' = [held EXCEPT ![At[c]] = 0]
  /\ MovesTo(c, "expired")
  /\ UNCHANGED <<key, taker, errors, lapses>>

-----------------------------------------------------------------------------
(* Unlock                                                                    *)

(* A deferred Unlock also runs after Extend has said that the lock is gone.  *)
(* Without held[key] > 0 Unlock returns ErrLockNotHeld at once.              *)
Unlock(c) ==
  /\ at[c] \in {"inside", "expired"}
  /\ MovesTo(c, IF held[At[c]] > 0 THEN "unlock" ELSE "idle")
  /\ UNCHANGED <<key, taker, held, errors, lapses>>

Delete(c) ==
  IF Owns(c) THEN key' = NoOne /\ taker' = NoOne ELSE UNCHANGED <<key, taker>>

(* The script ran, or the call failed before or after it ran: then Unlock    *)
(* returns the error and leaves held as it is.                               *)
UnlockRuns(c) ==
  /\ at[c] = "unlock"
  /\ \/ Delete(c) /\ Answers /\ MovesTo(c, "uncount")
     \/ Delete(c) /\ Fails /\ MovesTo(c, "idle")
     \/ UNCHANGED <<key, taker>> /\ Fails /\ MovesTo(c, "idle")
  /\ UNCHANGED <<held, lapses>>

(* mutant: the map entry is always deleted *)
NothingLeft(n) == 0

Decremented(n) == IF n > 1 THEN n - 1 ELSE 0

(* held[key]--, and the map entry is deleted when it is not positive.        *)
Uncount(c) ==
  /\ at[c] = "uncount"
  /\ held' = [held EXCEPT ![At[c]] = Decremented(@)]
  /\ MovesTo(c, "idle")
  /\ UNCHANGED <<key, taker, errors, lapses>>

-----------------------------------------------------------------------------
(* The ttl.                                                                  *)

(* Somebody works under the entry.                                           *)
Busy == taker # NoOne /\ at[taker] \in Holding

Goes ==
  /\ key' = NoOne /\ taker' = NoOne
  /\ lapses' = IF Busy THEN [lapses EXCEPT ![At[taker]] = @ + 1] ELSE lapses
  /\ UNCHANGED <<held, at, errors>>

(* mutant: a SETNX without ttl, and an expiry set by the caller afterwards *)
LapseOfTaken == taker # NoOne /\ Goes

Lapse == key # NoOne /\ Goes

Expire ==
  /\ Busy => "outlive" \in Faults /\ lapses[At[taker]] < MaxLapses
  /\ Lapse

(* The process dies; its entry stays until the ttl runs out.                 *)
Crash(i) ==
  /\ "crash" \in Faults
  /\ at' = [c \in Callers |-> IF At[c] = i THEN "dead" ELSE at[c]]
  /\ held' = [held EXCEPT ![i] = 0]
  /\ UNCHANGED <<key, taker, errors, lapses>>

CallerStep(c) ==
  \/ TryLock(c) \/ Lock(c) \/ GiveUp(c) \/ Count(c)
  \/ Extend(c) \/ ExtendRuns(c) \/ DropHeld(c)
  \/ Unlock(c) \/ UnlockRuns(c) \/ Uncount(c)

Next ==
  \/ Expire
  \/ \E i \in Instances : Crash(i)
  \/ \E c \in Callers : CallerStep(c)

Spec == Init /\ [][Next]_vars

-----------------------------------------------------------------------------
(* Safety.                                                                   *)

(* No entry has expired under a caller that worked longer than its ttl.      *)
NobodyLate == \A i \in Instances : lapses[i] = 0

(* Until a caller works longer than its ttl the lock is a mutex: from the    *)
(* moment the lock was given to a caller until it gives it back nobody else  *)
(* has it, however many commands fail and whoever shares an instance.        *)
HoldersInTime == IF NobodyLate THEN Holders ELSE {}

Promise == INSTANCE Mutex WITH inside <- HoldersInTime

ImplementsMutex == Promise!MutexSpec

(* A caller loses the lock only through the lateness of its own instance: of *)
(* every instance, no more callers believe to hold the lock without having   *)
(* the entry than entries of it expired under their holder.  A late Unlock   *)
(* may take a newer entry from another goroutine of the instance, which is   *)
(* then a stray instead of the late one; never from another instance.        *)
Strays(i) == {c \in Callers : At[c] = i /\ at[c] \in Holding /\ taker # c}

OnlyLateLose == \A i \in Instances : Cardinality(Strays(i)) <= lapses[i]

(* A caller that has the lock can give it back: Unlock and Extend, which     *)
(* look at held[key] first, do not turn it away with ErrLockNotHeld.         *)
HolderIsHeard ==
  NobodyLate => \A c \in Callers : at[c] = "inside" /\ taker = c => held[At[c]] > 0

(* held[key] does not drift upwards: it exceeds the goroutines that count    *)
(* on it by at most the Unlocks that failed, also when entries expired under *)
(* some of them and Extend dropped the counter of all.                       *)
NoLeak ==
  \A i \in Instances :
    held[i] <= errors + Cardinality(Counted(i))

(* The counter, which the instance shares and which is written apart from    *)
(* Redis, follows its callers: it never fails a holder in time and never     *)
(* drifts away upwards.                                                      *)
CounterFollows == HolderIsHeard /\ NoLeak

-----------------------------------------------------------------------------
(* Liveness.  Goroutines are scheduled, Redis expires entries, and the work  *)
(* under the lock ends; whether anybody wants the lock, extends it or gives  *)
(* up is not a matter of fairness.                                           *)
Fairness ==
  /\ WF_vars(Expire)
  /\ \A c \in Callers :
       /\ WF_vars(at[c] = "waiting" /\ Lock(c))
       /\ WF_vars(Count(c) \/ ExtendRuns(c) \/ DropHeld(c))
       /\ WF_vars(Unlock(c) \/ UnlockRuns(c) \/ Uncount(c))

LiveSpec == Spec /\ Fairness

(* Waiting in Lock does not go on for ever while nobody is let in: lost      *)
(* answers leave entries that only the ttl removes.                          *)
SomebodyGetsIn ==
  (\E c \in Callers : at[c] = "waiting")
    ~> ((Holders # {}) \/ (\A c \in Callers : at[c] # "waiting"))
=============================================================================
