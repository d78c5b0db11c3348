--------------------------- MODULE RedisLockProofs ---------------------------
(* Proofs about RedisLock, for any instances and callers.                    *)
EXTENDS RedisLock, TLAPS, FiniteSetTheorems

(* The counter is a natural number and an entry belongs to the instance of   *)
(* the caller that wrote it: TypeOK holds always.                            *)
THEOREM TypeCorrect == Spec => []TypeOK
<1> USE AtAssumption, NoOneAssumption, BoundsAssumption
<1>1. Init => TypeOK
  BY DEF Init, TypeOK, Phase
<1>2. TypeOK /\ [Next]_vars => TypeOK'
  <2> SUFFICES ASSUME TypeOK, [Next]_vars PROVE TypeOK'
    OBVIOUS
  <2> USE DEF TypeOK, Phase, MovesTo
  <2>1. CASE UNCHANGED vars
    BY <2>1 DEF vars
  <2>2. CASE Expire
    BY <2>2 DEF Expire, Lapse, Goes, Busy
  <2>3. ASSUME NEW c \in Callers, CallerStep(c) PROVE TypeOK'
    <3>1. CASE TryLock(c)
      BY <3>1 DEF TryLock, Acquires, TryFails, Fails, Answers
    <3>2. CASE Lock(c)
      BY <3>2 DEF Lock, Acquires, TryFails, Fails, Answers
    <3>3. CASE GiveUp(c) \/ Count(c)
      BY <3>3 DEF GiveUp, Count
    <3>4. CASE Extend(c) \/ ExtendRuns(c) \/ DropHeld(c)
      BY <3>4 DEF Extend, ExtendRuns, DropHeld, Fails, Answers
    <3>5. CASE Unlock(c) \/ UnlockRuns(c)
      BY <3>5 DEF Unlock, UnlockRuns, Delete, Fails, Answers
    <3>6. CASE Uncount(c)
      BY <3>6 DEF Uncount, Decremented
    <3> QED BY <2>3, <3>1, <3>2, <3>3, <3>4, <3>5, <3>6 DEF CallerStep
  <2>4. ASSUME NEW i \in Instances, Crash(i) PROVE TypeOK'
    BY <2>4 DEF Crash
  <2> QED BY <2>1, <2>2, <2>3, <2>4 DEF Next
<1> QED BY <1>1, <1>2, PTL DEF Spec

-----------------------------------------------------------------------------
(* Nobody becomes timely again, and a step after which nobody was late let   *)
(* no entry expire under its caller.                                         *)
LEMMA LateForGood ==
  ASSUME TypeOK, [Next]_vars, NobodyLate'
  PROVE  NobodyLate /\ (Expire => ~ Busy)
<1> USE DEF TypeOK, NobodyLate
<1>1. Expire => NobodyLate /\ ~ Busy
  <2> SUFFICES ASSUME Expire PROVE NobodyLate /\ ~ Busy
    OBVIOUS
  <2>1. CASE Busy
    <3>1. At[taker] \in Instances
      BY <2>1, AtAssumption DEF Busy
    <3>2. lapses'[At[taker]] = lapses[At[taker]] + 1
      BY <2>1, <3>1 DEF Expire, Lapse, Goes
    <3> QED BY <3>1, <3>2
  <2>2. CASE ~ Busy
    BY <2>2 DEF Expire, Lapse, Goes
  <2> QED BY <2>1, <2>2
<1>2. ASSUME NEW c \in Callers, CallerStep(c) PROVE NobodyLate
  BY <1>2 DEF CallerStep, TryLock, Lock, GiveUp, Count, Extend, ExtendRuns, DropHeld,
              Unlock, UnlockRuns, Uncount
<1>3. ASSUME NEW i \in Instances, Crash(i) PROVE NobodyLate
  BY <1>3 DEF Crash
<1> QED BY <1>1, <1>2, <1>3 DEF Next, vars

(* Whoever was given the lock is the caller whose SETNX wrote the entry, so  *)
(* Extend never tells it that the lock is lost.                              *)
TakerHolds ==
  \A c \in Callers : at[c] \notin {"lost", "expired"} /\ (at[c] \in Holding => taker = c)

LEMMA TakerHoldsStep ==
  ASSUME NobodyLate', TypeOK, TakerHolds, [Next]_vars
  PROVE  TakerHolds'
<1> USE AtAssumption, NoOneAssumption DEF TypeOK, TakerHolds, Holding, Phase, MovesTo
<1>1. CASE UNCHANGED vars
  BY <1>1 DEF vars
<1>2. CASE Expire
  BY <1>2, LateForGood DEF Expire, Lapse, Goes, Busy
<1>3. ASSUME NEW c \in Callers, CallerStep(c) PROVE TakerHolds'
  <2>1. CASE TryLock(c)
    BY <2>1 DEF TryLock, Acquires, TryFails
  <2>2. CASE Lock(c)
    BY <2>2 DEF Lock, Acquires, TryFails
  <2>3. CASE GiveUp(c) \/ Count(c)
    BY <2>3 DEF GiveUp, Count
  <2>4. CASE Extend(c) \/ ExtendRuns(c) \/ DropHeld(c)
    BY <2>4 DEF Extend, ExtendRuns, DropHeld, Owns
  <2>5. CASE Unlock(c)
    BY <2>5 DEF Unlock
  <2>6. CASE UnlockRuns(c)
    BY <2>6 DEF UnlockRuns, Delete
  <2>7. CASE Uncount(c)
    BY <2>7 DEF Uncount
  <2> QED BY <1>3, <2>1, <2>2, <2>3, <2>4, <2>5, <2>6, <2>7 DEF CallerStep
<1>4. ASSUME NEW i \in Instances, Crash(i) PROVE TakerHolds'
  BY <1>4 DEF Crash
<1> QED BY <1>1, <1>2, <1>3, <1>4 DEF Next

(* Every step is a step of the mutex or changes nothing of it: first while   *)
(* nobody is late ...                                                         *)
LEMMA StepRefinesInTime ==
  ASSUME NobodyLate, NobodyLate', TypeOK, TakerHolds, [Next]_vars
  PROVE  [Promise!MutexNext]_HoldersInTime
<1>0. HoldersInTime = Holders /\ HoldersInTime' = Holders'
  BY DEF HoldersInTime
<1> USE AtAssumption, NoOneAssumption DEF TypeOK, TakerHolds, Holding, Phase, MovesTo, Holders
<1>1. CASE UNCHANGED vars
  BY <1>0, <1>1 DEF vars
<1>2. CASE Expire
  BY <1>0, <1>2 DEF Expire, Lapse, Goes
<1>3. ASSUME NEW c \in Callers, CallerStep(c) PROVE [Promise!MutexNext]_HoldersInTime
  <2> DEFINE Acquired == at[c] \in {"idle", "waiting"} /\ Acquires(c) /\ MovesTo(c, "taken")
             Released == at[c] \in {"inside", "unlock"} /\ (MovesTo(c, "uncount") \/ MovesTo(c, "idle"))
  <2>1. Acquired => Promise!Enter(c)
    <3> SUFFICES ASSUME Acquired PROVE Promise!Enter(c)
      OBVIOUS
    <3>1. \A d \in Callers : at[d] \notin Holding
      BY DEF Acquires
    <3> QED BY <1>0, <3>1 DEF Promise!Enter
  <2>2. Released => Promise!Leave(c)
    <3> SUFFICES ASSUME Released PROVE Promise!Leave(c)
      OBVIOUS
    <3>1. \A d \in Callers : at[d] \in Holding => d = c
      OBVIOUS
    <3> QED BY <1>0, <3>1 DEF Promise!Leave
  <2>3. Acquired \/ Released \/ UNCHANGED Holders
    <3>1. CASE TryLock(c) \/ Lock(c)
      BY <3>1 DEF TryLock, Lock, TryFails
    <3>2. CASE GiveUp(c) \/ Count(c)
      BY <3>2 DEF GiveUp, Count
    <3>3. CASE Extend(c) \/ ExtendRuns(c)
      BY <3>3 DEF Extend, ExtendRuns
    <3>4. CASE DropHeld(c)
      BY <3>4 DEF DropHeld
    <3>5. CASE Unlock(c)
      <4>1. CASE held[At[c]] > 0
        BY <3>5, <4>1 DEF Unlock
      <4>2. CASE ~ (held[At[c]] > 0)
        BY <3>5, <4>2 DEF Unlock
      <4> QED BY <4>1, <4>2
    <3>6. CASE UnlockRuns(c) \/ Uncount(c)
      BY <3>6 DEF UnlockRuns, Uncount
    <3> QED BY <1>3, <3>1, <3>2, <3>3, <3>4, <3>5, <3>6 DEF CallerStep
  <2> QED BY <1>0, <2>1, <2>2, <2>3 DEF Promise!MutexNext
<1>4. ASSUME NEW i \in Instances, Crash(i) PROVE [Promise!MutexNext]_HoldersInTime
  <2>1. CASE \E c \in Callers : At[c] = i /\ at[c] \in Holding
    <3>1. PICK c \in Callers : At[c] = i /\ at[c] \in Holding
      BY <2>1
    <3>2. Holders = {c}
      BY <3>1
    <3>3. Holders' = {}
      BY <1>4, <3>1, <3>2 DEF Crash
    <3> QED BY <1>0, <3>2, <3>3 DEF Promise!MutexNext, Promise!Leave
  <2>2. CASE ~ \E c \in Callers : At[c] = i /\ at[c] \in Holding
    BY <1>0, <1>4, <2>2 DEF Crash
  <2> QED BY <2>1, <2>2
<1> QED BY <1>1, <1>2, <1>3, <1>4 DEF Next

(* ... then with the entry that expires under its caller, who leaves with     *)
(* it, and nothing after that.                                               *)
LEMMA StepRefines ==
  ASSUME TypeOK, NobodyLate => TakerHolds, [Next]_vars
  PROVE  [Promise!MutexNext]_HoldersInTime
<1>1. CASE NobodyLate'
  BY <1>1, LateForGood, StepRefinesInTime
<1>2. CASE ~ NobodyLate' /\ ~ NobodyLate
  BY <1>2 DEF HoldersInTime
<1>3. CASE ~ NobodyLate' /\ NobodyLate
  <2>1. HoldersInTime = Holders /\ HoldersInTime' = {}
    BY <1>3 DEF HoldersInTime
  <2>2. lapses' # lapses
    BY <1>3 DEF NobodyLate
  <2>3. Busy
    <3>1. CASE Expire
      BY <2>2, <3>1 DEF Expire, Lapse, Goes
    <3>2. CASE UNCHANGED vars
      BY <2>2, <3>2 DEF vars
    <3>3. ASSUME NEW c \in Callers, CallerStep(c) PROVE lapses' = lapses
      BY <3>3 DEF CallerStep, TryLock, Lock, GiveUp, Count, Extend, ExtendRuns, DropHeld,
                  Unlock, UnlockRuns, Uncount
    <3>4. ASSUME NEW i \in Instances, Crash(i) PROVE lapses' = lapses
      BY <3>4 DEF Crash
    <3> QED BY <2>2, <3>1, <3>2, <3>3, <3>4 DEF Next
  <2>4. taker \in Callers /\ Holders = {taker}
    BY <1>3, <2>3 DEF Busy, TakerHolds, Holders, TypeOK
  <2> QED BY <2>1, <2>4 DEF Promise!MutexNext, Promise!Leave
<1> QED BY <1>1, <1>2, <1>3

TakerHoldsInTime == NobodyLate => TakerHolds

(* Until a caller works longer than its ttl, the lock implements the mutex:  *)
(* whatever commands fail, and whoever shares an instance.                   *)
THEOREM LockIsMutex == Spec => ImplementsMutex
<1>1. Init => TakerHoldsInTime
  BY DEF Init, TakerHolds, Holding, TakerHoldsInTime
<1>2. Init => Promise!MutexInit
  BY DEF Init, Promise!MutexInit, HoldersInTime, Holders, Holding
<1>3. TypeOK /\ TakerHoldsInTime /\ [Next]_vars => TakerHoldsInTime'
  BY LateForGood, TakerHoldsStep DEF TakerHoldsInTime
<1>4. TypeOK /\ TakerHoldsInTime /\ [Next]_vars => [Promise!MutexNext]_HoldersInTime
  BY StepRefines DEF TakerHoldsInTime
<1>5. Spec => []TypeOK
  BY TypeCorrect
<1> QED BY <1>1, <1>2, <1>3, <1>4, <1>5, PTL DEF Spec, ImplementsMutex, Promise!MutexSpec

-----------------------------------------------------------------------------
(* The counter.                                                              *)

LEMMA CountedFinite ==
  \A i \in Instances : IsFiniteSet(Counted(i)) /\ Cardinality(Counted(i)) \in Nat
BY CallersAssumption, FS_Subset, FS_CardinalityType DEF Counted

Covered == \A i \in Instances : Cardinality(Counted(i)) <= held[i]

(* How a step of c may change the callers that count on instance i.          *)
LEMMA CountedGrows ==
  ASSUME TypeOK, NEW c \in Callers, NEW i \in Instances,
         at[c] \in {"idle", "waiting", "taken"}, MovesTo(c, "inside")
  PROVE  Cardinality(Counted(i)') = Cardinality(Counted(i)) + (IF i = At[c] THEN 1 ELSE 0)
<1> USE AtAssumption DEF TypeOK, MovesTo
<1>1. CASE i = At[c]
  <2>1. Counted(i)' = Counted(i) \cup {c} /\ c \notin Counted(i)
    BY <1>1 DEF Counted
  <2> QED BY <1>1, <2>1, CountedFinite, FS_AddElement
<1>2. CASE i # At[c]
  <2>1. Counted(i)' = Counted(i)
    BY <1>2 DEF Counted
  <2> QED BY <1>2, <2>1, CountedFinite
<1> QED BY <1>1, <1>2

LEMMA CountedShrinks ==
  ASSUME TypeOK, NEW c \in Callers, NEW i \in Instances,
         at[c] \notin {"idle", "waiting", "taken", "dead"}, MovesTo(c, "idle")
  PROVE  Cardinality(Counted(i)') = Cardinality(Counted(i)) - (IF i = At[c] THEN 1 ELSE 0)
<1> USE AtAssumption DEF TypeOK, MovesTo
<1>1. CASE i = At[c]
  <2>1. Counted(i)' = Counted(i) \ {c} /\ c \in Counted(i)
    BY <1>1 DEF Counted
  <2>2. Cardinality(Counted(i) \ {c}) = Cardinality(Counted(i)) - 1
    BY <2>1, CountedFinite, FS_RemoveElement
  <2> QED BY <1>1, <2>1, <2>2
<1>2. CASE i # At[c]
  <2>1. Counted(i)' = Counted(i)
    BY <1>2 DEF Counted
  <2> QED BY <1>2, <2>1, CountedFinite
<1> QED BY <1>1, <1>2

LEMMA CountedDies ==
  ASSUME NEW i \in Instances, NEW j \in Instances, Crash(j)
  PROVE  Cardinality(Counted(i)') = IF i = j THEN 0 ELSE Cardinality(Counted(i))
<1>1. CASE i = j
  <2>1. Counted(i)' = {}
    BY <1>1 DEF Crash, Counted
  <2> QED BY <1>1, <2>1, FS_EmptySet
<1>2. CASE i # j
  <2>1. Counted(i)' = Counted(i)
    BY <1>2 DEF Crash, Counted
  <2> QED BY <1>2, <2>1
<1> QED BY <1>1, <1>2

(* As long as no caller works longer than its ttl, held[key] counts at least *)
(* the goroutines that count on it.                                          *)
LEMMA CoveredStep ==
  ASSUME TypeOK, TakerHolds, Covered, [Next]_vars
  PROVE  Covered'
<1>1. CASE UNCHANGED vars
  BY <1>1 DEF vars, Covered, Counted
<1>2. CASE Expire
  BY <1>2 DEF Expire, Lapse, Goes, Covered, Counted
<1>3. ASSUME NEW c \in Callers, CallerStep(c) PROVE Covered'
  <2> SUFFICES ASSUME NEW i \in Instances PROVE Cardinality(Counted(i)') <= held'[i]
    BY DEF Covered
  <2>0. Cardinality(Counted(i)) <= held[i] /\ held[i] \in Nat /\ Cardinality(Counted(i)) \in Nat
    BY CountedFinite DEF Covered, TypeOK
  <2>1. ASSUME held' = held, Counted(i)' = Counted(i)
        PROVE  Cardinality(Counted(i)') <= held'[i]
    BY <2>0, <2>1
  <2>2. ASSUME held' = held, at[c] \notin {"idle", "waiting", "taken", "dead"}, MovesTo(c, "idle")
        PROVE  Cardinality(Counted(i)') <= held'[i]
    BY <2>0, <2>2, CountedShrinks
  <2>3. CASE TryLock(c) \/ Lock(c) \/ GiveUp(c)
    <3>1. held' = held
      BY <2>3 DEF TryLock, Lock, GiveUp
    <3>2. Counted(i)' = Counted(i)
      BY <2>3 DEF TryLock, Lock, GiveUp, MovesTo, TypeOK, Counted
    <3> QED BY <2>1, <3>1, <3>2
  <2>4. CASE Count(c)
    <3>1. Cardinality(Counted(i)') = Cardinality(Counted(i)) + (IF i = At[c] THEN 1 ELSE 0)
      BY <2>4, CountedGrows DEF Count
    <3>2. held'[i] = held[i] + (IF i = At[c] THEN 1 ELSE 0)
      BY <2>4, AtAssumption DEF Count, TypeOK
    <3> QED BY <2>0, <3>1, <3>2
  <2>5. CASE Extend(c) \/ ExtendRuns(c)
    <3>1. held' = held
      BY <2>5 DEF Extend, ExtendRuns
    <3>2. Counted(i)' = Counted(i)
      BY <2>5 DEF Extend, ExtendRuns, MovesTo, TypeOK, Counted
    <3> QED BY <2>1, <3>1, <3>2
  <2>6. CASE DropHeld(c)
    BY <2>6 DEF DropHeld, TakerHolds
  <2>7. CASE Unlock(c)
    <3>1. CASE held[At[c]] > 0
      <4>1. held' = held /\ Counted(i)' = Counted(i)
        BY <2>7, <3>1 DEF Unlock, MovesTo, TypeOK, Counted
      <4> QED BY <2>1, <4>1
    <3>2. CASE ~ (held[At[c]] > 0)
      BY <2>2, <2>7, <3>2 DEF Unlock
    <3> QED BY <3>1, <3>2
  <2>8. CASE UnlockRuns(c)
    <3>1. CASE MovesTo(c, "uncount")
      <4>1. held' = held /\ Counted(i)' = Counted(i)
        BY <2>8, <3>1 DEF UnlockRuns, MovesTo, TypeOK, Counted
      <4> QED BY <2>1, <4>1
    <3>2. CASE MovesTo(c, "idle")
      BY <2>2, <2>8, <3>2 DEF UnlockRuns
    <3> QED BY <2>8, <3>1, <3>2 DEF UnlockRuns
  <2>9. CASE Uncount(c)
    <3>1. Cardinality(Counted(i)') = Cardinality(Counted(i)) - (IF i = At[c] THEN 1 ELSE 0)
      BY <2>9, CountedShrinks DEF Uncount
    <3>2. held'[i] = IF i = At[c] THEN Decremented(held[i]) ELSE held[i]
      BY <2>9, AtAssumption DEF Uncount, TypeOK
    <3> QED BY <2>0, <3>1, <3>2 DEF Decremented
  <2> QED BY <1>3, <2>3, <2>4, <2>5, <2>6, <2>7, <2>8, <2>9 DEF CallerStep
<1>4. ASSUME NEW j \in Instances, Crash(j) PROVE Covered'
  <2> SUFFICES ASSUME NEW i \in Instances PROVE Cardinality(Counted(i)') <= held'[i]
    BY DEF Covered
  <2>1. Cardinality(Counted(i)) <= held[i] /\ held[i] \in Nat
    BY DEF Covered, TypeOK
  <2>2. held'[i] = IF i = j THEN 0 ELSE held[i]
    BY <1>4 DEF Crash, TypeOK
  <2> QED BY <1>4, <2>1, <2>2, CountedDies
<1> QED BY <1>1, <1>2, <1>3, <1>4 DEF Next

CoveredInTime == NobodyLate => TakerHolds /\ Covered

(* Until a caller works longer than its ttl, Unlock and Extend do not turn   *)
(* the holder away.                                                          *)
THEOREM HolderIsAlwaysHeard == Spec => []HolderIsHeard
<1>1. Init => CoveredInTime
  <2>1. Init => TakerHolds
    BY DEF Init, TakerHolds, Holding
  <2>2. ASSUME Init, NEW i \in Instances PROVE Cardinality(Counted(i)) <= held[i]
    <3>1. Counted(i) = {}
      BY <2>2 DEF Init, Counted
    <3> QED BY <2>2, <3>1, FS_EmptySet DEF Init
  <2> QED BY <2>1, <2>2 DEF Covered, CoveredInTime
<1>2. TypeOK /\ CoveredInTime /\ [Next]_vars => CoveredInTime'
  BY LateForGood, TakerHoldsStep, CoveredStep DEF CoveredInTime
<1>3. TypeOK /\ CoveredInTime => HolderIsHeard
  <2> SUFFICES ASSUME TypeOK, Covered, NEW c \in Callers, at[c] = "inside"
               PROVE  held[At[c]] > 0
    BY DEF HolderIsHeard, CoveredInTime
  <2>1. At[c] \in Instances /\ c \in Counted(At[c])
    BY AtAssumption DEF Counted
  <2>2. Cardinality(Counted(At[c])) # 0
    BY <2>1, CountedFinite, FS_EmptySet
  <2> QED BY <2>1, <2>2, CountedFinite DEF Covered, TypeOK
<1>4. Spec => []TypeOK
  BY TypeCorrect
<1> QED BY <1>1, <1>2, <1>3, <1>4, PTL DEF Spec

(* Whatever happens, held[key] exceeds the goroutines that count on it by at *)
(* most the Unlocks that failed.                                             *)
THEOREM CounterDoesNotLeak == Spec => []NoLeak
<1>1. Init => NoLeak
  <2> SUFFICES ASSUME Init, NEW i \in Instances
               PROVE  held[i] <= errors + Cardinality(Counted(i))
    BY DEF NoLeak
  <2>1. Counted(i) = {}
    BY DEF Init, Counted
  <2> QED BY <2>1, FS_EmptySet DEF Init
<1>2. TypeOK /\ NoLeak /\ [Next]_vars => NoLeak'
  <2> SUFFICES ASSUME TypeOK, NoLeak, [Next]_vars, NEW i \in Instances
               PROVE  held'[i] <= errors' + Cardinality(Counted(i)')
    BY DEF NoLeak
  <2>0. /\ held[i] <= errors + Cardinality(Counted(i))
        /\ held[i] \in Nat /\ Cardinality(Counted(i)) \in Nat /\ errors \in Nat
    BY CountedFinite, BoundsAssumption DEF NoLeak, TypeOK
  <2> DEFINE Goal == held'[i] <= errors' + Cardinality(Counted(i)')
  <2>1. ASSUME held' = held, Counted(i)' = Counted(i), errors' \in {errors, errors + 1}
        PROVE  Goal
    BY <2>0, <2>1
  <2>2. CASE UNCHANGED vars
    <3>1. Counted(i)' = Counted(i)
      BY <2>2 DEF vars, Counted
    <3> QED BY <2>1, <2>2, <3>1 DEF vars
  <2>3. CASE Expire
    <3>1. Counted(i)' = Counted(i)
      BY <2>3 DEF Expire, Lapse, Goes, Counted
    <3> QED BY <2>1, <2>3, <3>1 DEF Expire, Lapse, Goes
  <2>4. ASSUME NEW c \in Callers, CallerStep(c) PROVE Goal
    <3>1. CASE TryLock(c) \/ Lock(c) \/ GiveUp(c)
      <4>1. held' = held /\ errors' \in {errors, errors + 1}
        BY <3>1 DEF TryLock, Lock, GiveUp, TryFails, Fails, Answers
      <4>2. Counted(i)' = Counted(i)
        BY <3>1 DEF TryLock, Lock, GiveUp, MovesTo, TypeOK, Counted
      <4> QED BY <2>1, <4>1, <4>2
    <3>2. CASE Count(c)
      <4>1. Cardinality(Counted(i)') = Cardinality(Counted(i)) + (IF i = At[c] THEN 1 ELSE 0)
        BY <3>2, CountedGrows DEF Count
      <4>2. held'[i] = held[i] + (IF i = At[c] THEN 1 ELSE 0) /\ errors' = errors
        BY <3>2, AtAssumption DEF Count, TypeOK
      <4> QED BY <2>0, <4>1, <4>2
    <3>3. CASE Extend(c) \/ ExtendRuns(c)
      <4>1. held' = held /\ errors' \in {errors, errors + 1}
        BY <3>3 DEF Extend, ExtendRuns, Fails, Answers
      <4>2. Counted(i)' = Counted(i)
        BY <3>3 DEF Extend, ExtendRuns, MovesTo, TypeOK, Counted
      <4> QED BY <2>1, <4>1, <4>2
    <3>4. CASE DropHeld(c)
      <4>1. held'[i] \in {0, held[i]} /\ errors' = errors
        BY <3>4 DEF DropHeld, TypeOK
      <4>2. Counted(i)' = Counted(i)
        BY <3>4 DEF DropHeld, MovesTo, TypeOK, Counted
      <4> QED BY <2>0, <4>1, <4>2
    <3>5. ASSUME MovesTo(c, "idle"), at[c] \notin {"idle", "waiting", "taken", "dead"},
                 held' = held,
                 \/ errors' = errors + 1
                 \/ errors' = errors /\ held[At[c]] = 0
          PROVE  Goal
      <4>1. Cardinality(Counted(i)') = Cardinality(Counted(i)) - (IF i = At[c] THEN 1 ELSE 0)
        BY <3>5, CountedShrinks
      <4>2. Cardinality(Counted(i)') \in Nat
        <5>1. IsFiniteSet(Counted(i)')
          BY CallersAssumption, FS_Subset DEF Counted
        <5> QED BY <5>1, FS_CardinalityType
      <4> QED BY <2>0, <3>5, <4>1, <4>2
    <3>6. CASE Unlock(c)
      <4>1. CASE held[At[c]] > 0
        <5>1. held' = held /\ errors' = errors /\ Counted(i)' = Counted(i)
          BY <3>6, <4>1 DEF Unlock, MovesTo, TypeOK, Counted
        <5> QED BY <2>1, <5>1
      <4>2. CASE ~ (held[At[c]] > 0)
        <5>1. held[At[c]] = 0
          BY <4>2, AtAssumption DEF TypeOK
        <5> QED BY <3>5, <3>6, <4>2, <5>1 DEF Unlock
      <4> QED BY <4>1, <4>2
    <3>7. CASE UnlockRuns(c)
      <4>1. CASE MovesTo(c, "uncount") /\ Answers
        <5>1. held' = held /\ errors' = errors /\ Counted(i)' = Counted(i)
          BY <3>7, <4>1 DEF UnlockRuns, MovesTo, TypeOK, Counted, Answers
        <5> QED BY <2>1, <5>1
      <4>2. CASE MovesTo(c, "idle") /\ Fails
        BY <3>5, <3>7, <4>2 DEF UnlockRuns, Fails
      <4> QED BY <3>7, <4>1, <4>2 DEF UnlockRuns
    <3>8. CASE Uncount(c)
      <4>1. Cardinality(Counted(i)') = Cardinality(Counted(i)) - (IF i = At[c] THEN 1 ELSE 0)
        BY <3>8, CountedShrinks DEF Uncount
      <4>2. held'[i] = (IF i = At[c] THEN Decremented(held[i]) ELSE held[i]) /\ errors' = errors
        BY <3>8, AtAssumption DEF Uncount, TypeOK
      <4>3. CASE i = At[c]
        <5>1. c \in Counted(i)
          BY <3>8, <4>3 DEF Uncount, Counted
        <5>2. Cardinality(Counted(i)) # 0
          BY <5>1, CountedFinite, FS_EmptySet
        <5> QED BY <2>0, <4>1, <4>2, <4>3, <5>2 DEF Decremented
      <4>4. CASE i # At[c]
        BY <2>0, <4>1, <4>2, <4>4
      <4> QED BY <4>3, <4>4
    <3> QED BY <2>4, <3>1, <3>2, <3>3, <3>4, <3>6, <3>7, <3>8 DEF CallerStep
  <2>5. ASSUME NEW j \in Instances, Crash(j) PROVE Goal
    <3>1. held'[i] = (IF i = j THEN 0 ELSE held[i]) /\ errors' = errors
      BY <2>5 DEF Crash, TypeOK
    <3> QED BY <2>0, <2>5, <3>1, CountedDies
  <2> QED BY <2>2, <2>3, <2>4, <2>5 DEF Next
<1>3. Spec => []TypeOK
  BY TypeCorrect
<1> QED BY <1>1, <1>2, <1>3, PTL DEF Spec

(* The counter follows its callers: it fails nobody and does not drift.      *)
THEOREM CounterFollowsCorrect == Spec => []CounterFollows
BY HolderIsAlwaysHeard, CounterDoesNotLeak, PTL DEF CounterFollows

-----------------------------------------------------------------------------
(* Late callers.                                                             *)

(* A caller that Extend has told that the lock is gone may still call Unlock *)
(* and be a stray again, so it counts as one in between.                     *)
Late(i) == {c \in Callers : At[c] = i /\ at[c] \in Holding \cup {"expired"} /\ taker # c}

ToldOff == \A c \in Callers : at[c] \in {"lost", "expired"} => taker # c

LateArePaid == \A i \in Instances : Cardinality(Late(i)) <= lapses[i]

LEMMA LateFinite ==
  \A i \in Instances : IsFiniteSet(Late(i)) /\ Cardinality(Late(i)) \in Nat
BY CallersAssumption, FS_Subset, FS_CardinalityType DEF Late

LEMMA OneMore ==
  ASSUME NEW S, IsFiniteSet(S), NEW x, x \notin S
  PROVE  IsFiniteSet(S \cup {x}) /\ Cardinality(S \cup {x}) = Cardinality(S) + 1
BY FS_AddElement

LEMMA ToldOffStep ==
  ASSUME TypeOK, ToldOff, [Next]_vars
  PROVE  ToldOff'
<1> USE AtAssumption, NoOneAssumption DEF TypeOK, ToldOff, Phase, MovesTo
<1>1. CASE UNCHANGED vars
  BY <1>1 DEF vars
<1>2. CASE Expire
  BY <1>2 DEF Expire, Lapse, Goes
<1>3. ASSUME NEW c \in Callers, CallerStep(c) PROVE ToldOff'
  <2>1. CASE TryLock(c) \/ Lock(c)
    BY <2>1 DEF TryLock, Lock, Acquires, TryFails
  <2>2. CASE GiveUp(c) \/ Count(c) \/ Extend(c) \/ DropHeld(c) \/ Unlock(c) \/ Uncount(c)
    BY <2>2 DEF GiveUp, Count, Extend, DropHeld, Unlock, Uncount
  <2>3. CASE ExtendRuns(c)
    BY <2>3 DEF ExtendRuns, Owns
  <2>4. CASE UnlockRuns(c)
    BY <2>4 DEF UnlockRuns, Delete
  <2> QED BY <1>3, <2>1, <2>2, <2>3, <2>4 DEF CallerStep
<1>4. ASSUME NEW i \in Instances, Crash(i) PROVE ToldOff'
  BY <1>4 DEF Crash
<1> QED BY <1>1, <1>2, <1>3, <1>4 DEF Next

(* A step adds a late caller to an instance when an entry of it expires, or  *)
(* puts one in the place of another.                                         *)
LEMMA LateArePaidStep ==
  ASSUME TypeOK, ToldOff, LateArePaid, [Next]_vars
  PROVE  LateArePaid'
<1> SUFFICES ASSUME NEW i \in Instances PROVE Cardinality(Late(i)') <= lapses'[i]
  BY DEF LateArePaid
<1> DEFINE Goal == Cardinality(Late(i)') <= lapses'[i]
<1> USE AtAssumption, NoOneAssumption
<1>0. /\ Cardinality(Late(i)) <= lapses[i] /\ lapses[i] \in Nat
      /\ IsFiniteSet(Late(i)) /\ Cardinality(Late(i)) \in Nat
  BY LateFinite DEF LateArePaid, TypeOK
<1>a. ASSUME lapses' = lapses, Late(i)' \subseteq Late(i) PROVE Goal
  <2>1. Cardinality(Late(i)') <= Cardinality(Late(i)) /\ Cardinality(Late(i)') \in Nat
    BY <1>0, <1>a, FS_Subset, FS_CardinalityType
  <2> QED BY <1>0, <1>a, <2>1
<1>1. CASE UNCHANGED vars
  BY <1>1, <1>a DEF vars, Late
<1>2. CASE Expire
  <2>1. CASE Busy /\ At[taker] = i
    <3>1. taker \in Callers /\ taker \notin Late(i)
      BY <2>1 DEF Busy, TypeOK, Late
    <3>2. Late(i)' = Late(i) \cup {taker}
      BY <1>2, <2>1, <3>1 DEF Expire, Lapse, Goes, Busy, Late
    <3>3. lapses'[i] = lapses[i] + 1
      BY <1>2, <2>1, <3>1 DEF Expire, Lapse, Goes, TypeOK
    <3>4. Cardinality(Late(i)') = Cardinality(Late(i)) + 1
      BY <1>0, <3>1, <3>2, OneMore
    <3> QED BY <1>0, <3>3, <3>4
  <2>2. CASE ~ (Busy /\ At[taker] = i)
    <3>1. Late(i)' = Late(i)
      BY <1>2, <2>2 DEF Expire, Lapse, Goes, Busy, Late, ToldOff
    <3>2. lapses'[i] = lapses[i]
      BY <1>2, <2>2 DEF Expire, Lapse, Goes, Busy, TypeOK
    <3> QED BY <1>0, <3>1, <3>2
  <2> QED BY <2>1, <2>2
<1>3. ASSUME NEW c \in Callers, CallerStep(c) PROVE Goal
  <2>1. CASE TryLock(c) \/ Lock(c)
    <3>1. Late(i)' \subseteq Late(i) /\ lapses' = lapses
      BY <2>1 DEF TryLock, Lock, Acquires, TryFails, MovesTo, Late, Holding, TypeOK
    <3> QED BY <1>a, <3>1
  <2>2. CASE GiveUp(c) \/ Count(c) \/ Extend(c) \/ ExtendRuns(c) \/ DropHeld(c) \/ Uncount(c)
    <3>1. Late(i)' \subseteq Late(i) /\ lapses' = lapses
      BY <2>2 DEF GiveUp, Count, Extend, ExtendRuns, DropHeld, Uncount, MovesTo, Late, Holding, TypeOK
    <3> QED BY <1>a, <3>1
  <2>3. CASE Unlock(c)
    <3>1. Late(i)' \subseteq Late(i) /\ lapses' = lapses
      <4>1. CASE held[At[c]] > 0
        BY <2>3, <4>1 DEF Unlock, MovesTo, Late, Holding, TypeOK
      <4>2. CASE ~ (held[At[c]] > 0)
        BY <2>3, <4>2 DEF Unlock, MovesTo, Late, Holding, TypeOK
      <4> QED BY <4>1, <4>2
    <3> QED BY <1>a, <3>1
  <2>4. CASE UnlockRuns(c)
    <3>1. lapses' = lapses /\ at[c] = "unlock"
          /\ \E phase \in {"uncount", "idle"} : MovesTo(c, phase)
      BY <2>4 DEF UnlockRuns
    <3>2. CASE UNCHANGED <<key, taker>> \/ taker \in {c, NoOne} \/ At[taker] # i
      <4>1. Late(i)' \subseteq Late(i)
        BY <2>4, <3>1, <3>2 DEF UnlockRuns, Delete, MovesTo, Late, Holding, TypeOK
      <4> QED BY <1>a, <3>1, <4>1
    <3>3. CASE taker \in Callers \ {c} /\ At[taker] = i /\ taker' # taker
      <4>1. At[c] = i /\ taker' = NoOne
        BY <2>4, <3>3 DEF UnlockRuns, Delete, Owns, TypeOK
      <4>2. c \in Late(i) /\ taker \notin Late(i)
        BY <3>1, <3>3, <4>1 DEF Late, Holding
      <4>3. Late(i)' \subseteq (Late(i) \ {c}) \cup {taker}
        BY <3>1, <3>3, <4>1 DEF MovesTo, Late, Holding, TypeOK
      <4>4. /\ IsFiniteSet(Late(i) \ {c}) /\ taker \notin Late(i) \ {c}
            /\ Cardinality(Late(i) \ {c}) = Cardinality(Late(i)) - 1
        BY <1>0, <4>2, FS_RemoveElement
      <4>5. /\ IsFiniteSet((Late(i) \ {c}) \cup {taker})
            /\ Cardinality((Late(i) \ {c}) \cup {taker}) = Cardinality(Late(i))
        BY <1>0, <4>4, OneMore
      <4>6. /\ Cardinality(Late(i)') <= Cardinality(Late(i))
            /\ Cardinality(Late(i)') \in Nat
        BY <4>3, <4>5, FS_Subset, FS_CardinalityType
      <4> QED BY <1>0, <3>1, <4>6
    <3> QED BY <2>4, <3>2, <3>3 DEF UnlockRuns, Delete, TypeOK
  <2> QED BY <1>3, <2>1, <2>2, <2>3, <2>4 DEF CallerStep
<1>4. ASSUME NEW j \in Instances, Crash(j) PROVE Goal
  <2>1. Late(i)' \subseteq Late(i) /\ lapses' = lapses
    BY <1>4 DEF Crash, Late, Holding
  <2> QED BY <1>a, <2>1
<1> QED BY <1>1, <1>2, <1>3, <1>4 DEF Next

(* A caller loses the lock only through the lateness of its own instance,    *)
(* whatever fails: late Unlocks of other instances leave its entry alone,    *)
(* and those of its own instance displace one caller for one.                *)
THEOREM OnlyLateLoseCorrect == Spec => []OnlyLateLose
<1>1. Init => ToldOff /\ LateArePaid
  <2>1. Init => ToldOff
    BY DEF Init, ToldOff
  <2>2. ASSUME Init, NEW i \in Instances PROVE Cardinality(Late(i)) <= lapses[i]
    <3>1. Late(i) = {}
      BY <2>2 DEF Init, Late, Holding
    <3> QED BY <2>2, <3>1, FS_EmptySet DEF Init
  <2> QED BY <2>1, <2>2 DEF LateArePaid
<1>2. TypeOK /\ ToldOff /\ LateArePaid /\ [Next]_vars => ToldOff' /\ LateArePaid'
  BY ToldOffStep, LateArePaidStep
<1>3. TypeOK /\ LateArePaid => OnlyLateLose
  <2> SUFFICES ASSUME TypeOK, LateArePaid, NEW i \in Instances
               PROVE  Cardinality(Strays(i)) <= lapses[i]
    BY DEF OnlyLateLose
  <2>1. Strays(i) \subseteq Late(i)
    BY DEF Strays, Late
  <2>2. Cardinality(Strays(i)) <= Cardinality(Late(i)) /\ Cardinality(Strays(i)) \in Nat
    BY <2>1, LateFinite, FS_Subset, FS_CardinalityType
  <2> QED BY <2>2, LateFinite DEF LateArePaid, TypeOK
<1>4. Spec => []TypeOK
  BY TypeCorrect
<1> QED BY <1>1, <1>2, <1>3, <1>4, PTL DEF Spec
=============================================================================
