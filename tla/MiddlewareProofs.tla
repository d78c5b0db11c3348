--------------------------- MODULE MiddlewareProofs ---------------------------
(* Theorems about the middlewares: first CircuitBreaker, for any number of   *)
(* calls and any thresholds, then RequestGuards, for any number of requests  *)
(* and permits and every fault.                                              *)
EXTENDS CircuitBreaker, RequestGuards, FiniteSetTheorems, TLAPS

(* BreakerTypeOK: each counter stays below its threshold and counts only in its    *)
(* own state, although every call judges by the state it finds at its end.  *)
THEOREM BreakerTypeCorrect == BreakerSpec => []BreakerTypeOK
<1> USE ThresholdAssumption, HazardAssumption
<1>1. BreakerInit => BreakerTypeOK
  BY DEF BreakerInit, BreakerTypeOK, States
<1>2. BreakerTypeOK /\ [BreakerNext]_breakerVars => BreakerTypeOK'
  <2> SUFFICES ASSUME BreakerTypeOK, [BreakerNext]_breakerVars PROVE BreakerTypeOK'
    OBVIOUS
  <2> USE DEF BreakerTypeOK, States
  <2>1. ASSUME NEW c \in Calls, Begin(c) PROVE BreakerTypeOK'
    BY <2>1 DEF Begin, TryTransitionToHalfOpen, Tried, ToState, SameState, Admits
  <2>2. ASSUME NEW c \in Calls, End(c) PROVE BreakerTypeOK'
    <3>1. CASE service = "up"
      BY <2>2, <3>1 DEF End, SucceededIn, Closes, SlotsFreed, SlotsAfterSuccess, ToState, SameState
    <3>2. CASE service # "up"
      BY <2>2, <3>2 DEF End, FailedIn, SlotsFreed, ToState, SameState
    <3> QED BY <3>1, <3>2
  <2>3. ASSUME NEW c \in Calls, Panic(c) PROVE BreakerTypeOK'
    BY <2>3 DEF Panic, breaker
  <2>4. CASE Observe
    BY <2>4 DEF Observe, TryTransitionToHalfOpen, Tried, ToState, SameState
  <2>5. CASE Reset
    BY <2>5 DEF Reset, ToState
  <2>6. CASE Expire \/ ServiceChanges \/ UNCHANGED breakerVars
    BY <2>6 DEF Expire, ServiceChanges, breakerVars, breaker
  <2> QED BY <2>1, <2>2, <2>3, <2>4, <2>5, <2>6 DEF BreakerNext
<1> QED BY <1>1, <1>2, PTL DEF BreakerSpec

(* ProbesAlone is inductive when calls end within OpenTimeout, with panics  *)
(* and with Reset.                                                           *)
LEMMA ProbesAloneStep ==
  ASSUME BreakerTypeOK, Punctual => ProbesAlone, [BreakerNext]_breakerVars, Punctual'
  PROVE  ProbesAlone'
<1>p. Punctual
  BY DEF Punctual, BreakerNext, Begin, End, Panic, Observe, Reset, Expire, ServiceChanges, breakerVars
<1> USE ThresholdAssumption, <1>p DEF ProbesAlone, UnderWay, Probes, BreakerTypeOK
<1>1. ASSUME NEW c \in Calls, Begin(c) PROVE ProbesAlone'
  <2>1. CASE Tried = "closed"
    BY <1>1, <2>1 DEF Begin, TryTransitionToHalfOpen, Tried, SameState, Admits
  <2>2. CASE Tried = "open"
    BY <1>1, <2>2 DEF Begin, TryTransitionToHalfOpen, Tried, SameState, Admits
  <2>3. CASE Tried = "half_open" /\ ~ Admits(Tried)
    BY <1>1, <2>3 DEF Begin, TryTransitionToHalfOpen, Tried, SameState, ToState
  <2>4. CASE Tried = "half_open" /\ Admits(Tried)
    <3>1. inFlight = 0 /\ inFlight' = 1
      BY <1>1, <2>4 DEF Begin, Admits
    <3>2. \A d \in Calls : admitted[d] = "none"
      BY <2>4, <3>1 DEF Tried
    <3>3. \A d \in Calls : admitted'[d] = IF d = c THEN "half_open" ELSE "none"
      BY <1>1, <2>4, <3>2 DEF Begin
    <3>4. state' = "half_open" /\ probeOk' = successCount'
      BY <1>1, <2>4 DEF Begin, TryTransitionToHalfOpen, Tried, SameState, ToState
    <3> QED BY <3>1, <3>3, <3>4
  <2> QED BY <2>1, <2>2, <2>3, <2>4 DEF Tried, States
<1>2. ASSUME NEW c \in Calls, End(c) PROVE ProbesAlone'
  <2>1. \A d \in Calls : admitted'[d] = IF d = c THEN "none" ELSE admitted[d]
    BY <1>2 DEF End
  <2>2. CASE state = "half_open"
    <3>1. \A d \in Calls : admitted'[d] = "none"
      BY <1>2, <2>1, <2>2 DEF End
    <3>2. inFlight >= 1 /\ c \in Probes
      BY <1>2, <2>2 DEF End
    <3>3. inFlight' >= 0 /\ (state' = "half_open" => probeOk' = successCount')
      BY <1>2, <2>2, <3>2
      DEF End, SucceededIn, FailedIn, Closes, SlotsFreed, SlotsAfterSuccess, ToState
    <3> QED BY <3>1, <3>3
  <2>3. CASE state # "half_open"
    <3>1. inFlight' = inFlight /\ state' # "half_open" /\ (state' = "open" => state = "open" \/ timer' = "running")
      BY <1>2, <2>3 DEF End, SucceededIn, FailedIn, ToState, SameState, States
    <3>2. timer' = "expired" => timer = "expired"
      BY <1>2, <2>3 DEF End, SucceededIn, FailedIn, ToState, SameState, States
    <3> QED BY <2>1, <3>1, <3>2
  <2> QED BY <2>2, <2>3
<1>3. ASSUME NEW c \in Calls, Panic(c) PROVE ProbesAlone'
  BY <1>3 DEF Panic, breaker
<1>4. CASE Observe
  BY <1>4 DEF Observe, TryTransitionToHalfOpen, Tried, ToState, SameState
<1>5. CASE Reset
  BY <1>5 DEF Reset, ToState
<1>6. CASE Expire
  BY <1>6 DEF Expire, Punctual
<1>7. CASE ServiceChanges \/ UNCHANGED breakerVars
  BY <1>7 DEF ServiceChanges, breakerVars, breaker
<1> QED BY <1>1, <1>2, <1>3, <1>4, <1>5, <1>6, <1>7 DEF BreakerNext

LEMMA ProbesAloneCorrect == BreakerSpec => [](Punctual => ProbesAlone)
<1>1. BreakerInit => (Punctual => ProbesAlone)
  BY DEF BreakerInit, ProbesAlone, UnderWay
<1>2. BreakerTypeOK /\ (Punctual => ProbesAlone) /\ [BreakerNext]_breakerVars => (Punctual => ProbesAlone)'
  BY ProbesAloneStep
<1> QED BY <1>1, <1>2, BreakerTypeCorrect, PTL DEF BreakerSpec

(* OneProbe: HalfOpen has at most one probe under way, provided that every  *)
(* call ends within OpenTimeout.                                             *)
THEOREM OneProbeAtATime == BreakerSpec => []OneProbe
<1>1. (Punctual => ProbesAlone) => OneProbe
  <2> SUFFICES ASSUME ProbesAlone, state = "half_open" PROVE Cardinality(Probes) <= 1
    BY DEF OneProbe
  <2>1. CASE Probes = {}
    BY <2>1, FS_EmptySet
  <2>2. CASE Probes # {}
    <3>1. PICK c \in Probes : Probes = {c}
      BY <2>2 DEF ProbesAlone
    <3>2. Cardinality({c}) = 1
      BY FS_Singleton
    <3> QED BY <3>1, <3>2
  <2> QED BY <2>1, <2>2
<1> QED BY <1>1, ProbesAloneCorrect, PTL

(* ClosedByProbes: a breaker that closes was told so by the required number *)
(* of probes of that HalfOpen, the last of which ends in that step.         *)
THEOREM ClosesOnProbes == BreakerSpec => ClosedByProbes
<1>1. ASSUME BreakerTypeOK, ProbesAlone, BreakerNext, state = "half_open", state' = "closed", resets' = resets
      PROVE  probeOk + 1 >= SuccessThreshold /\ \E c \in Probes : admitted'[c] = "none"
  <2>1. PICK c \in Calls : End(c)
    BY <1>1 DEF BreakerNext, Begin, TryTransitionToHalfOpen, Tried, SameState, ToState, Panic,
                Observe, Reset, Expire, ServiceChanges, breaker, BreakerTypeOK
  <2>2. c \in Probes /\ admitted'[c] = "none"
    BY <1>1, <2>1 DEF End, ProbesAlone, Probes, BreakerTypeOK
  <2>3. successCount + 1 >= SuccessThreshold
    BY <1>1, <2>1 DEF End, SucceededIn, FailedIn, Closes, ToState
  <2> QED BY <1>1, <2>2, <2>3 DEF ProbesAlone
<1>2. BreakerTypeOK /\ (Punctual => ProbesAlone) /\ [BreakerNext]_breakerVars =>
        [Punctual /\ state = "half_open" /\ state' = "closed" /\ resets' = resets
           => probeOk + 1 >= SuccessThreshold /\ \E c \in Probes : admitted'[c] = "none"]_breakerVars
  BY <1>1
<1> QED BY <1>2, BreakerTypeCorrect, ProbesAloneCorrect, PTL DEF BreakerSpec, ClosedByProbes

(* NeverWedged: without panics and without Reset, HalfOpen always has room  *)
(* for a probe when none is under way, however late calls may end.          *)
LEMMA ProbesFinite == IsFiniteSet(Probes) /\ Cardinality(Probes) \in Nat
  BY CallsAssumption, FS_Subset, FS_CardinalityType DEF Probes

LEMMA SlotsCoveredStep ==
  ASSUME BreakerTypeOK, Undamaged => SlotsCovered, [BreakerNext]_breakerVars, Undamaged'
  PROVE  SlotsCovered'
<1>u. Undamaged
  BY DEF Undamaged, BreakerNext, Begin, End, Panic, Observe, Reset, Expire, ServiceChanges, breakerVars
<1> USE <1>u DEF SlotsCovered, BreakerTypeOK
<1>a. IsFiniteSet(Probes) /\ Cardinality(Probes) \in Nat
  BY ProbesFinite
<1>1. ASSUME NEW c \in Calls, Begin(c) PROVE SlotsCovered'
  <2>1. CASE Tried = "half_open" /\ Admits(Tried)
    <3>1. Probes' = Probes \cup {c} /\ c \notin Probes
      BY <1>1, <2>1 DEF Begin, Probes
    <3>2. Cardinality(Probes') = Cardinality(Probes) + 1
      BY <3>1, <1>a, FS_AddElement
    <3>3. inFlight' = inFlight + 1 /\ state' = "half_open"
      BY <1>1, <2>1 DEF Begin, TryTransitionToHalfOpen, Tried, SameState, ToState
    <3>4. inFlight <= Cardinality(Probes)
      BY <1>a
    <3> QED BY <3>2, <3>3, <3>4, <1>a
  <2>2. CASE ~ (Tried = "half_open" /\ Admits(Tried))
    <3>1. Probes' = Probes /\ inFlight' = inFlight
      BY <1>1, <2>2 DEF Begin, Probes, Tried, States
    <3>2. state' = Tried
      BY <1>1 DEF Begin, TryTransitionToHalfOpen, Tried, SameState, ToState
    <3> QED BY <3>1, <3>2, <1>a DEF Tried
  <2> QED BY <2>1, <2>2
<1>2. ASSUME NEW c \in Calls, End(c) PROVE SlotsCovered'
  <2>1. Probes' = Probes \ {c}
    BY <1>2 DEF End, Probes
  <2>2. /\ Cardinality(Probes') \in Nat
        /\ \/ Cardinality(Probes') = Cardinality(Probes)
           \/ Cardinality(Probes') = Cardinality(Probes) - 1
    BY <2>1, <1>a, FS_RemoveElement, FS_CardinalityType
  <2>3. CASE state' # "half_open"
    BY <1>2, <2>3 DEF End, SucceededIn, FailedIn, SlotsFreed, ToState, SameState, States
  <2>4. CASE state' = "half_open"
    <3>1. state = "half_open" /\ inFlight' = inFlight - 1
      BY <1>2, <2>4 DEF End, SucceededIn, FailedIn, SlotsAfterSuccess, ToState, SameState, States
    <3>2. inFlight <= Cardinality(Probes) /\ inFlight \in Int
      BY <3>1
    <3> QED BY <2>4, <3>1, <3>2, <2>2, <1>a
  <2> QED BY <2>3, <2>4
<1>3. CASE Observe
  <2>1. Probes' = Probes /\ inFlight' = inFlight /\ state' = Tried
    BY <1>3 DEF Observe, Probes, TryTransitionToHalfOpen, Tried, SameState, ToState
  <2> QED BY <2>1, <1>a DEF Tried
<1>4. CASE Expire \/ ServiceChanges \/ UNCHANGED breakerVars
  BY <1>4 DEF Expire, ServiceChanges, breakerVars, breaker, Probes
<1>5. ASSUME NEW c \in Calls PROVE ~ Panic(c)
  BY DEF Panic, Undamaged
<1>6. ~ Reset
  BY DEF Reset, Undamaged
<1> QED BY <1>1, <1>2, <1>3, <1>4, <1>5, <1>6 DEF BreakerNext

THEOREM NoWedge == BreakerSpec => []NeverWedged
<1>1. BreakerInit => (Undamaged => SlotsCovered)
  BY DEF BreakerInit, SlotsCovered
<1>2. BreakerTypeOK /\ (Undamaged => SlotsCovered) /\ [BreakerNext]_breakerVars => (Undamaged => SlotsCovered)'
  BY SlotsCoveredStep
<1>3. BreakerTypeOK /\ (Undamaged => SlotsCovered) => NeverWedged
  BY FS_EmptySet DEF BreakerTypeOK, SlotsCovered, NeverWedged, Admits
<1> QED BY <1>1, <1>2, <1>3, BreakerTypeCorrect, PTL DEF BreakerSpec

-----------------------------------------------------------------------------
(* RequestGuards: the semaphore and the idempotency keys of a request.       *)

LEMMA AtMostOneFault ==
  ASSUME NEW r, NEW outcome \in Outcomes(r), ContextTypeOK, Charge(r, outcome)
  PROVE  ContextTypeOK'
BY FaultsAssumption DEF Outcomes, Charge, ContextTypeOK, MayFail

LEMMA HappensOnce == ASSUME NEW f, ContextTypeOK, Happens(f) PROVE ContextTypeOK'
BY FaultsAssumption DEF Happens, ContextTypeOK, MayFail

(* The context's types, step by step.                                        *)
LEMMA ContextTypes == ASSUME ContextTypeOK, [Next]_vars PROVE ContextTypeOK'
<1> USE FaultsAssumption
<1>1. ASSUME UNCHANGED ctxVars PROVE ContextTypeOK'
  BY <1>1 DEF ContextTypeOK, ctxVars
<1>2. ASSUME NEW r \in Requests, SemStep(r) PROVE ContextTypeOK'
  BY <1>1, <1>2, AtMostOneFault
     DEF SemStep, Increment, ExpireFirst, Refresh, GoBack, Retry, GiveUp, Release
<1>3. ASSUME NEW r \in Requests, IdemStep(r) PROVE ContextTypeOK'
  BY <1>1, <1>3, AtMostOneFault, HappensOnce
     DEF IdemStep, Look, LookAgain, TakeLock, InProgress, LockFails, HandlerReturns,
         HandlerPanics, Save, Unlock
<1>4. ASSUME NEW r \in Requests, Cancel(r) PROVE ContextTypeOK'
  BY <1>4 DEF Cancel, ContextTypeOK, MayFail
<1>5. CASE UNCHANGED vars
  BY <1>1, <1>5 DEF vars
<1> QED BY <1>1, <1>2, <1>3, <1>4, <1>5, HappensOnce
        DEF Next, Serve, SemaphoreStep, GuardedStep, Returns, ClientGoes, Crash,
            SemaphoreExpires, EntryExpires, KeyExpires, LockExpires, ResultExpires
-----------------------------------------------------------------------------
(* The semaphore.  Everybody who counted is either in the counter or was     *)
(* forgotten when the key expired; failed releases and lost answers only     *)
(* make the counter larger.                                                  *)
Paid   == Cardinality(Counted) <= count + forgotten
InSize == Cardinality(Admitted) <= Size + forgotten

Permits == SemTypeOK /\ Paid /\ InSize

LEMMA CountedFinite ==
  /\ IsFiniteSet(Counted) /\ IsFiniteSet(Admitted) /\ Admitted \subseteq Counted
  /\ Cardinality(Counted) \in Nat /\ Cardinality(Admitted) \in Nat
  /\ Cardinality(Admitted) <= Cardinality(Counted)
<1>1. Counted \subseteq Requests /\ Admitted \subseteq Counted
  BY DEF Counted, Admitted
<1>2. IsFiniteSet(Counted) /\ IsFiniteSet(Admitted)
  BY <1>1, RequestsAssumption, FS_Subset
<1> QED BY <1>1, <1>2, FS_Subset, FS_CardinalityType

LEMMA CountedFiniteNext ==
  /\ IsFiniteSet(Counted') /\ IsFiniteSet(Admitted') /\ Admitted' \subseteq Counted'
  /\ Cardinality(Counted') \in Nat /\ Cardinality(Admitted') \in Nat
  /\ Cardinality(Admitted') <= Cardinality(Counted')
<1>1. Counted' \subseteq Requests /\ Admitted' \subseteq Counted'
  BY DEF Counted, Admitted
<1>2. IsFiniteSet(Counted') /\ IsFiniteSet(Admitted')
  BY <1>1, RequestsAssumption, FS_Subset
<1> QED BY <1>1, <1>2, FS_Subset, FS_CardinalityType

(* A step that lets nobody in and whose counter goes down only for one who   *)
(* is no longer counted.                                                     *)
LEMMA Fewer ==
  ASSUME Permits, forgotten' = forgotten, count' \in Int, NEW r,
         Admitted' \subseteq Admitted,
         \/ Counted' \subseteq Counted /\ count' >= count
         \/ r \in Counted /\ Counted' = Counted \ {r} /\ count' = count - 1
  PROVE  Paid' /\ InSize'
<1> USE CountedFinite, CountedFiniteNext DEF Permits, SemTypeOK, Paid, InSize
<1>1. Cardinality(Admitted') <= Cardinality(Admitted)
  BY FS_Subset
<1>2. InSize'
  BY <1>1, SizeAssumption
<1>3. CASE Counted' \subseteq Counted /\ count' >= count
  <2>1. Cardinality(Counted') <= Cardinality(Counted)
    BY <1>3, FS_Subset
  <2> QED BY <1>2, <1>3, <2>1
<1>4. CASE r \in Counted /\ Counted' = Counted \ {r} /\ count' = count - 1
  <2>1. Cardinality(Counted') = Cardinality(Counted) - 1
    BY <1>4, FS_RemoveElement
  <2> QED BY <1>2, <1>4, <2>1
<1> QED BY <1>3, <1>4

LEMMA IncrementKeeps ==
  ASSUME Permits, NEW r \in Requests, Increment(r)
  PROVE  Permits'
<1> USE DEF Permits, SemTypeOK, Stands
<1> PICK outcome \in Outcomes(r) :
      /\ Adds(1, outcome)
      /\ untimed' = IF outcome = "lost" THEN untimed + 1 ELSE untimed
      /\ Stands(r, CASE outcome # "ok" -> Refused(r)
                     [] outcome = "ok" /\ count = 0 -> "first"
                     [] outcome = "ok" /\ count # 0 -> IF Passes(count + 1) THEN "refresh" ELSE "over")
  BY DEF Increment
<1>1. sat[r] = "new" /\ forgotten' = forgotten /\ count' \in Int /\ r \notin Counted
  BY DEF Increment, Adds, keyVars, Counted, Admitted
<1>2. SemTypeOK'
  BY <1>1 DEF Adds, keyVars, Refused
<1>3. CASE outcome # "ok"
  <2>1. sat' = [sat EXCEPT ![r] = Refused(r)] /\ Refused(r) \in {"wait", "rejected"}
    BY <1>3 DEF Refused
  <2>2. Admitted' = Admitted /\ Counted' = Counted
    BY <1>1, <2>1 DEF Admitted, Counted
  <2>3. count' >= count
    BY DEF Adds, keyVars
  <2> QED BY <1>1, <1>2, <2>2, <2>3, Fewer
<1>4. CASE outcome = "ok"
  <2>1. count' = count + 1
    BY <1>4 DEF Adds
  <2>2. sat'[r] \in {"first", "refresh", "over"} /\ \A q \in Requests \ {r} : sat'[q] = sat[q]
    BY <1>4
  <2>3. Counted' = Counted \cup {r}
    BY <2>2 DEF Counted, Admitted
  <2>4. Cardinality(Counted') = Cardinality(Counted) + 1
    BY <1>1, <2>3, CountedFinite, FS_AddElement
  <2>5. Paid'
    BY <1>1, <2>1, <2>4, CountedFinite DEF Paid
  <2>6. CASE r \in Admitted'
    <3>1. Admitted' = Admitted \cup {r} /\ r \notin Admitted
      BY <1>1, <2>2, <2>6 DEF Admitted, Counted
    <3>2. Cardinality(Admitted') = Cardinality(Admitted) + 1
      BY <3>1, CountedFinite, FS_AddElement
    <3>3. count + 1 <= Size
      <4>1. sat'[r] \in {"first", "refresh"}
        BY <2>2, <2>6 DEF Admitted
      <4> QED BY <1>4, <4>1, SizeAssumption DEF Passes
    <3>4. InSize'
      BY <1>1, <3>2, <3>3, CountedFinite, SizeAssumption DEF InSize, Paid
    <3> QED BY <1>2, <2>5, <3>4
  <2>7. CASE r \notin Admitted'
    <3>1. Admitted' = Admitted
      BY <1>1, <2>2, <2>7 DEF Admitted, Counted
    <3>2. InSize'
      BY <1>1, <3>1 DEF InSize
    <3> QED BY <1>2, <2>5, <3>2
  <2> QED BY <2>6, <2>7
<1> QED BY <1>3, <1>4 DEF Outcomes

LEMMA OtherSemStepsKeep ==
  ASSUME Permits, NEW r \in Requests,
         ExpireFirst(r) \/ Refresh(r) \/ GoBack(r) \/ Retry(r) \/ GiveUp(r) \/ Release(r)
  PROVE  Permits'
<1> USE DEF Permits, SemTypeOK, Stands
<1>1. CASE ExpireFirst(r) \/ Refresh(r) \/ Retry(r) \/ GiveUp(r)
  <2>1. /\ count' = count /\ forgotten' = forgotten
        /\ Admitted' = Admitted /\ Counted' = Counted
    BY <1>1 DEF ExpireFirst, Refresh, Retry, GiveUp, SetsTTL, keyVars, Admitted, Counted
  <2>2. SemTypeOK'
    BY <1>1 DEF ExpireFirst, Refresh, Retry, GiveUp, SetsTTL, keyVars
  <2> QED BY <2>1, <2>2 DEF Paid, InSize
<1>2. CASE GoBack(r) \/ Release(r)
  <2> PICK outcome \in Outcomes(r) : Adds(-1, outcome)
    BY <1>2 DEF GoBack, Release
  <2>1. /\ forgotten' = forgotten /\ count' \in {count, count - 1}
        /\ sat[r] \in {"over", "release"} /\ sat'[r] \in {"wait", "rejected", "out"}
        /\ \A q \in Requests \ {r} : sat'[q] = sat[q]
    BY <1>2 DEF GoBack, Refused, Release, Adds, keyVars
  <2>2. SemTypeOK'
    BY <1>2, <2>1 DEF GoBack, Refused, Release, Adds, keyVars
  <2>3. Admitted' \subseteq Admitted /\ r \in Counted /\ Counted' = Counted \ {r}
    BY <2>1 DEF Admitted, Counted
  <2>4. CASE count' = count
    BY <2>1, <2>2, <2>3, <2>4, Fewer
  <2>5. CASE count' = count - 1
    BY <2>1, <2>2, <2>3, <2>5, Fewer
  <2> QED BY <2>1, <2>4, <2>5
<1> QED BY <1>1, <1>2

LEMMA PermitsHold == Spec => []Permits
<1>1. Init => Permits
  <2> SUFFICES ASSUME Init PROVE Permits
    OBVIOUS
  <2>1. Counted = {} /\ Admitted = {}
    BY DEF Init, SemInit, Counted, Admitted
  <2> QED BY <2>1, FS_EmptySet, SizeAssumption DEF Init, SemInit, Permits, SemTypeOK, Paid, InSize
<1>2. Permits /\ [Next]_vars => Permits'
  <2> SUFFICES ASSUME Permits, [Next]_vars PROVE Permits'
    OBVIOUS
  <2>1. ASSUME NEW r \in Requests, SemStep(r) PROVE Permits'
    BY <2>1, IncrementKeeps, OtherSemStepsKeep DEF SemStep
  <2>2. ASSUME UNCHANGED semVars PROVE Permits'
    BY <2>2 DEF semVars, keyVars, Permits, SemTypeOK, Paid, InSize, Counted, Admitted
  <2>3. ASSUME NEW r \in Requests, Returns(r) \/ Crash(r) PROVE Permits'
    <3>1. /\ count' = count /\ forgotten' = forgotten
          /\ Admitted' \subseteq Admitted /\ Counted' \subseteq Counted
      BY <2>3 DEF Returns, Crash, Ended, Stands, keyVars, Admitted, Counted, Permits, SemTypeOK
    <3>2. SemTypeOK'
      BY <2>3 DEF Returns, Crash, Stands, keyVars, Permits, SemTypeOK
    <3> QED BY <3>1, <3>2, Fewer DEF Permits, SemTypeOK
  <2>4. CASE KeyExpires
    <3>1. /\ count' = 0 /\ forgotten' = Cardinality(Counted)
          /\ Counted' = Counted /\ Admitted' = Admitted
      BY <2>4 DEF KeyExpires, Counted, Admitted
    <3>2. SemTypeOK'
      BY <2>4, <3>1, CountedFinite DEF KeyExpires, Permits, SemTypeOK
    <3> QED BY <3>1, <3>2, CountedFinite, SizeAssumption DEF Permits, Paid, InSize
  <2> QED BY <2>1, <2>2, <2>3, <2>4
          DEF Next, vars, Serve, SemaphoreStep, GuardedStep, ClientGoes, SemaphoreExpires, EntryExpires
<1> QED BY <1>1, <1>2, PTL DEF Spec

(* NeverOverAdmits: more than Size requests are let in only on top of those  *)
(* that were using their permits when the key expired.                       *)
THEOREM NeverOverAdmitsCorrect == Spec => []NeverOverAdmits
<1>1. Permits => NeverOverAdmits
  BY DEF Permits, InSize, NeverOverAdmits
<1> QED BY <1>1, PermitsHold, PTL

-----------------------------------------------------------------------------
(* Idempotency.  Why no execution is without a reason: as long as there was  *)
(* none to spare, the lock of one that ran is there, or the result is, and   *)
(* then everybody past the looks is known not to have seen it.               *)
Spare == Cardinality(ran) <= causes

Guarded == Spare \/ ran = {} \/ lock \in ran \/ result

PastIsBlind == result => Past \subseteq blind

DeletesItsOwn ==
  \A r \in Requests : iat[r] = "unlock" /\ lock = r /\ ~ result => Spare

Reasons == IdemTypeOK /\ RepeatsExplained /\ Guarded /\ PastIsBlind /\ DeletesItsOwn

LEMMA RanFinite ==
  ASSUME IdemTypeOK
  PROVE  IsFiniteSet(ran) /\ Cardinality(ran) \in Nat
BY RequestsAssumption, FS_Subset, FS_CardinalityType DEF IdemTypeOK

LEMMA OneMoreRan ==
  ASSUME IdemTypeOK, NEW r, ran' = ran \cup {r}
  PROVE  Cardinality(ran') \in Nat /\ Cardinality(ran') <= Cardinality(ran) + 1
BY RanFinite, FS_AddElement, FS_CardinalityType

(* Steps that leave the entries, the runs and the reasons as they are, and   *)
(* that bring nobody past the looks or to the deletion of its lock.          *)
LEMMA QuietStep ==
  ASSUME Reasons, UNCHANGED <<entryVars, whyVars>>, IdemTypeOK', Past' \subseteq Past,
         \A r \in Requests : iat'[r] = "unlock" => iat[r] = "unlock"
  PROVE  Reasons'
<1>1. Spare' = Spare
  BY DEF Spare, whyVars
<1>2. RepeatsExplained' /\ Guarded' /\ PastIsBlind'
  BY <1>1 DEF Reasons, RepeatsExplained, Guarded, PastIsBlind, whyVars, entryVars
<1>3. DeletesItsOwn'
  BY <1>1 DEF Reasons, DeletesItsOwn, entryVars
<1> QED BY <1>2, <1>3 DEF Reasons

LEMMA LooksKeep ==
  ASSUME Reasons, NEW r \in Requests,
         Look(r) \/ InProgress(r) \/ HandlerReturns(r) \/ HandlerPanics(r)
  PROVE  Reasons'
<1> USE DEF Moves
<1>1. IdemTypeOK' /\ UNCHANGED <<entryVars, whyVars>>
  BY DEF Reasons, IdemTypeOK, Look, InProgress, HandlerReturns, HandlerPanics, entryVars, whyVars
<1>2. /\ Past' \subseteq Past
      /\ \A q \in Requests : iat'[q] = "unlock" => iat[q] = "unlock"
  BY DEF Reasons, IdemTypeOK, Past, Look, InProgress, HandlerReturns, HandlerPanics
<1> QED BY <1>1, <1>2, QuietStep

LEMMA LookAgainKeeps ==
  ASSUME Reasons, NEW r \in Requests, LookAgain(r)
  PROVE  Reasons'
<1> USE DEF Moves, Reasons
<1>1. IdemTypeOK' /\ UNCHANGED <<entryVars, ran, causes>> /\ Spare' = Spare
  BY DEF IdemTypeOK, LookAgain, entryVars, Spare
<1>2. RepeatsExplained' /\ Guarded'
  BY <1>1 DEF RepeatsExplained, Guarded, entryVars
<1>3. PastIsBlind'
  <2>1. Past' \subseteq Past \cup {r}
    BY DEF LookAgain, Past, IdemTypeOK
  <2>2. result => blind' = blind \cup {r}
    BY DEF LookAgain
  <2> QED BY <1>1, <2>1, <2>2 DEF PastIsBlind, entryVars
<1>4. DeletesItsOwn'
  <2>1. \A q \in Requests : iat'[q] = "unlock" => iat[q] = "unlock"
    BY DEF LookAgain, IdemTypeOK
  <2> QED BY <1>1, <2>1 DEF DeletesItsOwn, entryVars
<1> QED BY <1>1, <1>2, <1>3, <1>4

(* The step the theorem is about: whoever takes the lock had not seen the    *)
(* store since the result was there, or there was an execution to spare, or  *)
(* it is the first.                                                          *)
LEMMA TakeLockKeeps ==
  ASSUME Reasons, NEW r \in Requests, TakeLock(r)
  PROVE  Reasons'
<1> USE DEF Moves, Reasons, Starts, Free
<1>1. /\ iat[r] = "setnx" /\ lock = NoOne /\ lock' = r /\ result' = result /\ blind' = blind
      /\ ran' = ran \cup {r} /\ causes' = IF r \in blind THEN causes + 1 ELSE causes
  BY DEF TakeLock
<1>2. IdemTypeOK' /\ causes \in Nat /\ causes' \in Nat
  BY <1>1 DEF TakeLock, IdemTypeOK
<1>3. lock \notin ran
  BY <1>1, RequestsAssumption DEF IdemTypeOK
<1>4. Guarded'
  BY <1>1 DEF Guarded
<1>5. PastIsBlind'
  BY <1>1 DEF TakeLock, PastIsBlind, Past, IdemTypeOK
<1>6. DeletesItsOwn'
  <2>1. iat'[r] = "run"
    BY DEF TakeLock, IdemTypeOK
  <2> QED BY <1>1, <2>1 DEF DeletesItsOwn
<1>7. RepeatsExplained'
  <2>1. Cardinality(ran') \in Nat /\ Cardinality(ran') <= Cardinality(ran) + 1 /\ Cardinality(ran) \in Nat
    BY <1>1, OneMoreRan, RanFinite
  <2>2. CASE r \in blind
    BY <1>1, <1>2, <2>1, <2>2 DEF RepeatsExplained
  <2>3. CASE r \notin blind
    <3>1. ~ result
      BY <1>1, <2>3 DEF PastIsBlind, Past
    <3>2. Spare \/ ran = {}
      BY <1>3, <3>1 DEF Guarded
    <3>3. Spare \/ Cardinality(ran) = 0
      BY <3>2, FS_EmptySet
    <3> QED BY <1>1, <1>2, <2>1, <2>3, <3>3 DEF RepeatsExplained, Spare
  <2> QED BY <2>2, <2>3
<1> QED BY <1>2, <1>4, <1>5, <1>6, <1>7

LEMMA LockFailsKeeps ==
  ASSUME Reasons, NEW r \in Requests, LockFails(r)
  PROVE  Reasons'
<1> USE DEF Moves, Reasons
<1>1. /\ result' = result /\ blind' = blind /\ lock' \in {lock, r} /\ (lock # NoOne => lock' = lock)
      /\ iat[r] = "setnx" /\ iat'[r] \in {"bare", "answered"}
      /\ \A q \in Requests \ {r} : iat'[q] = iat[q]
      /\ \/ ran' = ran /\ causes' = causes
         \/ ran' = ran \cup {r} /\ causes' = causes + 1
  BY DEF LockFails, IdemTypeOK
<1>2. IdemTypeOK' /\ causes \in Nat
  BY <1>1 DEF LockFails, IdemTypeOK
<1>3. Cardinality(ran') \in Nat /\ Cardinality(ran) \in Nat /\ ran \subseteq ran'
  BY <1>1, RanFinite, OneMoreRan
<1>4. RepeatsExplained' /\ (Spare => Spare')
  <2>1. CASE ran' = ran /\ causes' = causes
    BY <2>1 DEF RepeatsExplained, Spare
  <2>2. CASE ran' = ran \cup {r} /\ causes' = causes + 1
    <3>1. Cardinality(ran') <= Cardinality(ran) + 1
      BY <2>2, OneMoreRan
    <3> QED BY <1>2, <1>3, <2>2, <3>1 DEF RepeatsExplained, Spare
  <2> QED BY <1>1, <2>1, <2>2
<1>5. ran = {} => ran' = {} \/ Spare'
  <2> SUFFICES ASSUME ran = {}, ran' = ran \cup {r}, causes' = causes + 1 PROVE Spare'
    BY <1>1
  <2>1. Cardinality(ran') <= 1
    <3>1. Cardinality(ran) = 0
      BY FS_EmptySet
    <3> QED BY <1>3, <3>1, OneMoreRan
  <2> QED BY <1>2, <1>3, <2>1 DEF Spare
<1>6. lock \in ran => lock' \in ran'
  <2>1. lock \in ran => lock # NoOne
    BY RequestsAssumption DEF IdemTypeOK
  <2> QED BY <1>1, <1>3, <2>1
<1>7. Guarded'
  BY <1>1, <1>4, <1>5, <1>6 DEF Guarded
<1>8. PastIsBlind' /\ DeletesItsOwn'
  <2>1. Past' \subseteq Past
    BY <1>1 DEF Past
  <2>2. PastIsBlind'
    BY <1>1, <2>1 DEF PastIsBlind
  <2>3. ASSUME NEW q \in Requests, iat'[q] = "unlock", lock' = q, ~ result' PROVE Spare'
    <3>1. q # r /\ iat[q] = "unlock"
      BY <1>1, <2>3
    <3>2. lock = q
      BY <1>1, <2>3, <3>1
    <3> QED BY <1>1, <1>4, <2>3, <3>1, <3>2 DEF DeletesItsOwn
  <2> QED BY <2>2, <2>3 DEF DeletesItsOwn
<1> QED BY <1>2, <1>4, <1>7, <1>8

LEMMA SaveKeeps ==
  ASSUME Reasons, NEW r \in Requests, Save(r)
  PROVE  Reasons'
<1> USE DEF Moves, Reasons
<1> PICK outcome \in Outcomes(r) :
      /\ result' = (result \/ outcome # "error")
      /\ blind' = IF outcome = "error" THEN blind ELSE blind \cup Past
      /\ Moves(r, IF outcome = "ok" THEN "unlock" ELSE "answered")
  BY DEF Save
<1>1. /\ iat[r] = "save" /\ lock' = lock /\ ran' = ran /\ causes' = causes
      /\ iat'[r] \in {"unlock", "answered"} /\ \A q \in Requests \ {r} : iat'[q] = iat[q]
      /\ iat'[r] = "unlock" => result'
  BY DEF Save, IdemTypeOK
<1>2. IdemTypeOK'
  <2>1. result' \in BOOLEAN
    OBVIOUS
  <2>2. blind' \subseteq Requests
    BY DEF IdemTypeOK, Past
  <2> QED BY <1>1, <2>1, <2>2 DEF Save, IdemTypeOK
<1>3. Spare' = Spare /\ (result => result')
  BY <1>1 DEF Spare
<1>4. RepeatsExplained' /\ Guarded'
  BY <1>1, <1>3 DEF RepeatsExplained, Guarded
<1>5. PastIsBlind'
  <2>1. Past' \subseteq Past
    BY <1>1 DEF Past
  <2> QED BY <2>1 DEF PastIsBlind
<1>6. DeletesItsOwn'
  BY <1>1, <1>3 DEF DeletesItsOwn
<1> QED BY <1>2, <1>4, <1>5, <1>6

LEMMA UnlockKeeps ==
  ASSUME Reasons, NEW r \in Requests, Unlock(r)
  PROVE  Reasons'
<1> USE DEF Moves, Reasons
<1>1. /\ iat[r] = "unlock" /\ iat'[r] = "answered" /\ \A q \in Requests \ {r} : iat'[q] = iat[q]
      /\ result' = result /\ ran' = ran /\ blind' = blind /\ lock' \in {lock, NoOne}
      /\ causes' = IF lock # r /\ LetsOneMore THEN causes + 1 ELSE causes
  BY DEF Unlock, IdemTypeOK
<1>2. IdemTypeOK' /\ causes \in Nat /\ causes' \in Nat
  BY <1>1 DEF IdemTypeOK, Unlock
<1>3. RepeatsExplained' /\ (Spare => Spare') /\ (causes' = causes + 1 => Spare')
  BY <1>1, <1>2, RanFinite DEF RepeatsExplained, Spare
<1>4. Guarded'
  <2>1. CASE Spare \/ ran = {} \/ result
    BY <1>1, <1>3, <2>1 DEF Guarded
  <2>2. CASE LetsOneMore
    BY <1>1, <1>3, <2>2 DEF Guarded, DeletesItsOwn, LetsOneMore
  <2> QED BY <2>1, <2>2 DEF Guarded, LetsOneMore
<1>5. PastIsBlind'
  BY <1>1 DEF PastIsBlind, Past
<1>6. DeletesItsOwn'
  <2> SUFFICES ASSUME NEW q \in Requests, iat'[q] = "unlock", lock' = q, ~ result' PROVE Spare'
    BY DEF DeletesItsOwn
  <2>1. q # r /\ iat[q] = "unlock" /\ lock = q
    BY <1>1, RequestsAssumption
  <2> QED BY <1>1, <1>3, <2>1 DEF DeletesItsOwn
<1> QED BY <1>2, <1>3, <1>4, <1>5, <1>6

LEMMA ExpiriesKeep ==
  ASSUME Reasons, LockExpires \/ ResultExpires
  PROVE  Reasons'
<1> USE DEF Reasons
<1>1. CASE LockExpires
  <2>1. /\ lock' = NoOne /\ result' = result /\ iat' = iat /\ ran' = ran /\ blind' = blind
        /\ causes' = IF LetsOneMore THEN causes + 1 ELSE causes
    BY <1>1 DEF LockExpires
  <2>2. IdemTypeOK' /\ causes \in Nat
    BY <2>1 DEF IdemTypeOK
  <2>3. RepeatsExplained' /\ (Spare => Spare') /\ (LetsOneMore => Spare')
    BY <2>1, <2>2, RanFinite DEF RepeatsExplained, Spare
  <2>4. Guarded'
    BY <2>1, <2>3 DEF Guarded, LetsOneMore
  <2>5. PastIsBlind' /\ DeletesItsOwn'
    BY <2>1, RequestsAssumption DEF PastIsBlind, Past, DeletesItsOwn
  <2> QED BY <2>2, <2>3, <2>4, <2>5
<1>2. CASE ResultExpires
  <2>1. /\ lock' = lock /\ result' = FALSE /\ iat' = iat /\ ran' = ran /\ blind' = {}
        /\ causes' = causes + 1
    BY <1>2 DEF ResultExpires
  <2>2. IdemTypeOK' /\ causes \in Nat
    <3>1. causes \in Nat /\ causes' \in Nat
      BY <2>1 DEF IdemTypeOK
    <3> QED BY <2>1, <3>1 DEF IdemTypeOK
  <2>3. RepeatsExplained' /\ Spare'
    BY <2>1, <2>2, RanFinite DEF RepeatsExplained, Spare
  <2>4. Guarded' /\ PastIsBlind' /\ DeletesItsOwn'
    BY <2>1, <2>3 DEF Guarded, PastIsBlind, DeletesItsOwn
  <2> QED BY <2>2, <2>3, <2>4
<1> QED BY <1>1, <1>2

LEMMA ReasonsHold == Spec => []Reasons
<1>1. Init => Reasons
  <2> SUFFICES ASSUME Init PROVE Reasons
    OBVIOUS
  <2>1. Cardinality(ran) = 0 /\ causes = 0
    BY FS_EmptySet DEF Init, IdemInit
  <2>2. IdemTypeOK
    BY DEF Init, IdemInit, IdemTypeOK
  <2>3. RepeatsExplained
    BY <2>1 DEF RepeatsExplained
  <2>4. Guarded /\ PastIsBlind /\ DeletesItsOwn
    BY DEF Init, IdemInit, Guarded, PastIsBlind, DeletesItsOwn
  <2> QED BY <2>2, <2>3, <2>4 DEF Reasons
<1>2. Reasons /\ [Next]_vars => Reasons'
  <2> SUFFICES ASSUME Reasons, [Next]_vars PROVE Reasons'
    OBVIOUS
  <2>1. ASSUME NEW r \in Requests, IdemStep(r) PROVE Reasons'
    BY <2>1, LooksKeep, LookAgainKeeps, TakeLockKeeps, LockFailsKeeps, SaveKeeps, UnlockKeeps
       DEF IdemStep
  <2>2. ASSUME UNCHANGED idemVars PROVE Reasons'
    BY <2>2 DEF idemVars, entryVars, whyVars, Reasons, IdemTypeOK, RepeatsExplained, Guarded, Spare,
                PastIsBlind, Past, DeletesItsOwn
  <2>3. ASSUME NEW r \in Requests, Crash(r) PROVE Reasons'
    <3>1. /\ UNCHANGED <<entryVars, whyVars>> /\ iat' = [iat EXCEPT ![r] = "dead"]
      BY <2>3 DEF Crash, Moves
    <3>2. IdemTypeOK' /\ Past' \subseteq Past
      BY <3>1 DEF Reasons, IdemTypeOK, Past, entryVars, whyVars
    <3>3. \A q \in Requests : iat'[q] = "unlock" => iat[q] = "unlock"
      BY <3>1 DEF Reasons, IdemTypeOK
    <3> QED BY <3>1, <3>2, <3>3, QuietStep
  <2> QED BY <2>1, <2>2, <2>3, ExpiriesKeep
          DEF Next, vars, Serve, SemaphoreStep, GuardedStep, Returns, ClientGoes, SemaphoreExpires, EntryExpires
<1> QED BY <1>1, <1>2, PTL DEF Spec

(* RepeatsExplained: one execution per key, and one more for each reason.    *)
THEOREM RepeatsExplainedCorrect == Spec => []RepeatsExplained
<1>1. Reasons => RepeatsExplained
  BY DEF Reasons
<1> QED BY <1>1, ReasonsHold, PTL

(* TypeOK of both guards, and the faults stay within their bound.            *)
THEOREM TypeCorrect == Spec => []TypeOK
<1>1. Init => ContextTypeOK
  BY FaultsAssumption DEF Init, ContextInit, ContextTypeOK
<1>2. ContextTypeOK /\ [Next]_vars => ContextTypeOK'
  BY ContextTypes
<1>3. ContextTypeOK /\ Permits /\ Reasons => TypeOK
  BY DEF Permits, Reasons, TypeOK
<1> QED BY <1>1, <1>2, <1>3, PermitsHold, ReasonsHold, PTL DEF Spec
=============================================================================
