--------------------------- MODULE CircuitBreaker ---------------------------
(***************************************************************************)
(* The circuit breaker of middleware/circuitbreaker.                        *)
(*                                                                         *)
(* Goroutines call Execute concurrently.  The breaker's mutex is held in     *)
(* beforeExecute and in afterExecute, and not while fn runs, so a call is    *)
(* two steps, Begin and End, and the breaker may change state between them.  *)
(* afterExecute judges the result by the state it finds, not by the state    *)
(* the call was admitted in; admitted[c] remembers the latter.               *)
(***************************************************************************)
EXTENDS Integers, FiniteSets

CONSTANTS Calls,             \* the goroutines that call Execute
          FailureThreshold,  \* WithFailureThreshold
          SuccessThreshold,  \* WithSuccessThreshold
          Hazards,           \* what may happen besides, of AllHazards
          MaxResets          \* bound: how often Reset is called

(* "late": a call may outlast OpenTimeout; "panic": fn may panic;           *)
(* "reset": Reset may be called.                                             *)
AllHazards == {"late", "panic", "reset"}

ASSUME ThresholdAssumption ==
  FailureThreshold \in Nat \ {0} /\ SuccessThreshold \in Nat \ {0}
ASSUME CallsAssumption == IsFiniteSet(Calls)
ASSUME HazardAssumption == Hazards \subseteq AllHazards /\ MaxResets \in Nat

VARIABLES state,         \* Breaker.state
          failureCount,  \* Breaker.failureCount
          successCount,  \* Breaker.successCount
          timer,         \* "expired" when OpenTimeout has passed since lastStateChange
          inFlight,      \* Breaker.halfOpenInFlight
          admitted,      \* admitted[c]: the state in which c was let through, or "none"
          service,       \* whether the protected service is "up" or "down"
          probeOk,       \* calls let through by HalfOpen that succeeded in this HalfOpen
          resets,        \* how often Reset was called
          happened       \* the hazards that have happened (history)

breaker == <<state, failureCount, successCount, timer, inFlight>>
breakerVars == <<breaker, admitted, service, probeOk, resets, happened>>

States == {"closed", "open", "half_open"}

UnderWay == {c \in Calls : admitted[c] # "none"}
Probes  == {c \in Calls : admitted[c] = "half_open"}

(* Types, and the counters: each is below its threshold, and counts only in *)
(* its own state.                                                            *)
BreakerTypeOK ==
  /\ state \in States
  /\ failureCount \in 0 .. FailureThreshold - 1
  /\ successCount \in 0 .. SuccessThreshold - 1
  /\ failureCount > 0 => state = "closed"
  /\ successCount > 0 => state = "half_open"
  /\ timer \in {"running", "expired"}
  /\ inFlight \in Int
  /\ admitted \in [Calls -> {"none", "closed", "half_open"}]
  /\ service \in {"up", "down"}
  /\ probeOk \in Nat
  /\ resets \in 0 .. MaxResets
  /\ happened \subseteq Hazards

BreakerInit ==
  /\ state = "closed"
  /\ failureCount = 0
  /\ successCount = 0
  /\ timer = "running"
  /\ inFlight = 0
  /\ admitted = [c \in Calls |-> "none"]
  /\ service = "up"
  /\ probeOk = 0
  /\ resets = 0
  /\ happened = {}

(* toState: the counters start again; halfOpenInFlight is not among them.   *)
ToState(s) ==
  /\ state' = s
  /\ timer' = "running"
  /\ failureCount' = 0
  /\ successCount' = 0
  /\ probeOk' = 0

SameState == UNCHANGED <<state, failureCount, successCount, timer, probeOk>>

(* The state after tryTransitionToHalfOpen.                                  *)
Tried == IF state = "open" /\ timer = "expired" THEN "half_open" ELSE state

TryTransitionToHalfOpen == IF Tried = state THEN SameState ELSE ToState(Tried)

(* mutant: two probes at a time *)
AdmitsTwo(s) == s = "closed" \/ (s = "half_open" /\ inFlight + 1 <= 2)

(* beforeExecute lets a call through; Add(1) > 1 is taken back.             *)
Admits(s) == s = "closed" \/ (s = "half_open" /\ inFlight + 1 <= 1)

Begin(c) ==
  /\ admitted[c] = "none"
  /\ TryTransitionToHalfOpen
  /\ IF Admits(Tried)
       THEN /\ admitted' = [admitted EXCEPT ![c] = Tried]
            /\ inFlight' = IF Tried = "half_open" THEN inFlight + 1 ELSE inFlight
       ELSE UNCHANGED <<admitted, inFlight>>
  /\ UNCHANGED <<service, resets, happened>>

(* mutant: a failed probe leaves its slot taken *)
SlotsKept == inFlight

(* What halfOpenInFlight is stored as when HalfOpen ends.                   *)
SlotsFreed == 0

(* mutant: the next probe is not let in *)
SlotsAfterSuccessKept == inFlight

SlotsAfterSuccess == inFlight - 1

(* mutant: one success too few *)
ClosesEarly(n) == n + 1 >= SuccessThreshold

Closes(n) == n >= SuccessThreshold

FailedIn(s) ==
  \/ /\ s = "closed" /\ failureCount + 1 >= FailureThreshold
     /\ ToState("open")
     /\ UNCHANGED inFlight
  \/ /\ s = "closed" /\ failureCount + 1 < FailureThreshold
     /\ failureCount' = failureCount + 1
     /\ UNCHANGED <<state, successCount, timer, probeOk, inFlight>>
  \/ /\ s = "half_open"
     /\ ToState("open")
     /\ inFlight' = SlotsFreed
  \/ /\ s = "open"
     /\ SameState /\ UNCHANGED inFlight

SucceededIn(s, c) ==
  \/ /\ s = "closed"
     /\ failureCount' = 0
     /\ UNCHANGED <<state, successCount, timer, probeOk, inFlight>>
  \/ /\ s = "half_open" /\ Closes(successCount + 1)
     /\ ToState("closed")
     /\ inFlight' = SlotsFreed
  \/ /\ s = "half_open" /\ ~ Closes(successCount + 1)
     /\ successCount' = successCount + 1
     /\ probeOk' = IF c \in Probes THEN probeOk + 1 ELSE probeOk
     /\ inFlight' = SlotsAfterSuccess
     /\ UNCHANGED <<state, failureCount, timer>>
  \/ /\ s = "open"
     /\ SameState /\ UNCHANGED inFlight

(* fn returned, and afterExecute with its error.                            *)
End(c) ==
  /\ c \in UnderWay
  /\ IF service = "up" THEN SucceededIn(state, c) ELSE FailedIn(state)
  /\ admitted' = [admitted EXCEPT ![c] = "none"]
  /\ UNCHANGED <<service, resets, happened>>

(* fn panicked: the panic leaves Execute, afterExecute is not called.       *)
Panic(c) ==
  /\ "panic" \in Hazards
  /\ c \in UnderWay
  /\ admitted' = [admitted EXCEPT ![c] = "none"]
  /\ happened' = happened \cup {"panic"}
  /\ UNCHANGED <<breaker, service, probeOk, resets>>

(* State() as called by anybody.                                            *)
Observe ==
  /\ TryTransitionToHalfOpen
  /\ UNCHANGED <<inFlight, admitted, service, resets, happened>>

Reset ==
  /\ "reset" \in Hazards /\ resets < MaxResets
  /\ ToState("closed")
  /\ resets' = resets + 1
  /\ happened' = happened \cup {"reset"}
  /\ UNCHANGED <<inFlight, admitted, service>>

(* OpenTimeout passes; a call that still runs by then is late.              *)
Expire ==
  /\ state = "open" /\ timer = "running"
  /\ UnderWay # {} => "late" \in Hazards
  /\ happened' = IF UnderWay = {} THEN happened ELSE happened \cup {"late"}
  /\ timer' = "expired"
  /\ UNCHANGED <<state, failureCount, successCount, inFlight, admitted, service, probeOk, resets>>

ServiceChanges ==
  /\ service' \in {"up", "down"} \ {service}
  /\ UNCHANGED <<breaker, admitted, probeOk, resets, happened>>

BreakerNext ==
  \/ \E c \in Calls : Begin(c) \/ End(c) \/ Panic(c)
  \/ Observe \/ Reset \/ Expire \/ ServiceChanges

BreakerSpec == BreakerInit /\ [][BreakerNext]_breakerVars

(* Requests keep coming, every fn returns and time passes.                  *)
BreakerFairness ==
  /\ \A c \in Calls : WF_breakerVars(Begin(c)) /\ WF_breakerVars(End(c))
  /\ WF_breakerVars(Expire)

BreakerLiveSpec == BreakerSpec /\ BreakerFairness

-----------------------------------------------------------------------------
(* Safety.                                                                   *)

Punctual  == "late" \notin happened
Undamaged == happened \cap {"panic", "reset"} = {}

(* circuitbreaker.go:144: in HalfOpen one probe is under way at a time, as  *)
(* long as every call has ended within OpenTimeout, panics and resets or    *)
(* not.  A late call that ends in HalfOpen frees a slot it never took.       *)
OneProbe == Punctual /\ state = "half_open" => Cardinality(Probes) <= 1

(* A breaker in HalfOpen without a probe lets the next call in, however     *)
(* late calls end: the slot is not lost unless a call panicked or the       *)
(* breaker was reset, each of which may leave it taken.                      *)
NeverWedged == Undamaged /\ state = "half_open" /\ Probes = {} => Admits("half_open")

(* As long as calls end within OpenTimeout, the breaker leaves HalfOpen for *)
(* Closed only when SuccessThreshold probes of this very HalfOpen succeeded; *)
(* the results of older calls are not taken for recovery.                    *)
ClosedByProbes ==
  [][Punctual /\ state = "half_open" /\ state' = "closed" /\ resets' = resets
       => probeOk + 1 >= SuccessThreshold /\ \E c \in Probes : admitted'[c] = "none"]_breakerVars

(* Why OneProbe and ClosedByProbes hold while calls end within OpenTimeout: *)
(* HalfOpen begins with nobody running, so whoever runs in it is a probe,   *)
(* holds the slot, and is the one whose success is counted.                  *)
ProbesAlone ==
  /\ inFlight >= 0
  /\ state = "open" /\ timer = "expired" => UnderWay = {}
  /\ state = "half_open" => /\ UnderWay = Probes
                            /\ \A c, d \in Probes : c = d
                            /\ Probes # {} => inFlight >= 1
                            /\ probeOk = successCount

(* Why NeverWedged holds while fn does not panic and nobody calls Reset:    *)
(* the slots taken never exceed the probes under way.                        *)
SlotsCovered ==
  /\ state # "half_open" => inFlight = 0
  /\ state = "half_open" => inFlight <= Cardinality(Probes)

(* Liveness: once the service works for good, the breaker closes for good,  *)
(* however many calls were late, if none panics and nobody resets it.        *)
Recovers == []Undamaged /\ <>[](service = "up") => <>[](state = "closed")
=============================================================================
