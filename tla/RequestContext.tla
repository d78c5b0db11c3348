--------------------------- MODULE RequestContext ---------------------------
(***************************************************************************)
(* What the guards of a request have in common: every command they send to  *)
(* Redis or to the memory cache is given the request's context.  Once the   *)
(* client has gone the context is done, and each such command, those that   *)
(* tidy up included, may fail without any fault of the store's.             *)
(***************************************************************************)
EXTENDS Naturals, FiniteSets

CONSTANTS Requests,   \* the requests
          NoOne,      \* no request
          Faults,     \* the faults that may happen, of AllFaults
          MaxFaults   \* bound: how many of them happen

AllFaults == {"store",    \* a command fails, before or after it took effect
              "gone",     \* the client goes away
              "outlive",  \* a handler works longer than a ttl
              "panic",    \* a handler panics
              "crash",    \* the process of a request dies
              "forget"}   \* the ttl of a saved result runs out

ASSUME RequestsAssumption == NoOne \notin Requests /\ IsFiniteSet(Requests)
ASSUME FaultsAssumption == Faults \subseteq AllFaults /\ MaxFaults \in Nat

VARIABLES
  gone,    \* the requests whose context is done
  faults   \* faults that have happened

ctxVars == <<gone, faults>>

ContextTypeOK == gone \subseteq Requests /\ faults \in 0 .. MaxFaults

ContextInit == gone = {} /\ faults = 0

MayFail(f) == f \in Faults /\ faults < MaxFaults

(* How a command of r ends: it took effect; it did not and returned an      *)
(* error; it took effect and returned an error.                              *)
Outcomes(r) == {"ok"} \cup (IF r \in gone \/ MayFail("store") THEN {"error", "lost"} ELSE {})

(* Only a failure for a client who is there needs a fault.                  *)
Charge(r, outcome) ==
  /\ faults' = IF outcome # "ok" /\ r \notin gone THEN faults + 1 ELSE faults
  /\ UNCHANGED gone

Happens(f) == MayFail(f) /\ faults' = faults + 1 /\ UNCHANGED gone

Cancel(r) ==
  /\ r \notin gone /\ MayFail("gone")
  /\ gone' = gone \cup {r}
  /\ faults' = faults + 1
=============================================================================
