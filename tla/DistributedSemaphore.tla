------------------------ MODULE DistributedSemaphore ------------------------
(***************************************************************************)
(* The distributed semaphore (middleware/semaphore) as its middleware uses  *)
(* it for one key: TryAcquire or Acquire, the guarded handler, the deferred *)
(* Release.                                                                  *)
(* A permit is one in a counter under a key with a ttl; nothing says whose  *)
(* it is.  One command of the store is one step.                            *)
(***************************************************************************)
EXTENDS RequestContext, Integers, FiniteSets

CONSTANTS Size,     \* New refuses a size that is not positive
          Blocking  \* the requests whose guard was made WithBlock(true)

ASSUME SizeAssumption == Size \in Nat \ {0}
ASSUME BlockingAssumption == Blocking \subseteq Requests

VARIABLES
  count,     \* the value of the key, 0 when it is absent
  ttl,       \* the key: "absent", "none" (it stays for ever) or "set"
  sat,       \* sat[r]: where request r stands with the semaphore
  forgotten, \* how many permits were in use when the key last expired (history)
  untimed    \* how often somebody counted and did not set the ttl after it (history)

keyVars == <<count, ttl>>
semVars == <<keyVars, sat, forgotten, untimed>>

(* Those that have incremented and have not decremented; those of them that  *)
(* are let in.                                                               *)
Admitted == {r \in Requests : sat[r] \in {"first", "refresh", "in", "release"}}
Counted  == Admitted \cup {r \in Requests : sat[r] = "over"}

SemTypeOK ==
  /\ count \in Int
  /\ ttl \in {"absent", "none", "set"}
  /\ sat \in [Requests -> {"new", "first", "refresh", "over", "wait", "in",
                           "release", "rejected", "out", "dead"}]
  /\ forgotten \in Nat
  /\ untimed \in Nat

SemInit ==
  /\ count = 0 /\ ttl = "absent"
  /\ sat = [r \in Requests |-> "new"]
  /\ forgotten = 0 /\ untimed = 0

Stands(r, where) == sat' = [sat EXCEPT ![r] = where]

-----------------------------------------------------------------------------
(* The commands: INCR and DECR make the key when it is absent, without ttl; *)
(* EXPIRE of an absent key does nothing.                                     *)
Adds(n, outcome) ==
  IF outcome = "error" THEN UNCHANGED keyVars
  ELSE /\ count' = count + n
       /\ ttl' = IF ttl = "absent" THEN "none" ELSE ttl

SetsTTL(outcome) ==
  /\ ttl' = IF outcome = "error" \/ ttl = "absent" THEN ttl ELSE "set"
  /\ UNCHANGED count

(* mutant: count >= size - 1, a comparison with the value before *)
PassesAtSize(n) == n <= Size + 1

Passes(n) == n <= Size

(* A refusal is final without WithBlock.  With it Acquire selects between a  *)
(* timer it has just made and the context: one that is done decides.         *)
Refused(r) == IF r \in Blocking \ gone THEN "wait" ELSE "rejected"

(* TryAcquire: the increment decides.  Its error is a refusal, also when     *)
(* only the answer was lost.                                                 *)
Increment(r) ==
  /\ sat[r] = "new"
  /\ \E outcome \in Outcomes(r) :
       /\ Adds(1, outcome)
       /\ untimed' = IF outcome = "lost" THEN untimed + 1 ELSE untimed
       /\ Stands(r, CASE outcome # "ok" -> Refused(r)
                      [] outcome = "ok" /\ count = 0 -> "first"
                      [] outcome = "ok" /\ count # 0 -> IF Passes(count + 1) THEN "refresh" ELSE "over")
       /\ Charge(r, outcome)
  /\ UNCHANGED forgotten

ExpireFirst(r) ==
  /\ sat[r] = "first"
  /\ \E outcome \in Outcomes(r) : SetsTTL(outcome) /\ Charge(r, outcome)
  /\ Stands(r, "refresh")
  /\ UNCHANGED <<forgotten, untimed>>

Refresh(r) ==
  /\ sat[r] = "refresh"
  /\ \E outcome \in Outcomes(r) :
       /\ SetsTTL(outcome)
       /\ untimed' = IF outcome = "error" THEN untimed + 1 ELSE untimed
       /\ Charge(r, outcome)
  /\ Stands(r, "in")
  /\ UNCHANGED forgotten

(* Too many: the increment is taken back, or is not when that fails.        *)
GoBack(r) ==
  /\ sat[r] = "over"
  /\ \E outcome \in Outcomes(r) : Adds(-1, outcome) /\ Charge(r, outcome)
  /\ Stands(r, Refused(r))
  /\ UNCHANGED <<forgotten, untimed>>

(* Acquire: retryWait is over, and perhaps the client has gone meanwhile, or *)
(* the client goes first.                                                    *)
Retry(r) ==
  /\ sat[r] = "wait"
  /\ Stands(r, "new")
  /\ UNCHANGED <<keyVars, forgotten, untimed, ctxVars>>

GiveUp(r) ==
  /\ sat[r] = "wait" /\ r \in gone
  /\ Stands(r, "rejected")
  /\ UNCHANGED <<keyVars, forgotten, untimed, ctxVars>>

(* The deferred Release, with the request's context; its error is dropped.   *)
Release(r) ==
  /\ sat[r] = "release"
  /\ \E outcome \in Outcomes(r) : Adds(-1, outcome) /\ Charge(r, outcome)
  /\ Stands(r, "out")
  /\ UNCHANGED <<forgotten, untimed>>

(* The ttl runs out.  Under requests that use their permits this needs that  *)
(* nobody acquired for a whole ttl; those that are refused do not renew it.  *)
KeyExpires ==
  /\ ttl = "set"
  /\ IF Admitted = {} THEN UNCHANGED ctxVars ELSE Happens("outlive")
  /\ count' = 0 /\ ttl' = "absent"
  /\ forgotten' = Cardinality(Counted)
  /\ UNCHANGED <<sat, untimed>>

SemStep(r) == \/ Increment(r) \/ ExpireFirst(r) \/ Refresh(r) \/ GoBack(r)
              \/ Retry(r) \/ GiveUp(r)
              \/ Release(r)

-----------------------------------------------------------------------------
(* No more than Size requests are let in at once, whatever commands fail or  *)
(* whoever dies; only those that were using their permits when the key last  *)
(* expired may come on top.  The counter goes below zero when they release,  *)
(* and admits as many more as it does.                                       *)
NeverOverAdmits == Cardinality(Admitted) <= Size + forgotten

(* The semaphore opens again: the permits that failed releases, lost         *)
(* answers and dead processes left taken go with the ttl, of the whole key.  *)
(* It stays closed only if as often as Size times somebody counted and then  *)
(* did not set a ttl, for having died or because the command failed: then    *)
(* nobody does.                                                              *)
PermitsComeBack == []<>(count < Size) \/ <>(untimed >= Size)
=============================================================================
