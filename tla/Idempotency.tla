---------------------------- MODULE Idempotency ----------------------------
(***************************************************************************)
(* The idempotency guard (middleware/idempotency) for one key: requests     *)
(* with that key look for a saved result, take the lock of the key, run the *)
(* handler and save its result.  One command of the store is one step.      *)
(***************************************************************************)
EXTENDS RequestContext

CONSTANT Skipping  \* the requests whose guard was made WithSkipOnError(true)

ASSUME SkippingAssumption == Skipping \subseteq Requests

VARIABLES
  result,      \* a result is saved under the key
  lock,        \* the request whose SETNX made the lock key; its value does not say so
  iat,         \* iat[r]: where request r stands with the guard
  ran,         \* the requests whose handler has been started (history)
  blind,       \* those that have not seen the store since a result was saved (history)
  causes       \* reasons for one more execution so far (history)

entryVars == <<result, lock>>
whyVars   == <<ran, blind, causes>>
idemVars  == <<entryVars, iat, whyVars>>

(* Where the handler runs: under the lock, or beside it.                     *)
Running == {r \in Requests : iat[r] \in {"run", "bare"}}

IdemTypeOK ==
  /\ result \in BOOLEAN
  /\ lock \in Requests \cup {NoOne}
  /\ iat \in [Requests -> {"look", "again", "setnx", "run", "bare", "save", "unlock",
                           "answered", "dead"}]
  /\ ran \subseteq Requests /\ blind \subseteq Requests
  /\ causes \in Nat

IdemInit ==
  /\ result = FALSE /\ lock = NoOne
  /\ iat = [r \in Requests |-> "look"]
  /\ ran = {} /\ blind = {} /\ causes = 0

Moves(r, where) == iat' = [iat EXCEPT ![r] = where]

-----------------------------------------------------------------------------
(* Store.Get.  Every error of the store counts as no result.                *)
Look(r) ==
  /\ iat[r] = "look"
  /\ \E outcome \in Outcomes(r) :
       /\ Moves(r, IF outcome = "ok" /\ result THEN "answered" ELSE "again")
       /\ Charge(r, outcome)
  /\ UNCHANGED <<entryVars, whyVars>>

(* Store.SetNX looks once more ...                                          *)
LookAgain(r) ==
  /\ iat[r] = "again"
  /\ \E outcome \in Outcomes(r) :
       /\ Moves(r, IF outcome = "ok" /\ result THEN "answered" ELSE "setnx")
       /\ blind' = IF result THEN blind \cup {r} ELSE blind
       /\ Charge(r, outcome)
  /\ UNCHANGED <<entryVars, ran, causes>>

(* mutant: SET without NX *)
Always == TRUE

Free == lock = NoOne

(* ... and takes the lock in a command of its own: the handler runs, also    *)
(* when a result was saved since the last look.                              *)
Starts(r) ==
  /\ ran' = ran \cup {r}
  /\ causes' = IF r \in blind THEN causes + 1 ELSE causes
  /\ UNCHANGED <<result, blind>>

TakeLock(r) ==
  /\ iat[r] = "setnx" /\ Free
  /\ lock' = r
  /\ Moves(r, "run")
  /\ Starts(r)
  /\ UNCHANGED ctxVars

InProgress(r) ==
  /\ iat[r] = "setnx" /\ lock # NoOne
  /\ Moves(r, "answered")
  /\ UNCHANGED <<entryVars, whyVars, ctxVars>>

(* SetNX fails, perhaps after it made the key: an error for the client, or   *)
(* the handler runs beside the guard and its result is not saved.            *)
LockFails(r) ==
  /\ iat[r] = "setnx"
  /\ \E outcome \in Outcomes(r) \ {"ok"} :
       /\ lock' = IF outcome = "lost" /\ lock = NoOne THEN r ELSE lock
       /\ Charge(r, outcome)
  /\ IF r \in Skipping
       THEN Moves(r, "bare") /\ ran' = ran \cup {r} /\ causes' = causes + 1
       ELSE Moves(r, "answered") /\ UNCHANGED <<ran, causes>>
  /\ UNCHANGED <<result, blind>>

(* An error of the handler is a result as any other.                         *)
HandlerReturns(r) ==
  /\ iat[r] \in {"run", "bare"}
  /\ Moves(r, IF iat[r] = "run" THEN "save" ELSE "answered")
  /\ UNCHANGED <<entryVars, whyVars, ctxVars>>

(* The middleware does not recover: no result, and the lock stays.           *)
HandlerPanics(r) ==
  /\ iat[r] \in {"run", "bare"} /\ Happens("panic")
  /\ Moves(r, "answered")
  /\ UNCHANGED <<entryVars, whyVars>>

(* Those that look no more before they take the lock.                        *)
Past == {r \in Requests : iat[r] = "setnx"}

(* Store.Set: the result first, and its error leaves the lock.               *)
Save(r) ==
  /\ iat[r] = "save"
  /\ \E outcome \in Outcomes(r) :
       /\ result' = (result \/ outcome # "error")
       /\ blind' = IF outcome = "error" THEN blind ELSE blind \cup Past
       /\ Moves(r, IF outcome = "ok" THEN "unlock" ELSE "answered")
       /\ Charge(r, outcome)
  /\ UNCHANGED <<lock, ran, causes>>

(* The lock of one whose handler has started goes before its result is there. *)
LetsOneMore == lock \in ran /\ ~ result

(* DEL of the lock, whoever made it; its error is dropped.                   *)
Unlock(r) ==
  /\ iat[r] = "unlock"
  /\ \E outcome \in Outcomes(r) :
       /\ lock' = IF outcome = "error" THEN lock ELSE NoOne
       /\ causes' = IF lock # r /\ LetsOneMore THEN causes + 1 ELSE causes
       /\ Charge(r, outcome)
  /\ Moves(r, "answered")
  /\ UNCHANGED <<result, ran, blind>>

(* mutant: SETNX without a ttl, which the request sets afterwards *)
SurvivesItsMaker == lock # NoOne /\ iat[lock] # "dead"

Locked == lock # NoOne

(* The ttl of the lock (lockTimeout).                                        *)
LockExpires ==
  /\ Locked
  /\ IF iat[lock] \in {"run", "save", "unlock"} THEN Happens("outlive") ELSE UNCHANGED ctxVars
  /\ lock' = NoOne
  /\ causes' = IF LetsOneMore THEN causes + 1 ELSE causes
  /\ UNCHANGED <<result, iat, ran, blind>>

(* The ttl of the result; what is executed after it is another request.      *)
ResultExpires ==
  /\ result /\ Happens("forget")
  /\ result' = FALSE
  /\ blind' = {}
  /\ causes' = causes + 1
  /\ UNCHANGED <<lock, iat, ran>>

IdemStep(r) ==
  \/ Look(r) \/ LookAgain(r)
  \/ TakeLock(r) \/ InProgress(r) \/ LockFails(r)
  \/ HandlerReturns(r) \/ HandlerPanics(r)
  \/ Save(r) \/ Unlock(r)
=============================================================================
