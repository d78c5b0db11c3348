---------------------------- MODULE RequestGuards ----------------------------
(***************************************************************************)
(* Requests with one idempotency key (a client that repeats itself) on      *)
(* servers that guard the handler with the distributed semaphore and, under *)
(* its permit, with idempotency.  The two guards share the request's        *)
(* context, its panics and the process it runs in.                          *)
(***************************************************************************)
EXTENDS DistributedSemaphore, Idempotency

vars == <<ctxVars, semVars, idemVars>>

TypeOK == ContextTypeOK /\ SemTypeOK /\ IdemTypeOK

Init == ContextInit /\ SemInit /\ IdemInit

(* next.ServeHTTP under the permit, and the deferred Release when it has     *)
(* returned or panicked.                                                     *)
GuardedStep(r) == sat[r] = "in" /\ IdemStep(r) /\ UNCHANGED semVars

Returns(r) ==
  /\ sat[r] = "in" /\ iat[r] = "answered"
  /\ Stands(r, "release")
  /\ UNCHANGED <<keyVars, forgotten, untimed, idemVars, ctxVars>>

SemaphoreStep(r) == SemStep(r) /\ UNCHANGED idemVars

Ended(r) == sat[r] \in {"rejected", "out", "dead"}

(* The process that serves r dies.                                           *)
Crash(r) ==
  /\ ~ Ended(r) /\ sat[r] # "new" /\ Happens("crash")
  /\ Stands(r, "dead") /\ Moves(r, "dead")
  /\ untimed' = IF sat[r] \in {"first", "refresh"} THEN untimed + 1 ELSE untimed
  /\ UNCHANGED <<keyVars, forgotten, entryVars, whyVars>>

ClientGoes(r) == ~ Ended(r) /\ Cancel(r) /\ UNCHANGED <<semVars, idemVars>>

SemaphoreExpires == KeyExpires /\ UNCHANGED idemVars

EntryExpires == (LockExpires \/ ResultExpires) /\ UNCHANGED semVars

Serve(r) == SemaphoreStep(r) \/ GuardedStep(r) \/ Returns(r)

Next ==
  \/ \E r \in Requests : Serve(r) \/ ClientGoes(r) \/ Crash(r)
  \/ SemaphoreExpires \/ EntryExpires

Spec == Init /\ [][Next]_vars

(* Goroutines are scheduled, handlers return, and an entry whose ttl nobody *)
(* renews expires.                                                           *)
LiveSpec ==
  /\ Spec
  /\ \A r \in Requests : WF_vars(Serve(r))
  /\ WF_vars(Admitted = {} /\ SemaphoreExpires)
  /\ WF_vars(LockExpires /\ UNCHANGED semVars)

-----------------------------------------------------------------------------
(* Correctness.                                                              *)

(* A key is executed once, and once more only for a reason: a request was    *)
(* between its last look and its SETNX when the result was saved, or could   *)
(* not look; a lock expired under a handler or after one whose result was    *)
(* not saved (it panicked, its process died, the save failed, the client had *)
(* gone), or was deleted by a request whose own lock had expired; a handler  *)
(* ran beside the guard; the result expired.                                 *)
RepeatsExplained == Cardinality(ran) <= 1 + causes

(* The key is not left locked: whoever panics, dies or cannot delete the     *)
(* lock, the next request is not told "in progress" for ever.                *)
LockComesBack == []<>(lock = NoOne)

(* Whatever happened to those before it, a request finds both guards open    *)
(* again.                                                                    *)
GuardsReopen == PermitsComeBack /\ LockComesBack
=============================================================================
