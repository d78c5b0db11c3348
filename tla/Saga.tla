-------------------------------- MODULE Saga --------------------------------
(***************************************************************************)
(* One execution of a saga (domain/saga) with its state store, which keeps  *)
(* the record of the execution in a key-value store (domain/saga/kvstore).  *)
(*                                                                         *)
(* ExecuteWithData is sequential; what happens beside it is that its        *)
(* context becomes done (the saga's own timeout or the caller's), at any    *)
(* moment, and that the process dies.  One call that leaves the package (an *)
(* Action, a Compensate, a Save) is one step with the code up to the next.  *)
(* Every one of them is given the same context, so once it is done each may *)
(* fail without any fault of its own.                                        *)
(***************************************************************************)
EXTENDS Naturals

CONSTANTS NumSteps,    \* len(steps); Build refuses 0
          Undoable,    \* the steps whose Compensate is not nil
          RetryCount,  \* WithRetry
          Faults,      \* the faults that may happen, of AllFaults
          MaxFaults    \* bound: how many of them happen

AllFaults == {"action", "compensate", "save", "done", "crash"}

ASSUME NumStepsAssumption == NumSteps \in Nat \ {0}
ASSUME UndoableAssumption == Undoable \subseteq 1 .. NumSteps
ASSUME RetryCountAssumption == RetryCount \in Nat
ASSUME FaultsAssumption == Faults \subseteq AllFaults /\ MaxFaults \in Nat

VARIABLES
  pc,       \* where ExecuteWithData stands
  cur,      \* the index of the loop over the steps, forward and then back
  attempt,  \* the attempt of executeStepWithRetry
  status,   \* state.Status
  result,   \* state.StepResults[i].Status
  undoErr,  \* compensateErr # nil
  ctxDone,  \* ctx.Err() # nil
  record,   \* what the store holds: a copy of status and result, or NoRecord
  answer,   \* what ExecuteWithData returned
  took,     \* the steps whose Action had its effect, at least once (history)
  undone,   \* the steps whose Compensate had its effect (history)
  faults    \* faults that have happened

stateVars == <<status, result>>
histVars  == <<took, undone, faults>>
vars      == <<pc, cur, attempt, undoErr, ctxDone, record, answer, stateVars, histVars>>

Steps    == 1 .. NumSteps
NoRecord == [status |-> "none", result |-> [i \in Steps |-> "pending"]]

SagaStatus == {"pending", "running", "completed", "compensating", "compensated",
               "compensate_failed"}
StepStatus == {"pending", "running", "completed", "failed", "compensated",
               "compensate_failed"}
Record     == [status : SagaStatus, result : [Steps -> StepStatus]]
Answer     == {"none", "nil", "failed", "failedUndo", "failedUnsaved", "failedUndoUnsaved"}

TypeOK ==
  /\ pc \in {"new", "loop", "act", "wait", "turn", "undo", "returned", "dead"}
  /\ cur \in 0 .. NumSteps + 1
  /\ attempt \in 0 .. RetryCount
  /\ status \in SagaStatus
  /\ result \in [Steps -> StepStatus]
  /\ undoErr \in BOOLEAN /\ ctxDone \in BOOLEAN 
  /\ record \in Record \cup {NoRecord}
  /\ answer \in Answer
  /\ took \subseteq Steps /\ undone \subseteq Undoable
  /\ faults \in 0 .. MaxFaults

Init ==
  /\ pc = "new" /\ cur = 1 /\ attempt = 0
  /\ status = "pending"
  /\ result = [i \in Steps |-> "pending"]
  /\ undoErr = FALSE /\ ctxDone = FALSE
  /\ record = NoRecord
  /\ answer = "none"
  /\ took = {} /\ undone = {}
  /\ faults = 0

MayFail(f) == f \in Faults /\ faults < MaxFaults

(* How a call that is given ctx may end: it did its work; it did nothing    *)
(* and returned an error; it did its work and returned an error.            *)
Outcomes(f) == {"ok"} \cup (IF ctxDone \/ MayFail(f) THEN {"error", "lost"} ELSE {})

Charge(n) == faults' = faults + n

(* Only a failure under a live context needs a fault.                       *)
Cost(outcome) == IF outcome # "ok" /\ ~ ctxDone THEN 1 ELSE 0

-----------------------------------------------------------------------------
(* Store.Save: the whole state under one key, whatever was there before.    *)

(* mutant: the state is written down before the new status is set *)
RecordedEarly == [status |-> status, result |-> result]

Recorded == [status |-> status', result |-> result']

Saved(outcome) ==
  record' = IF outcome = "error" THEN record ELSE Recorded

(* The execution starts: state.Status = Running, saved; an error is logged. *)
Begin ==
  /\ pc = "new"
  /\ \E outcome \in Outcomes("save") :
       /\ status' = "running" /\ UNCHANGED result
       /\ Saved(outcome)
       /\ Charge(Cost(outcome))
  /\ pc' = "loop"
  /\ UNCHANGED <<cur, attempt, undoErr, ctxDone, answer, took, undone>>

-----------------------------------------------------------------------------
(* The forward loop.                                                         *)

Enter ==
  /\ pc = "loop" /\ cur <= NumSteps /\ ~ ctxDone
  /\ result' = [result EXCEPT ![cur] = "running"]
  /\ attempt' = 0
  /\ pc' = "act"
  /\ UNCHANGED <<cur, status, undoErr, ctxDone, record, answer, histVars>>

(* The check of ctx at the head of the loop.                                *)
OutOfTime ==
  /\ pc = "loop" /\ cur <= NumSteps /\ ctxDone
  /\ pc' = "turn"
  /\ UNCHANGED <<cur, attempt, undoErr, ctxDone, record, answer, stateVars, histVars>>

(* One call of Action.                                                       *)
ActOk ==
  /\ pc = "act"
  /\ result' = [result EXCEPT ![cur] = "completed"]
  /\ took' = took \cup {cur}
  /\ cur' = cur + 1
  /\ pc' = "loop"
  /\ UNCHANGED <<attempt, status, undoErr, ctxDone, record, answer, undone, faults>>

ActFails ==
  /\ pc = "act"
  /\ \E outcome \in Outcomes("action") \ {"ok"} :
       /\ took' = IF outcome = "lost" THEN took \cup {cur} ELSE took
       /\ Charge(Cost(outcome))
  /\ IF attempt < RetryCount
       THEN pc' = "wait" /\ UNCHANGED result
       ELSE pc' = "turn" /\ result' = [result EXCEPT ![cur] = "failed"]
  /\ UNCHANGED <<cur, attempt, status, undoErr, ctxDone, record, answer, undone>>

(* mutant: the attempts are not counted *)
SameAttempt == attempt

NextAttempt == attempt + 1

(* The pause before a retry: the timer, or ctx.Done(); with both ready      *)
(* select takes either.                                                      *)
RetryNow ==
  /\ pc = "wait"
  /\ attempt' = NextAttempt
  /\ pc' = "act"
  /\ UNCHANGED <<cur, undoErr, ctxDone, record, answer, stateVars, histVars>>

RetryCancelled ==
  /\ pc = "wait" /\ ctxDone
  /\ result' = [result EXCEPT ![cur] = "failed"]
  /\ pc' = "turn"
  /\ UNCHANGED <<cur, attempt, status, undoErr, ctxDone, record, answer, histVars>>

(* All steps are done; the error of the Save is dropped, the caller gets    *)
(* nil.                                                                      *)
Succeed ==
  /\ pc = "loop" /\ cur > NumSteps
  /\ \E outcome \in Outcomes("save") :
       /\ status' = "completed" /\ UNCHANGED result
       /\ Saved(outcome)
       /\ Charge(Cost(outcome))
  /\ answer' = "nil"
  /\ pc' = "returned"
  /\ UNCHANGED <<cur, attempt, undoErr, ctxDone, took, undone>>

-----------------------------------------------------------------------------
(* The saga turns back: the steps before cur are the completed ones.  The   *)
(* error of this Save is dropped.                                            *)
TurnBack ==
  /\ pc = "turn"
  /\ \E outcome \in Outcomes("save") :
       /\ status' = "compensating" /\ UNCHANGED result
       /\ Saved(outcome)
       /\ Charge(Cost(outcome))
  /\ cur' = cur - 1
  /\ pc' = "undo"
  /\ UNCHANGED <<attempt, undoErr, ctxDone, answer, took, undone>>

(* compensate: backwards over the completed steps; an error is kept and the *)
(* loop goes on.                                                             *)

(* mutant: the loop steps over two *)
PreviousButOne == IF cur > 1 THEN cur - 2 ELSE 0

Previous == cur - 1

NothingToUndo ==
  /\ pc = "undo" /\ cur > 0 /\ cur \notin Undoable
  /\ result' = [result EXCEPT ![cur] = "compensated"]
  /\ cur' = Previous
  /\ UNCHANGED <<pc, attempt, status, undoErr, ctxDone, record, answer, histVars>>

(* mutant: only the last error counts *)
LastUndoErr(outcome) == outcome # "ok"

UndoErrAfter(outcome) == undoErr \/ outcome # "ok"

Undo ==
  /\ pc = "undo" /\ cur \in Undoable
  /\ \E outcome \in Outcomes("compensate") :
       /\ result' = [result EXCEPT ![cur] =
                       IF outcome = "ok" THEN "compensated" ELSE "compensate_failed"]
       /\ undoErr' = UndoErrAfter(outcome)
       /\ undone' = IF outcome = "error" THEN undone ELSE undone \cup {cur}
       /\ Charge(Cost(outcome))
  /\ cur' = Previous
  /\ UNCHANGED <<pc, attempt, status, ctxDone, record, answer, took>>

(* The final Save; only here its error is part of the answer.               *)
Finish ==
  /\ pc = "undo" /\ cur = 0
  /\ \E outcome \in Outcomes("save") :
       /\ status' = IF undoErr THEN "compensate_failed" ELSE "compensated"
       /\ UNCHANGED result
       /\ Saved(outcome)
       /\ Charge(Cost(outcome))
       /\ answer' = CASE undoErr /\ outcome = "ok"    -> "failedUndo"
                      [] undoErr /\ outcome # "ok"    -> "failedUndoUnsaved"
                      [] ~ undoErr /\ outcome = "ok"  -> "failed"
                      [] ~ undoErr /\ outcome # "ok"  -> "failedUnsaved"
  /\ pc' = "returned"
  /\ UNCHANGED <<cur, attempt, undoErr, ctxDone, took, undone>>

-----------------------------------------------------------------------------
Over == pc \in {"returned", "dead"}

(* The timeout expires or the caller cancels.                               *)
ContextEnds ==
  /\ ~ Over /\ ~ ctxDone /\ MayFail("done")
  /\ ctxDone' = TRUE
  /\ Charge(1)
  /\ UNCHANGED <<pc, cur, attempt, undoErr, record, answer, stateVars, took, undone>>

(* The process dies, or a panic of an Action or a Compensate goes through   *)
(* ExecuteWithData: only the record is left.                                 *)
Crash ==
  /\ ~ Over /\ MayFail("crash")
  /\ pc' = "dead"
  /\ Charge(1)
  /\ UNCHANGED <<cur, attempt, undoErr, ctxDone, record, answer, stateVars, took, undone>>

Forward  == Enter \/ OutOfTime \/ ActOk \/ ActFails \/ RetryNow \/ RetryCancelled
Backward == TurnBack \/ NothingToUndo \/ Undo \/ Finish

Execute == Begin \/ Forward \/ Succeed \/ Backward

Next == Execute \/ ContextEnds \/ Crash

Spec == Init /\ [][Next]_vars

(* The goroutine is scheduled; an Action, a Compensate and a Save return.   *)
LiveSpec == Spec /\ WF_vars(Execute)

-----------------------------------------------------------------------------
(* Correctness.                                                              *)

(* The saga keeps the promise of AllOrNothing with every fault: a step      *)
(* whose compensation failed, for example because the saga's own timeout    *)
(* has ended the context it is given, is never passed off as compensated,   *)
(* and apart from the step that failed nothing else is left in force.        *)
Culprits == IF status = "running" THEN {} ELSE {i \in Steps : result[i] = "failed"}

Promise == INSTANCE AllOrNothing WITH
  Parts     <- Steps,
  Revocable <- Undoable,
  phase     <- CASE status \in {"pending", "running"} -> "forward"
                 [] status = "compensating"           -> "back"
                 [] status = "completed"              -> "committed"
                 [] status = "compensated"            -> "aborted"
                 [] status = "compensate_failed"      -> "torn",
  standing  <- took \ undone,
  culprit   <- Culprits,
  stuck     <- {i \in Steps : result[i] = "compensate_failed"}

KeepsPromise == Promise!AbstractSpec

(* What a reader of the store may rely on, also after a crash or a lost     *)
(* save: a record that says "completed" or "compensated" is right about the *)
(* steps, up to the step it marks as failed; one that no Save was lost after*)
(* is the state that the saga ended with, and a caller who is told of no    *)
(* lost save may rely on that, but for the saga that succeeded.             *)
RecordIsTruthful ==
  /\ record.status = "completed" => took = Steps /\ undone = {}
  /\ record.status = "compensated" =>
       \A i \in took \cap Undoable : i \in undone \/ record.result[i] = "failed"
  /\ answer \in {"failed", "failedUndo"} =>
       record = [status |-> status, result |-> result]

(* Compensation runs backwards: when a step is undone, every later step     *)
(* that had completed was compensated before, or its compensation was tried *)
(* and failed; and no Action runs once compensation has begun.               *)
BackwardsOnly ==
  [][/\ \A i \in undone' \ undone :
          \A j \in Undoable : j > i /\ j \in took => result[j] \in {"compensated", "compensate_failed", "failed"}
     /\ (took' # took => undone = {} /\ status = "running")]_vars

(* An execution that does not die returns, whatever fails.                  *)
Returns == <> Over
=============================================================================
