----------------------------- MODULE SagaProofs -----------------------------
(* Theorems about Saga, for any number of steps, retries and faults.         *)
EXTENDS Saga, TLAPS

(* TypeOK: the loop stays within the steps and the attempts within the       *)
(* retries, and the statuses are those of state.go.                          *)
WaitsWithRetriesLeft == pc = "wait" => attempt < RetryCount

InRange ==
  /\ pc \in {"act", "wait", "turn"} => cur \in Steps
  /\ pc \in {"new", "loop"} => cur >= 1
  /\ pc = "undo" => cur \in 0 .. NumSteps - 1

LEMMA TypesStep ==
  ASSUME TypeOK, WaitsWithRetriesLeft, InRange, [Next]_vars
  PROVE  TypeOK' /\ WaitsWithRetriesLeft' /\ InRange'
<1> USE NumStepsAssumption, UndoableAssumption, RetryCountAssumption, FaultsAssumption
        DEF TypeOK, WaitsWithRetriesLeft, InRange, Steps, stateVars, histVars
<1>c. ASSUME NEW f, NEW o \in Outcomes(f), Charge(Cost(o)) PROVE faults' \in 0 .. MaxFaults
  BY <1>c DEF Outcomes, Charge, Cost, MayFail
<1>s. ASSUME NEW o, Saved(o), status' \in SagaStatus, result' \in [Steps -> StepStatus]
      PROVE  record' \in Record \cup {NoRecord}
  BY <1>s DEF Saved, Recorded, Record
<1>1. CASE Begin
  BY <1>1, <1>c, <1>s DEF Begin, SagaStatus
<1>2. CASE Enter
  BY <1>2 DEF Enter, StepStatus
<1>3. CASE OutOfTime
  BY <1>3 DEF OutOfTime
<1>4. CASE ActOk
  BY <1>4 DEF ActOk, StepStatus
<1>5. CASE ActFails
  <2>1. faults' \in 0 .. MaxFaults /\ took' \subseteq Steps
    BY <1>5, <1>c DEF ActFails
  <2> QED BY <1>5, <2>1 DEF ActFails, StepStatus
<1>6. CASE RetryNow
  <2>1. attempt' \in 0 .. RetryCount
    BY <1>6 DEF RetryNow, NextAttempt
  <2> QED BY <1>6, <2>1 DEF RetryNow
<1>14. CASE RetryCancelled
  BY <1>14 DEF RetryCancelled, StepStatus
<1>7. CASE Succeed
  BY <1>7, <1>c, <1>s DEF Succeed, SagaStatus, Answer
<1>8. CASE TurnBack
  BY <1>8, <1>c, <1>s DEF TurnBack, SagaStatus
<1>9. CASE NothingToUndo
  BY <1>9 DEF NothingToUndo, Previous, StepStatus
<1>10. CASE Undo
  <2>1. faults' \in 0 .. MaxFaults /\ undone' \subseteq Undoable
    BY <1>10, <1>c DEF Undo
  <2> QED BY <1>10, <2>1 DEF Undo, Previous, StepStatus, UndoErrAfter
<1>11. CASE Finish
  BY <1>11, <1>c, <1>s DEF Finish, SagaStatus, Answer
<1>12. CASE ContextEnds \/ Crash
  <2>1. faults' \in 0 .. MaxFaults
    BY <1>12 DEF ContextEnds, Crash, MayFail, Charge
  <2>2. CASE ContextEnds
    BY <2>1, <2>2 DEF ContextEnds
  <2>3. CASE Crash
    BY <2>1, <2>3 DEF Crash
  <2> QED BY <1>12, <2>2, <2>3
<1>13. CASE UNCHANGED vars
  BY <1>13 DEF vars
<1> QED BY <1>1, <1>2, <1>3, <1>4, <1>5, <1>6, <1>7, <1>8, <1>9, <1>10, <1>11, <1>12, <1>13, <1>14
        DEF Next, Execute, Forward, Backward

Types == TypeOK /\ WaitsWithRetriesLeft /\ InRange

LEMMA TypesHold == Spec => []Types
<1>1. Init => Types
  <2> SUFFICES ASSUME Init PROVE Types
    OBVIOUS
  <2>1. cur = 1 /\ 1 \in 0 .. NumSteps + 1 /\ 0 \in 0 .. RetryCount /\ 0 \in 0 .. MaxFaults
    BY NumStepsAssumption, RetryCountAssumption, FaultsAssumption DEF Init
  <2>2. result \in [Steps -> StepStatus]
    BY DEF Init, StepStatus
  <2>3. TypeOK
    BY <2>1, <2>2 DEF Init, TypeOK, SagaStatus, Answer
  <2> QED BY <2>1, <2>3 DEF Init, Types, WaitsWithRetriesLeft, InRange
<1>2. Types /\ [Next]_vars => Types'
  BY TypesStep DEF Types
<1> QED BY <1>1, <1>2, PTL DEF Spec

THEOREM TypeCorrect == Spec => []TypeOK
<1>1. Types => TypeOK
  BY DEF Types
<1> QED BY <1>1, TypesHold, PTL

-----------------------------------------------------------------------------
(* Why the promise is kept: what the code knows about its steps (the        *)
(* results) is right about what happened, at every point of both loops.     *)
AtStart ==
  pc = "new" => /\ status = "pending" /\ took = {} /\ undone = {} /\ ~ undoErr
                /\ cur = 1
                /\ \A i \in Steps : result[i] = "pending"

(* Forward: the steps before cur are done, the later ones untouched.        *)
GoingForward ==
  pc \in {"loop", "act", "wait", "turn"} =>
    /\ status = "running" /\ undone = {} /\ ~ undoErr
    /\ \A i \in Steps : /\ i < cur => i \in took /\ result[i] = "completed"
                        /\ i > cur => i \notin took /\ result[i] = "pending"
    /\ pc = "loop" /\ cur \in Steps => cur \notin took /\ result[cur] = "pending"
    /\ pc \in {"act", "wait"} => result[cur] = "running"
    /\ pc = "turn" => \/ result[cur] = "failed"
                      \/ result[cur] = "pending" /\ cur \notin took

(* Settled(i): whatever i did is taken back, or i is the step that failed,   *)
(* or its compensation has failed.                                           *)
Settled(i) ==
  \/ i \notin took /\ result[i] = "pending"
  \/ result[i] = "failed"
  \/ result[i] = "compensated" /\ (i \in Undoable => i \in undone)
  \/ result[i] = "compensate_failed"

GoingBack ==
  pc = "undo" =>
    /\ status = "compensating"
    /\ \A i \in Steps : /\ i <= cur => i \in took /\ i \notin undone /\ result[i] = "completed"
                        /\ i > cur => Settled(i)
    /\ undoErr <=> \E i \in Steps : result[i] = "compensate_failed"

(* No final status is recorded before the saga returns.                     *)
RecordBehind ==
  pc # "returned" => /\ answer = "none"
                     /\ record.status \notin {"completed", "compensated"}

Course == AtStart /\ GoingForward /\ GoingBack /\ RecordBehind /\ RecordIsTruthful

LEMMA CourseInit == Init => Course
  BY DEF Init, Course, AtStart, GoingForward, GoingBack, RecordBehind, RecordIsTruthful, NoRecord

LEMMA SavedStatus ==
  ASSUME NEW o, Saved(o), status' \notin {"completed", "compensated"},
         record.status \notin {"completed", "compensated"}
  PROVE  record'.status \notin {"completed", "compensated"}
BY DEF Saved, Recorded

LEMMA CourseForward ==
  ASSUME Types, Course, Begin \/ Forward
  PROVE  Course'
<1> USE NumStepsAssumption DEF Types, TypeOK, InRange, Steps, Course, stateVars, histVars
<1>1. CASE Begin
  <2>1. record'.status \notin {"completed", "compensated"} /\ answer' = "none"
    BY <1>1, SavedStatus DEF Begin, RecordBehind
  <2>2. RecordIsTruthful' /\ RecordBehind'
    BY <1>1, <2>1 DEF RecordIsTruthful, RecordBehind, Begin
  <2> QED BY <1>1, <2>2 DEF Begin, AtStart, GoingForward, GoingBack
<1>2. ASSUME Forward PROVE RecordBehind' /\ RecordIsTruthful'
  <2>1. record' = record /\ answer' = "none" /\ pc # "returned" /\ pc' # "returned"
    BY <1>2 DEF Forward, Enter, OutOfTime, ActOk, ActFails, RetryNow, RetryCancelled, RecordBehind
  <2> QED BY <2>1 DEF RecordBehind, RecordIsTruthful
<1>3. ASSUME Forward PROVE AtStart' /\ GoingBack'
  BY <1>3 DEF Forward, Enter, OutOfTime, ActOk, ActFails, RetryNow, RetryCancelled, AtStart, GoingBack
<1>4. CASE Enter
  BY <1>2, <1>3, <1>4 DEF Forward, Enter, GoingForward
<1>5. CASE OutOfTime
  BY <1>2, <1>3, <1>5 DEF Forward, OutOfTime, GoingForward
<1>6. CASE ActOk
  BY <1>2, <1>3, <1>6 DEF Forward, ActOk, GoingForward
<1>7. CASE ActFails
  BY <1>2, <1>3, <1>7 DEF Forward, ActFails, GoingForward
<1>8. CASE RetryNow \/ RetryCancelled
  BY <1>2, <1>3, <1>8 DEF Forward, RetryNow, RetryCancelled, GoingForward
<1> QED BY <1>1, <1>4, <1>5, <1>6, <1>7, <1>8 DEF Forward

LEMMA CourseBack ==
  ASSUME Types, Course, Succeed \/ Backward
  PROVE  Course'
<1> USE NumStepsAssumption DEF Types, TypeOK, InRange, Steps, Course, stateVars, histVars
<1>1. CASE Succeed
  <2>0. \A i \in Steps : i < cur /\ i \in took
    BY <1>1 DEF Succeed, GoingForward
  <2>1. took = Steps /\ undone = {} /\ took' = took /\ undone' = undone /\ answer' = "nil"
    BY <1>1, <2>0 DEF Succeed, GoingForward
  <2>2. record'.status \in {record.status, "completed"}
    BY <1>1 DEF Succeed, Saved, Recorded
  <2>3. RecordIsTruthful'
    BY <1>1, <2>1, <2>2 DEF RecordIsTruthful, RecordBehind, Succeed
  <2> QED BY <1>1, <2>3 DEF Succeed, AtStart, GoingForward, GoingBack, RecordBehind
<1>2. CASE TurnBack
  <2>1. record'.status \notin {"completed", "compensated"} /\ answer' = "none"
    BY <1>2, SavedStatus DEF TurnBack, RecordBehind
  <2>2. RecordIsTruthful' /\ RecordBehind'
    BY <1>2, <2>1 DEF RecordIsTruthful, RecordBehind, TurnBack
  <2>3. \A i \in Steps : i > cur' => Settled(i)'
    BY <1>2 DEF TurnBack, GoingForward, Settled
  <2>4. undoErr' <=> \E i \in Steps : result'[i] = "compensate_failed"
    BY <1>2 DEF TurnBack, GoingForward
  <2>5. GoingBack'
    BY <1>2, <2>3, <2>4 DEF TurnBack, GoingForward, GoingBack
  <2> QED BY <1>2, <2>2, <2>5 DEF TurnBack, AtStart, GoingForward
<1>3. ASSUME NothingToUndo \/ Undo PROVE RecordBehind' /\ RecordIsTruthful'
  <2>1. record' = record /\ answer' = "none" /\ pc # "returned" /\ pc' # "returned"
    BY <1>3 DEF NothingToUndo, Undo, RecordBehind
  <2> QED BY <2>1 DEF RecordBehind, RecordIsTruthful
<1>4. CASE NothingToUndo
  <2>1. \A i \in Steps : i > cur' => Settled(i)'
    BY <1>4 DEF NothingToUndo, GoingBack, Settled, Previous
  <2>2. undoErr' <=> \E i \in Steps : result'[i] = "compensate_failed"
    BY <1>4 DEF NothingToUndo, GoingBack
  <2>3. GoingBack'
    BY <1>4, <2>1, <2>2 DEF NothingToUndo, GoingBack, Previous
  <2> QED BY <1>3, <1>4, <2>3 DEF NothingToUndo, AtStart, GoingForward
<1>5. CASE Undo
  <2> PICK outcome \in Outcomes("compensate") :
        /\ result' = [result EXCEPT ![cur] =
                        IF outcome = "ok" THEN "compensated" ELSE "compensate_failed"]
        /\ undoErr' = UndoErrAfter(outcome)
        /\ undone' = IF outcome = "error" THEN undone ELSE undone \cup {cur}
    BY <1>5 DEF Undo
  <2>1. \A i \in Steps : i > cur' => Settled(i)'
    BY <1>5 DEF Undo, GoingBack, Settled, Previous
  <2>2. undoErr' <=> \E i \in Steps : result'[i] = "compensate_failed"
    <3>1. cur \in Steps /\ result[cur] = "completed" /\ pc = "undo"
      BY <1>5, UndoableAssumption DEF Undo, GoingBack
    <3>2. undoErr <=> \E i \in Steps : result[i] = "compensate_failed"
      BY <3>1 DEF GoingBack
    <3>3. CASE outcome = "ok"
      <4>1. undoErr' = undoErr
        BY <3>3 DEF UndoErrAfter
      <4>2. \A i \in Steps : result'[i] = "compensate_failed" <=> result[i] = "compensate_failed"
        BY <3>1, <3>3
      <4> QED BY <3>2, <4>1, <4>2
    <3>4. CASE outcome # "ok"
      BY <3>1, <3>4 DEF UndoErrAfter
    <3> QED BY <3>3, <3>4
  <2>3. GoingBack'
    BY <1>5, <2>1, <2>2 DEF Undo, GoingBack, Previous
  <2> QED BY <1>3, <1>5, <2>3 DEF Undo, AtStart, GoingForward
<1>6. CASE Finish
  <2> PICK outcome \in Outcomes("save") :
        /\ status' = IF undoErr THEN "compensate_failed" ELSE "compensated"
        /\ Saved(outcome)
        /\ answer' = CASE undoErr /\ outcome = "ok"    -> "failedUndo"
                       [] undoErr /\ outcome # "ok"    -> "failedUndoUnsaved"
                       [] ~ undoErr /\ outcome = "ok"  -> "failed"
                       [] ~ undoErr /\ outcome # "ok"  -> "failedUnsaved"
    BY <1>6 DEF Finish
  <2>1. \A i \in took \cap Undoable : ~ undoErr => i \in undone \/ result[i] = "failed"
    <3> SUFFICES ASSUME NEW i \in took \cap Undoable, ~ undoErr
                 PROVE  i \in undone \/ result[i] = "failed"
      OBVIOUS
    <3>1. i \in Steps /\ i > cur /\ pc = "undo"
      BY <1>6 DEF Finish
    <3>2. Settled(i) /\ result[i] # "compensate_failed"
      BY <3>1 DEF GoingBack
    <3> QED BY <3>2 DEF Settled
  <2>2. record' = record \/ record' = [status |-> status', result |-> result]
    BY <1>6 DEF Finish, Saved, Recorded
  <2>3. outcome = "ok" => record' = [status |-> status', result |-> result']
    BY DEF Saved, Recorded
  <2>4. answer' \in {"failed", "failedUndo"} => outcome = "ok"
    BY UndoableAssumption
  <2>5. record'.status # "completed"
    BY <1>6, <2>2 DEF Finish, RecordBehind
  <2>6. record'.status = "compensated" => ~ undoErr /\ record'.result = result
    BY <1>6, <2>2 DEF Finish, RecordBehind
  <2>7. RecordIsTruthful'
    BY <1>6, <2>1, <2>3, <2>4, <2>5, <2>6 DEF RecordIsTruthful, Finish
  <2> QED BY <1>6, <2>7 DEF Finish, AtStart, GoingForward, GoingBack, RecordBehind
<1> QED BY <1>1, <1>2, <1>4, <1>5, <1>6 DEF Backward

LEMMA CourseHolds == Spec => []Course
<1>1. Types /\ Course /\ [Next]_vars => Course'
  <2> SUFFICES ASSUME Types, Course, [Next]_vars PROVE Course'
    OBVIOUS
  <2>1. CASE ContextEnds
    BY <2>1 DEF ContextEnds, Course, AtStart, GoingForward, GoingBack, RecordBehind,
                RecordIsTruthful, Settled, stateVars
  <2>2. CASE Crash
    BY <2>2 DEF Crash, Over, Course, AtStart, GoingForward, GoingBack, RecordBehind,
                RecordIsTruthful, stateVars
  <2>3. CASE UNCHANGED vars
    BY <2>3 DEF vars, Course, AtStart, GoingForward, GoingBack, RecordBehind,
                RecordIsTruthful, Settled, stateVars, histVars
  <2> QED BY CourseForward, CourseBack, <2>1, <2>2, <2>3 DEF Next, Execute
<1> QED BY CourseInit, TypesHold, <1>1, PTL DEF Spec

(* RecordIsTruthful: what the store says of a saga is right about its steps, *)
(* whichever saves were lost and wherever the process died.                  *)
THEOREM RecordIsTruthfulCorrect == Spec => []RecordIsTruthful
<1>1. Course => RecordIsTruthful
  BY DEF Course
<1> QED BY <1>1, CourseHolds, PTL

-----------------------------------------------------------------------------
(* The saga keeps the promise.                                               *)

stuckParts == {i \in Steps : result[i] = "compensate_failed"}

LEMMA StepKeepsPromise ==
  ASSUME Types, Types', Course, [Next]_vars
  PROVE  [Promise!AbstractNext]_(Promise!abstractVars)
<1> USE NumStepsAssumption, UndoableAssumption
    DEF Types, TypeOK, InRange, Steps, Course, stateVars, histVars
<1>1. CASE Begin
  BY <1>1 DEF Begin, AtStart, Culprits, Promise!abstractVars
<1>2. CASE ActOk
  <2>1. cur \in Steps /\ status = "running" /\ status' = status /\ undone = {} /\ undone' = {}
    BY <1>2 DEF ActOk, GoingForward
  <2>2. took' \ undone' = (took \ undone) \cup {cur}
    BY <1>2, <2>1 DEF ActOk
  <2>3. {i \in Steps : result'[i] = "compensate_failed"} = stuckParts
    BY <1>2, <2>1 DEF ActOk, GoingForward, stuckParts
  <2>4. Promise!Apply(cur)
    BY <2>1, <2>2, <2>3 DEF Promise!Apply, Culprits, stuckParts
  <2> QED BY <2>1, <2>4 DEF Promise!AbstractNext
<1>3. CASE ActFails
  <2>1. cur \in Steps /\ status = "running" /\ status' = status /\ undone = {} /\ undone' = {}
    BY <1>3 DEF ActFails, GoingForward
  <2>2. took' \ undone' = took \ undone \/ took' \ undone' = (took \ undone) \cup {cur}
    BY <1>3, <2>1 DEF ActFails
  <2>3. {i \in Steps : result'[i] = "compensate_failed"} = stuckParts
    BY <1>3, <2>1 DEF ActFails, GoingForward, stuckParts
  <2>4. Promise!Apply(cur) \/ UNCHANGED Promise!abstractVars
    BY <2>1, <2>2, <2>3 DEF Promise!Apply, Promise!abstractVars, Culprits, stuckParts
  <2> QED BY <2>1, <2>4 DEF Promise!AbstractNext
<1>4. CASE Enter \/ OutOfTime \/ RetryNow \/ RetryCancelled
  <2>1. status = "running" /\ status' = status /\ took' = took /\ undone' = undone
    BY <1>4 DEF Enter, OutOfTime, RetryNow, RetryCancelled, GoingForward
  <2>2. {i \in Steps : result'[i] = "compensate_failed"} = stuckParts
    BY <1>4 DEF Enter, OutOfTime, RetryNow, RetryCancelled, GoingForward, stuckParts
  <2> QED BY <2>1, <2>2 DEF Promise!abstractVars, Culprits, stuckParts
<1>5. CASE Succeed
  <2>0. pc = "loop" /\ \A i \in Steps : i < cur
    BY <1>5 DEF Succeed
  <2>1. \A i \in Steps : i \in took /\ result[i] = "completed"
    BY <2>0 DEF GoingForward
  <2>2. /\ took \ undone = Steps /\ took' = took /\ undone' = undone /\ result' = result
        /\ status = "running" /\ status' = "completed"
    BY <1>5, <2>1 DEF Succeed, GoingForward
  <2>3. {i \in Steps : result[i] = "failed"} = {}
    BY <2>1
  <2>4. Promise!Commit
    BY <2>2, <2>3 DEF Promise!Commit, Culprits
  <2> QED BY <2>4 DEF Promise!AbstractNext
<1>6. CASE TurnBack
  <2>1. /\ took' = took /\ undone' = undone /\ result' = result
        /\ status = "running" /\ status' = "compensating" /\ cur \in Steps
    BY <1>6 DEF TurnBack, GoingForward
  <2>2. \A i \in Steps : result[i] = "failed" => i = cur
    <3>1. pc = "turn" /\ cur \in Steps
      BY <1>6 DEF TurnBack
    <3>2. \A i \in Steps : (i < cur => result[i] = "completed") /\ (i > cur => result[i] = "pending")
      BY <3>1 DEF GoingForward
    <3>3. \A i \in Steps : i < cur \/ i > cur \/ i = cur
      BY <3>1
    <3> QED BY <3>2, <3>3
  <2>3. {i \in Steps : result[i] = "failed"} \in {{}} \cup {{p} : p \in Steps}
    <3>1. CASE result[cur] = "failed"
      BY <2>1, <2>2, <3>1
    <3>2. CASE result[cur] # "failed"
      BY <2>2, <3>2
    <3> QED BY <3>1, <3>2
  <2>4. Promise!TurnBack
    BY <2>1, <2>3 DEF Promise!TurnBack, Culprits
  <2> QED BY <2>4 DEF Promise!AbstractNext
<1>7. CASE NothingToUndo
  <2>1. /\ took' = took /\ undone' = undone /\ status = "compensating" /\ status' = status
        /\ cur \in Steps /\ result[cur] = "completed"
    BY <1>7 DEF NothingToUndo, GoingBack
  <2>2. /\ {i \in Steps : result'[i] = "compensate_failed"} = stuckParts
        /\ {i \in Steps : result'[i] = "failed"} = {i \in Steps : result[i] = "failed"}
    BY <1>7, <2>1 DEF NothingToUndo, stuckParts
  <2> QED BY <2>1, <2>2 DEF Promise!abstractVars, Culprits, stuckParts
<1>8. CASE Undo
  <2> PICK outcome \in Outcomes("compensate") :
        /\ result' = [result EXCEPT ![cur] =
                        IF outcome = "ok" THEN "compensated" ELSE "compensate_failed"]
        /\ undone' = IF outcome = "error" THEN undone ELSE undone \cup {cur}
    BY <1>8 DEF Undo
  <2>1. /\ took' = took /\ status = "compensating" /\ status' = status
        /\ cur \in Steps /\ cur \in Undoable /\ result[cur] = "completed"
    BY <1>8 DEF Undo, GoingBack
  <2>2. {i \in Steps : result'[i] = "failed"} = {i \in Steps : result[i] = "failed"}
    BY <2>1
  <2>3. CASE outcome = "ok"
    <3>1. {i \in Steps : result'[i] = "compensate_failed"} = stuckParts
      BY <2>1, <2>3 DEF stuckParts
    <3>2. took' \ undone' = (took \ undone) \ {cur}
      BY <2>1, <2>3
    <3>3. Promise!Revoke(cur)
      BY <2>1, <2>2, <3>1, <3>2 DEF Promise!Revoke, Culprits, stuckParts
    <3> QED BY <2>1, <3>3 DEF Promise!AbstractNext
  <2>4. CASE outcome # "ok"
    <3>1. {i \in Steps : result'[i] = "compensate_failed"} = stuckParts \cup {cur}
      BY <2>1, <2>4 DEF stuckParts
    <3>2. took' \ undone' \in {took \ undone, (took \ undone) \ {cur}}
      BY <2>1, <2>4
    <3>3. PICK p \in Undoable : p = cur
      BY <2>1
    <3>4. Promise!Resist(p)
      BY <2>1, <2>2, <3>1, <3>2, <3>3 DEF Promise!Resist, Culprits, stuckParts
    <3> QED BY <3>4 DEF Promise!AbstractNext
  <2> QED BY <2>3, <2>4
<1>9. CASE Finish
  <2>1. /\ took' = took /\ undone' = undone /\ result' = result /\ status = "compensating"
        /\ status' = IF undoErr THEN "compensate_failed" ELSE "compensated"
    BY <1>9 DEF Finish, GoingBack
  <2>2. undoErr <=> stuckParts # {}
    BY <1>9 DEF Finish, GoingBack, stuckParts
  <2>3. \A i \in Steps : Settled(i)
    <3>1. pc = "undo" /\ \A i \in Steps : i > cur
      BY <1>9 DEF Finish
    <3> QED BY <3>1 DEF GoingBack
  <2>4. (took \ undone) \cap Undoable \subseteq {i \in Steps : result[i] = "failed"} \cup stuckParts
    BY <2>3 DEF Settled, stuckParts
  <2>5. Promise!GiveUp
    <3>1. CASE undoErr
      BY <2>1, <2>2, <2>4, <3>1 DEF Promise!GiveUp, Culprits, stuckParts
    <3>2. CASE ~ undoErr
      BY <2>1, <2>2, <2>4, <3>2 DEF Promise!GiveUp, Culprits, stuckParts
    <3> QED BY <3>1, <3>2
  <2> QED BY <2>5 DEF Promise!AbstractNext
<1>10. CASE ContextEnds \/ Crash \/ UNCHANGED vars
  BY <1>10 DEF ContextEnds, Crash, vars, Culprits, Promise!abstractVars
<1> QED BY <1>1, <1>2, <1>3, <1>4, <1>5, <1>6, <1>7, <1>8, <1>9, <1>10
        DEF Next, Execute, Forward, Backward

(* KeepsPromise: the saga implements AllOrNothing, with every fault.          *)
THEOREM SagaKeepsPromise == Spec => KeepsPromise
<1>1. Init => Promise!AbstractInit
  BY DEF Init, Promise!AbstractInit, Culprits
<1>2. Types /\ Types' /\ Course /\ [Next]_vars => [Promise!AbstractNext]_(Promise!abstractVars)
  BY StepKeepsPromise
<1> QED BY <1>1, <1>2, TypesHold, CourseHolds, PTL DEF Spec, KeepsPromise, Promise!AbstractSpec

(* BackwardsOnly: no step is undone before the later ones, and none is taken *)
(* once one was undone.                                                      *)
THEOREM BackwardsOnlyCorrect == Spec => BackwardsOnly
<1>1. Types /\ Course /\ [Next]_vars =>
        [/\ \A i \in undone' \ undone :
              \A j \in Undoable : j > i /\ j \in took =>
                result[j] \in {"compensated", "compensate_failed", "failed"}
         /\ (took' # took => undone = {} /\ status = "running")]_vars
  <2> SUFFICES ASSUME Types, Course, [Next]_vars
               PROVE  /\ \A i \in undone' \ undone :
                           \A j \in Undoable : j > i /\ j \in took =>
                             result[j] \in {"compensated", "compensate_failed", "failed"}
                      /\ (took' # took => undone = {} /\ status = "running")
    OBVIOUS
  <2> USE UndoableAssumption DEF Types, TypeOK, Course, Steps, histVars
  <2>1. CASE Undo
    <3>1. took' = took /\ undone' \ undone \subseteq {cur} /\ pc = "undo"
      BY <2>1 DEF Undo
    <3>2. ASSUME NEW j \in Undoable, j > cur, j \in took
          PROVE  result[j] \in {"compensated", "compensate_failed", "failed"}
      BY <3>1, <3>2 DEF GoingBack, Settled
    <3> QED BY <3>1, <3>2
  <2>2. CASE ActOk \/ ActFails
    BY <2>2 DEF ActOk, ActFails, GoingForward
  <2>3. CASE ~ (Undo \/ ActOk \/ ActFails)
    BY <2>3 DEF Next, Execute, Forward, Backward, Begin, Enter, OutOfTime, RetryNow, RetryCancelled,
                Succeed, TurnBack, NothingToUndo, Finish, ContextEnds, Crash, vars
  <2> QED BY <2>1, <2>2, <2>3
<1> QED BY <1>1, TypesHold, CourseHolds, PTL DEF Spec, BackwardsOnly
=============================================================================
