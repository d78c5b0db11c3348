--------------------------- MODULE JobQueueProofs ---------------------------
(* Theorems about JobQueue, for any number of jobs, workers, retries, calls  *)
(* that fail and processes that die, in either store.                        *)
EXTENDS JobQueue, FiniteSetTheorems, TLAPS

USE JobsAssumption, NumbersAssumption

(* What the two stores share is the code of the worker: the steps that only  *)
(* redis has are never under way in the database, and whoever is busy is     *)
(* busy with a job.                                                          *)
ByStore ==
  store = "database" =>
    /\ \A j \in Jobs : client[j] # "set"
    /\ \A g \in Slots : phase[g] \notin {"marking", "failing", "burying", "requeuing"}

InHands ==
  /\ \A w \in Workers : loop[w] \in {"claim", "slot"} => fetched[w].id \in Jobs
  /\ \A g \in Slots : phase[g] # "free" => job[g].id \in Jobs

Shape == TypeOK /\ ByStore /\ InHands

LEMMA OutcomesAre ==
  ASSUME NEW cancel, NEW outcome \in Outcomes(cancel)
  PROVE  outcome \in {"ok", "error", "lost"} /\ (cancel => outcome # "ok")
BY DEF Outcomes

LEMMA ChargeType ==
  ASSUME faults \in 0 .. MaxFaults, NEW cancel, NEW outcome \in Outcomes(cancel),
         Charge(outcome, cancel)
  PROVE  faults' \in 0 .. MaxFaults
BY DEF Outcomes, Charge, MayFail

LEMMA ReadingIs ==
  /\ DOMAIN Reading = {"mark", "unhandled", "bury"}
  /\ Reading["mark"] = "marking" /\ Reading["unhandled"] = "failing" /\ Reading["bury"] = "burying"
BY DEF Reading

LEMMA AtIs ==
  ASSUME Shape, NEW g \in Slots, NEW p \in DOMAIN Reading, At(g, p)
  PROVE  /\ phase[g] = IF store = "redis" THEN Reading[p] ELSE p
         /\ phase[g] # "free" /\ job[g].id \in Jobs
BY ReadingIs DEF At, Shape, InHands, TypeOK

LEMMA CopyType == Nothing \in Copy /\ \A j \in Jobs, n \in Nat : [id |-> j, retried |-> n] \in Copy \ {Nothing}
BY DEF Nothing, Copy

LEMMA FreesType ==
  ASSUME Shape, NEW g \in Slots, Frees(g)
  PROVE  /\ phase' \in [Slots -> Phase] /\ job' \in [Slots -> Copy]
         /\ seen' \in [Slots -> Nat] /\ tries' \in [Slots -> 0 .. 2]
         /\ \A h \in Slots : /\ phase'[h] # "free" => h # g
                             /\ phase'[h] = IF h = g THEN "free" ELSE phase[h]
                             /\ job'[h] = IF h = g THEN Nothing ELSE job[h]
BY CopyType DEF Shape, TypeOK, Frees, Phase

LEMMA WritesAre ==
  ASSUME Shape, NEW g \in Slots, job[g].id \in Jobs,
         NEW s \in {"pending", "running"} \cup Settled, NEW r \in Nat,
         NEW outcome, Writes(g, s, r, outcome)
  PROVE  /\ status' \in [Jobs -> {"none", "pending", "running"} \cup Settled]
         /\ retried' \in [Jobs -> Nat]
         /\ \A k \in Jobs : k # job[g].id => status'[k] = status[k] /\ retried'[k] = retried[k]
         /\ \/ status'[job[g].id] = status[job[g].id] /\ retried'[job[g].id] = retried[job[g].id]
            \/ /\ outcome # "error" /\ status'[job[g].id] = s /\ retried'[job[g].id] = r
         /\ outcome # "error" /\ status[job[g].id] # "done"
              => status'[job[g].id] = s /\ retried'[job[g].id] = r
BY DEF Shape, TypeOK, Writes, Settled

LEMMA ReadValueType ==
  ASSUME Shape, NEW g \in Slots, job[g].id \in Jobs
  PROVE  ReadValue(g) \in Nat
BY DEF Shape, TypeOK, ReadValue

LEMMA ShapeInit == Init => Shape
BY CopyType DEF Init, Shape, TypeOK, ByStore, InHands, Nothing, LoopState, Phase

LEMMA ShapeStep ==
  ASSUME Shape, [Next]_vars
  PROVE  Shape'
<1> USE DEF Shape, TypeOK, ByStore, InHands, storeVars, loopVars, slotVars, endVars, histVars
<1>1. ASSUME NEW j \in Jobs, ClientStep(j) PROVE Shape'
  <2>1. CASE EnqueueRow(j)
    <3>1. PICK outcome \in Outcomes(FALSE) :
             /\ client' = [client EXCEPT ![j] = IF outcome = "ok" THEN "sent" ELSE "error"]
             /\ faults' \in 0 .. MaxFaults
      BY <2>1, ChargeType DEF EnqueueRow
    <3>2. /\ status' \in [Jobs -> {"none", "pending", "running"} \cup Settled]
          /\ retried' \in [Jobs -> Nat] /\ sends' \in [Jobs -> Nat]
      BY <2>1 DEF EnqueueRow, Sent
    <3> QED BY <2>1, <3>1, <3>2 DEF EnqueueRow
  <2>2. CASE EnqueueData(j)
    <3>1. PICK outcome \in Outcomes(FALSE) :
             /\ client' = [client EXCEPT ![j] = IF outcome = "ok" THEN "set" ELSE "error"]
             /\ faults' \in 0 .. MaxFaults
      BY <2>2, ChargeType DEF EnqueueData
    <3>2. /\ status' \in [Jobs -> {"none", "pending", "running"} \cup Settled]
          /\ retried' \in [Jobs -> Nat] /\ sends' \in [Jobs -> Nat]
      BY <2>2 DEF EnqueueData, Sent
    <3> QED BY <2>2, <3>1, <3>2 DEF EnqueueData
  <2>3. CASE EnqueueId(j)
    <3>1. faults' \in 0 .. MaxFaults
      BY <2>3, ChargeType DEF EnqueueId
    <3> QED BY <2>3, <3>1 DEF EnqueueId
  <2> QED BY <1>1, <2>1, <2>2, <2>3 DEF ClientStep
<1>2. ASSUME NEW w \in Workers, Register(w) \/ Start(w) \/ Close(w) \/ Cancel(w)
      PROVE  Shape'
  BY <1>2 DEF Register, Start, Close, Cancel, LoopMoves, LoopState
<1>3. ASSUME NEW w \in Workers, Crash(w) PROVE Shape'
  BY <1>3, CopyType DEF Crash, HoldsNothing, MayFail, LoopState, Phase
<1>4. ASSUME NEW w \in Workers, LoopStep(w) PROVE Shape'
  <2> USE DEF LoopMoves, LoopState, Holds, HoldsNothing
  <2>1. CASE Check(w)
    BY <2>1 DEF Check
  <2>8. CASE PollEnds(w)
    BY <2>8 DEF PollEnds
  <2>9. CASE Return(w)
    BY <2>9 DEF Return
  <2>2. CASE FetchNothing(w)
    <3>1. faults' \in 0 .. MaxFaults
      BY <2>2, ChargeType DEF FetchNothing
    <3> QED BY <2>2, <3>1 DEF FetchNothing
  <2>3. CASE SelectRow(w)
    BY <2>3, CopyType DEF SelectRow
  <2>4. CASE ClaimRow(w)
    <3>1. faults' \in 0 .. MaxFaults
      BY <2>4, ChargeType DEF ClaimRow
    <3>2. fetched[w].id \in Jobs /\ fetched[w].retried \in Nat
      BY <2>4 DEF ClaimRow, Copy
    <3>3. status' \in [Jobs -> {"none", "pending", "running"} \cup Settled]
      BY <2>4, <3>2 DEF ClaimRow
    <3>4. undone' \in [Jobs -> Nat]
      BY <2>4, <3>2 DEF ClaimRow, Behind
    <3>5. \/ LoopMoves(w, "claim", "slot") /\ UNCHANGED fetched
          \/ LoopMoves(w, "claim", "poll") /\ HoldsNothing(w)
      BY <2>4 DEF ClaimRow
    <3> QED BY <2>4, <3>1, <3>3, <3>4, <3>5, CopyType DEF ClaimRow
  <2>5. CASE PopId(w)
    <3>1. faults' \in 0 .. MaxFaults
      BY <2>5, ChargeType DEF PopId
    <3>2. PICK j \in zset : /\ zset' = zset \ {j}
                           /\ \/ LoopMoves(w, "fetch", "claim") /\ Holds(w, j)
                              \/ LoopMoves(w, "fetch", "poll") /\ UNCHANGED fetched
      BY <2>5 DEF PopId
    <3>3. /\ store = "redis" /\ zset \subseteq Jobs
          /\ UNCHANGED <<store, status, retried, client, slotVars, endVars, sends, attempts, undone>>
      BY <2>5 DEF PopId
    <3>4. CASE LoopMoves(w, "fetch", "claim") /\ Holds(w, j)
      BY <3>1, <3>2, <3>3, <3>4, CopyType
    <3>5. CASE LoopMoves(w, "fetch", "poll") /\ UNCHANGED fetched
      BY <3>1, <3>2, <3>3, <3>5
    <3> QED BY <3>2, <3>4, <3>5
  <2>6. CASE ReadData(w)
    <3>1. faults' \in 0 .. MaxFaults
      BY <2>6, ChargeType DEF ReadData
    <3>2. fetched[w].id \in Jobs
      BY <2>6 DEF ReadData
    <3>3. \/ LoopMoves(w, "claim", "slot") /\ Holds(w, fetched[w].id)
          \/ LoopMoves(w, "claim", "poll") /\ HoldsNothing(w)
      BY <2>6 DEF ReadData
    <3> QED BY <2>6, <3>1, <3>2, <3>3, CopyType DEF ReadData
  <2>7. CASE Dispatch(w)
    BY <2>7, CopyType DEF Dispatch, Spawns, Phase
  <2> QED BY <1>4, <2>1, <2>2, <2>3, <2>4, <2>5, <2>6, <2>7, <2>8, <2>9 DEF LoopStep
<1>5. ASSUME NEW g \in Slots, JobStep(g) PROVE Shape'
  <2> USE DEF Phase, GoesOn, Ends, Charged, Settled
  <2>0. phase[g] # "free" => job[g].id \in Jobs
    OBVIOUS
  <2>1. CASE ReadBack(g)
    <3>1. faults' \in 0 .. MaxFaults
      BY <2>1, ChargeType DEF ReadBack
    <3>2. phase[g] \in {"mark", "unhandled", "bury"} /\ store = "redis"
      BY <2>1, ReadingIs DEF ReadBack
    <3>3. \/ Frees(g)
          \/ /\ phase' = [phase EXCEPT ![g] = Reading[phase[g]]]
             /\ seen' = [seen EXCEPT ![g] = retried[job[g].id]]
             /\ UNCHANGED <<job, tries>>
      BY <2>1 DEF ReadBack
    <3>4. Reading[phase[g]] \in {"marking", "failing", "burying"}
      BY <3>2, ReadingIs
    <3> QED BY <2>0, <2>1, <3>1, <3>2, <3>3, <3>4, FreesType DEF ReadBack
  <2>2. CASE MarkRunning(g)
    <3>1. PICK outcome \in Ends(g) : Charged(g, outcome) /\ Writes(g, "running", ReadValue(g), outcome)
      BY <2>2 DEF MarkRunning
    <3>2. phase[g] # "free" /\ job[g].id \in Jobs
      BY <2>2, AtIs, ReadingIs DEF MarkRunning
    <3>3. \/ Frees(g) \/ GoesOn(g, "unhandled") \/ GoesOn(g, "run")
      BY <2>2 DEF MarkRunning
    <3>4. attempts' \in [Jobs -> Nat]
      BY <2>2, <3>2 DEF MarkRunning
    <3>5. status' \in [Jobs -> {"none", "pending", "running"} \cup Settled] /\ retried' \in [Jobs -> Nat]
      BY <3>1, <3>2, WritesAre, ReadValueType
    <3>6. faults' \in 0 .. MaxFaults
      BY <3>1, ChargeType
    <3> QED BY <2>2, <3>1, <3>2, <3>3, <3>4, <3>5, <3>6, FreesType DEF MarkRunning
  <2>3. CASE MarkFailed(g)
    <3>1. PICK outcome \in Ends(g) : Charged(g, outcome) /\ Writes(g, "failed", ReadValue(g), outcome)
      BY <2>3 DEF MarkFailed
    <3>2. phase[g] # "free" /\ job[g].id \in Jobs
      BY <2>3, AtIs, ReadingIs DEF MarkFailed
    <3>3. status' \in [Jobs -> {"none", "pending", "running"} \cup Settled] /\ retried' \in [Jobs -> Nat]
      BY <3>1, <3>2, WritesAre, ReadValueType
    <3>6. faults' \in 0 .. MaxFaults
      BY <3>1, ChargeType
    <3> QED BY <2>3, <3>1, <3>2, <3>3, <3>6, FreesType DEF MarkFailed
  <2>4. CASE Succeeds(g)
    BY <2>4 DEF Succeeds
  <2>5. CASE HandlerFails(g)
    BY <2>5, CopyType DEF HandlerFails, Copy, Nothing
  <2>6. CASE MarkDead(g)
    <3>1. PICK outcome \in Ends(g) : Charged(g, outcome) /\ Writes(g, "dead", ReadValue(g), outcome)
      BY <2>6 DEF MarkDead
    <3>2. phase[g] # "free" /\ job[g].id \in Jobs
      BY <2>6, AtIs, ReadingIs DEF MarkDead
    <3>3. status' \in [Jobs -> {"none", "pending", "running"} \cup Settled] /\ retried' \in [Jobs -> Nat]
      BY <3>1, <3>2, WritesAre, ReadValueType
    <3>6. faults' \in 0 .. MaxFaults
      BY <3>1, ChargeType
    <3> QED BY <2>6, <3>1, <3>2, <3>3, <3>6, FreesType DEF MarkDead
  <2>7. CASE Requeue(g)
    <3>1. PICK outcome \in Ends(g) : /\ Charged(g, outcome)
                                    /\ Writes(g, "pending", job[g].retried, outcome)
                                    /\ IF store = "redis" /\ outcome = "ok"
                                         THEN GoesOn(g, "requeuing") ELSE Frees(g)
      BY <2>7 DEF Requeue
    <3>2. job[g].id \in Jobs /\ job[g].retried \in Nat
      BY <2>7 DEF Requeue, Copy
    <3>3. status' \in [Jobs -> {"none", "pending", "running"} \cup Settled] /\ retried' \in [Jobs -> Nat]
      BY <3>1, <3>2, WritesAre
    <3>6. faults' \in 0 .. MaxFaults
      BY <3>1, ChargeType
    <3> QED BY <2>7, <3>1, <3>2, <3>3, <3>6, FreesType DEF Requeue
  <2>8. CASE RequeueId(g)
    <3>1. faults' \in 0 .. MaxFaults
      BY <2>8, ChargeType DEF RequeueId
    <3> QED BY <2>0, <2>8, <3>1, FreesType DEF RequeueId, Requeued
  <2>9. CASE MarkDone(g)
    <3>1. faults' \in 0 .. MaxFaults
      BY <2>9, ChargeType DEF MarkDone
    <3>2. status' \in [Jobs -> {"none", "pending", "running"} \cup Settled]
      BY <2>9 DEF MarkDone
    <3>3. \/ Frees(g)
          \/ tries' = [tries EXCEPT ![g] = @ + 1] /\ UNCHANGED <<phase, job, seen>> /\ tries[g] # 2
      BY <2>9 DEF MarkDone, LastTry
    <3> QED BY <2>9, <3>1, <3>2, <3>3, FreesType DEF MarkDone
  <2> QED BY <1>5, <2>1, <2>2, <2>3, <2>4, <2>5, <2>6, <2>7, <2>8, <2>9 DEF JobStep
<1>6. CASE UNCHANGED vars
  BY <1>6 DEF vars
<1> QED BY <1>1, <1>2, <1>3, <1>4, <1>5, <1>6 DEF Next

(* TypeOK.                                                                   *)
THEOREM TypeCorrect == Spec => []TypeOK
<1>1. Shape => TypeOK
  BY DEF Shape
<1> QED BY <1>1, ShapeInit, ShapeStep, PTL DEF Spec

-----------------------------------------------------------------------------
(* Tokens.  What an Enqueue that took effect brings into the queue is in one *)
(* place: on its way there, on offer in it, taken by a loop, or run by a     *)
(* goroutine.                                                                *)

Takers(j)  == {w \in Workers : fetched[w].id = j /\ (store = "redis" \/ loop[w] = "slot")}
Runners(j) == {g \in Slots : job[g].id = j}
One(b)     == IF b THEN 1 ELSE 0

TokensOf(j) ==
  Cardinality(Takers(j)) + Cardinality(Runners(j)) + One(Waiting(j)) + One(client[j] = "set")

Tokens == \A j \in Jobs : TokensOf(j) <= sends[j]

LEMMA SlotsFinite == IsFiniteSet(Slots)
<1>1. IsFiniteSet(1 .. Concurrency)
  BY FS_Interval
<1> QED BY <1>1, WorkersAssumption, FS_Product DEF Slots

LEMMA HandsFinite ==
  ASSUME NEW j
  PROVE  /\ IsFiniteSet(Takers(j)) /\ IsFiniteSet(Runners(j))
         /\ Cardinality(Takers(j)) \in Nat /\ Cardinality(Runners(j)) \in Nat
<1>1. Takers(j) \subseteq Workers /\ Runners(j) \subseteq Slots
  BY DEF Takers, Runners
<1> QED BY <1>1, SlotsFinite, WorkersAssumption, FS_Subset, FS_CardinalityType

LEMMA Fewer ==
  ASSUME NEW S, IsFiniteSet(S), NEW T, T \subseteq S
  PROVE  Cardinality(T) \in Nat /\ Cardinality(S) \in Nat /\ Cardinality(T) <= Cardinality(S)
BY FS_Subset, FS_CardinalityType

LEMMA OneFewer ==
  ASSUME NEW S, IsFiniteSet(S), NEW x \in S, NEW T, T \subseteq S \ {x}
  PROVE  Cardinality(T) \in Nat /\ Cardinality(S) \in Nat /\ Cardinality(T) + 1 <= Cardinality(S)
<1>1. IsFiniteSet(S \ {x}) /\ Cardinality(S \ {x}) = Cardinality(S) - 1
  BY FS_RemoveElement
<1> QED BY <1>1, FS_Subset, FS_CardinalityType

LEMMA OneMore ==
  ASSUME NEW S, IsFiniteSet(S), NEW x, NEW T, T \subseteq S \cup {x}
  PROVE  Cardinality(T) \in Nat /\ Cardinality(S) \in Nat /\ Cardinality(T) <= Cardinality(S) + 1
<1>1. IsFiniteSet(S \cup {x}) /\ Cardinality(S \cup {x}) <= Cardinality(S) + 1
  BY FS_AddElement, FS_CardinalityType
<1> QED BY <1>1, FS_Subset, FS_CardinalityType

LEMMA AtMostOne ==
  ASSUME NEW S, IsFiniteSet(S), Cardinality(S) <= 1
  PROVE  \A x, y \in S : x = y
<1> SUFFICES ASSUME NEW x \in S, NEW y \in S, x # y PROVE FALSE
  OBVIOUS
<1>1. Cardinality({y}) + 1 <= Cardinality(S)
  BY OneFewer
<1>2. Cardinality({y}) = 1
  BY FS_Singleton
<1> QED BY <1>1, <1>2, FS_CardinalityType

LEMMA NoneIn ==
  ASSUME NEW S, IsFiniteSet(S), Cardinality(S) <= 0
  PROVE  S = {}
BY FS_EmptySet, FS_CardinalityType

LEMMA OneIs == One(TRUE) = 1 /\ One(FALSE) = 0 /\ \A b \in BOOLEAN : One(b) \in 0 .. 1
BY DEF One

(* A step that leaves the hands alone, or only empties some.                 *)
LEMMA TokensKept ==
  ASSUME Shape, Shape', NEW k \in Jobs, TokensOf(k) <= sends[k],
         Takers(k)' \subseteq Takers(k), Runners(k)' \subseteq Runners(k),
         One(Waiting(k))' + One(client[k] = "set")' + sends[k]
           <= One(Waiting(k)) + One(client[k] = "set") + sends'[k]
  PROVE  TokensOf(k)' <= sends'[k]
<1>1. Cardinality(Takers(k)') <= Cardinality(Takers(k)) /\ Cardinality(Runners(k)') <= Cardinality(Runners(k))
  BY HandsFinite, Fewer
<1>2. /\ Cardinality(Takers(k)') \in Nat /\ Cardinality(Runners(k)') \in Nat
      /\ Cardinality(Takers(k)) \in Nat /\ Cardinality(Runners(k)) \in Nat
  BY HandsFinite, Fewer
<1>3. sends[k] \in Nat /\ sends'[k] \in Nat
  BY DEF Shape, TypeOK
<1>4. /\ One(Waiting(k))' \in Nat /\ One(client[k] = "set")' \in Nat
      /\ One(Waiting(k)) \in Nat /\ One(client[k] = "set") \in Nat
  BY DEF One
<1> QED BY <1>1, <1>2, <1>3, <1>4 DEF TokensOf

LEMMA TokensInit == Init => Tokens
<1> SUFFICES ASSUME Init, NEW j \in Jobs PROVE TokensOf(j) <= sends[j]
  BY DEF Tokens
<1>1. Takers(j) = {} /\ Runners(j) = {}
  BY DEF Init, Takers, Runners, Nothing
<1>2. One(Waiting(j)) = 0 /\ One(client[j] = "set") = 0 /\ sends[j] = 0
  BY DEF Init, Waiting, One
<1> QED BY <1>1, <1>2, FS_EmptySet DEF TokensOf

LEMMA TokensStep ==
  ASSUME Shape, Shape', Tokens, [Next]_vars
  PROVE  Tokens'
<1> SUFFICES ASSUME NEW k \in Jobs PROVE TokensOf(k)' <= sends'[k]
  BY DEF Tokens
<1>0. TokensOf(k) <= sends[k]
  BY DEF Tokens
<1> USE DEF Shape, TypeOK, ByStore, storeVars, loopVars, slotVars, endVars, histVars
<1>1. ASSUME NEW j \in Jobs, ClientStep(j) PROVE TokensOf(k)' <= sends'[k]
  <2>0. UNCHANGED <<store, loop, fetched, job>>
    BY <1>1 DEF ClientStep, EnqueueRow, EnqueueData, EnqueueId
  <2>1. Takers(k)' = Takers(k) /\ Runners(k)' = Runners(k)
    BY <2>0 DEF Takers, Runners
  <2>2. One(Waiting(k))' + One(client[k] = "set")' + sends[k]
          <= One(Waiting(k)) + One(client[k] = "set") + sends'[k]
    <3>1. CASE EnqueueRow(j)
      BY <3>1 DEF EnqueueRow, Sent, Waiting, One
    <3>2. CASE EnqueueData(j)
      BY <3>2 DEF EnqueueData, Sent, Waiting, One
    <3>3. CASE EnqueueId(j)
      BY <3>3 DEF EnqueueId, Waiting, One
    <3> QED BY <1>1, <3>1, <3>2, <3>3 DEF ClientStep
  <2> QED BY <1>0, <2>1, <2>2, TokensKept
<1>2. ASSUME UNCHANGED <<storeVars, client, sends>>,
             Takers(k)' \subseteq Takers(k), Runners(k)' \subseteq Runners(k)
      PROVE  TokensOf(k)' <= sends'[k]
  <2>1. One(Waiting(k))' + One(client[k] = "set")' + sends[k]
          <= One(Waiting(k)) + One(client[k] = "set") + sends'[k]
    BY <1>2 DEF Waiting, One
  <2> QED BY <1>0, <1>2, <2>1, TokensKept
<1>3. ASSUME NEW w \in Workers, Register(w) \/ Start(w) \/ Close(w) \/ Cancel(w)
      PROVE  TokensOf(k)' <= sends'[k]
  BY <1>2, <1>3 DEF Register, Start, Close, Cancel, LoopMoves, Takers, Runners
<1>4. ASSUME NEW w \in Workers, Crash(w) PROVE TokensOf(k)' <= sends'[k]
  BY <1>2, <1>4 DEF Crash, HoldsNothing, Takers, Runners, Nothing
<1>5. ASSUME NEW w \in Workers, LoopStep(w) PROVE TokensOf(k)' <= sends'[k]
  <2> USE DEF LoopMoves, Takers, Runners, Nothing
  <2>1. CASE Check(w) \/ FetchNothing(w) \/ PollEnds(w) \/ Return(w)
    BY <1>2, <2>1 DEF Check, FetchNothing, PollEnds, Return
  <2>2. CASE SelectRow(w)
    BY <1>2, <2>2 DEF SelectRow, Holds
  <2>3. CASE ReadData(w)
    BY <1>2, <2>3 DEF ReadData, Holds, HoldsNothing
  <2>4. ASSUME Takers(k)' \subseteq Takers(k) \cup {w}, Runners(k)' = Runners(k),
               Waiting(k), ~ Waiting(k)', UNCHANGED <<client, sends>>
        PROVE  TokensOf(k)' <= sends'[k]
    <3> HIDE DEF Takers, Runners
    <3>1. Cardinality(Takers(k)') <= Cardinality(Takers(k)) + 1 /\ Cardinality(Takers(k)') \in Nat
      BY <2>4, HandsFinite, OneMore
    <3>2. One(Waiting(k)) = 1 /\ One(Waiting(k))' = 0 /\ One(client[k] = "set")' = One(client[k] = "set")
      BY <2>4 DEF One
    <3>3. One(client[k] = "set") \in Nat
      BY DEF One
    <3>4. /\ Cardinality(Runners(k)') = Cardinality(Runners(k)) /\ Cardinality(Runners(k)) \in Nat
          /\ Cardinality(Takers(k)) \in Nat /\ sends'[k] = sends[k] /\ sends[k] \in Nat
      BY <2>4, HandsFinite
    <3> QED BY <1>0, <3>1, <3>2, <3>3, <3>4 DEF TokensOf
  <2>5. CASE ClaimRow(w)
    <3>1. CASE Takers(k)' \subseteq Takers(k)
      <4>1. One(Waiting(k))' <= One(Waiting(k))
        BY <2>5 DEF ClaimRow, Claimable, Waiting, One
      <4>2. client' = client /\ sends' = sends /\ Runners(k)' = Runners(k)
        BY <2>5 DEF ClaimRow
      <4>3. One(Waiting(k))' \in Nat /\ One(Waiting(k)) \in Nat /\ One(client[k] = "set") \in Nat
        BY DEF One
      <4> HIDE DEF Takers, Runners
      <4>4. One(client[k] = "set")' = One(client[k] = "set") /\ sends'[k] = sends[k] /\ sends[k] \in Nat
        BY <4>2
      <4>5. One(Waiting(k))' + One(client[k] = "set")' + sends[k]
              <= One(Waiting(k)) + One(client[k] = "set") + sends'[k]
        BY <4>1, <4>3, <4>4
      <4> QED BY <1>0, <3>1, <4>2, <4>5, TokensKept
    <3>2. CASE ~ (Takers(k)' \subseteq Takers(k))
      <4>1. fetched[w].id = k /\ Claimable(k) /\ status' = [status EXCEPT ![k] = "running"]
        <5>1. \/ LoopMoves(w, "claim", "poll") /\ HoldsNothing(w)
              \/ /\ Claimable(fetched[w].id) /\ UNCHANGED fetched /\ LoopMoves(w, "claim", "slot")
                 /\ status' = [status EXCEPT ![fetched[w].id] = "running"]
          BY <2>5 DEF ClaimRow
        <5>2. store = "database" /\ store' = store
          BY <2>5 DEF ClaimRow
        <5> QED BY <3>2, <5>1, <5>2 DEF HoldsNothing
      <4>2. Waiting(k) /\ ~ Waiting(k)'
        BY <2>5, <4>1 DEF ClaimRow, Claimable, Waiting
      <4>3. Takers(k)' \subseteq Takers(k) \cup {w} /\ Runners(k)' = Runners(k) /\ UNCHANGED <<client, sends>>
        BY <2>5 DEF ClaimRow, HoldsNothing
      <4> QED BY <2>4, <4>2, <4>3
    <3> QED BY <3>1, <3>2
  <2>6. CASE PopId(w)
    <3>1. PICK j \in zset : /\ zset' = zset \ {j}
                           /\ \/ LoopMoves(w, "fetch", "claim") /\ Holds(w, j)
                              \/ LoopMoves(w, "fetch", "poll") /\ UNCHANGED fetched
      BY <2>6 DEF PopId
    <3>2. store = "redis" /\ UNCHANGED <<store, client, job, sends>>
      BY <2>6 DEF PopId
    <3>3. CASE k = j
      <4>1. Waiting(k) /\ ~ Waiting(k)'
        BY <3>1, <3>2, <3>3 DEF Waiting
      <4>2. Takers(k)' \subseteq Takers(k) \cup {w} /\ Runners(k)' = Runners(k)
        BY <3>1, <3>2 DEF Holds
      <4> QED BY <2>4, <3>2, <4>1, <4>2
    <3>4. CASE k # j
      <4>1. Waiting(k)' = Waiting(k)
        BY <3>1, <3>2, <3>4 DEF Waiting
      <4>2. Takers(k)' \subseteq Takers(k) /\ Runners(k)' = Runners(k)
        BY <3>1, <3>2, <3>4 DEF Holds
      <4>3. One(Waiting(k))' + One(client[k] = "set")' + sends[k]
              <= One(Waiting(k)) + One(client[k] = "set") + sends'[k]
        BY <3>2, <4>1 DEF One
      <4> QED BY <1>0, <4>2, <4>3, TokensKept
    <3> QED BY <3>3, <3>4
  <2>7. CASE Dispatch(w)
    <3>1. PICK g \in Slots : /\ phase[g] = "free"
                            /\ job' = [job EXCEPT ![g] = fetched[w]]
      BY <2>7 DEF Dispatch, Spawns
    <3>2. UNCHANGED <<storeVars, client, sends>>
      BY <2>7 DEF Dispatch
    <3>3. CASE fetched[w].id = k
      <4>1. Takers(k)' \subseteq Takers(k) \ {w} /\ w \in Takers(k)
        BY <2>7, <3>3 DEF Dispatch, HoldsNothing
      <4>2. Runners(k)' \subseteq Runners(k) \cup {g}
        BY <3>1
      <4>3. One(Waiting(k))' = One(Waiting(k)) /\ One(client[k] = "set")' = One(client[k] = "set")
        BY <3>2 DEF Waiting, One
      <4>4. One(Waiting(k)) \in Nat /\ One(client[k] = "set") \in Nat
        BY DEF One
      <4> HIDE DEF Takers, Runners
      <4>5. Cardinality(Takers(k)') + 1 <= Cardinality(Takers(k)) /\ Cardinality(Takers(k)') \in Nat
        BY <4>1, HandsFinite, OneFewer
      <4>6. Cardinality(Runners(k)') <= Cardinality(Runners(k)) + 1 /\ Cardinality(Runners(k)') \in Nat
        BY <4>2, HandsFinite, OneMore
      <4> QED BY <1>0, <3>2, <4>3, <4>4, <4>5, <4>6, HandsFinite DEF TokensOf
    <3>4. CASE fetched[w].id # k
      BY <1>2, <2>7, <3>1, <3>2, <3>4 DEF Dispatch, HoldsNothing
    <3> QED BY <3>3, <3>4
  <2> QED BY <1>5, <2>1, <2>2, <2>3, <2>5, <2>6, <2>7 DEF LoopStep
<1>6. ASSUME NEW g \in Slots, JobStep(g) PROVE TokensOf(k)' <= sends'[k]
  <2>1. /\ UNCHANGED <<store, client, loopVars, sends>> /\ Takers(k)' = Takers(k)
        /\ One(client[k] = "set")' = One(client[k] = "set") /\ One(client[k] = "set") \in Nat
        /\ One(Waiting(k)) \in 0 .. 1 /\ One(Waiting(k))' \in 0 .. 1
    BY <1>6 DEF JobStep, ReadBack, MarkRunning, MarkFailed, Succeeds, HandlerFails, MarkDead,
                Requeue, RequeueId, MarkDone, Takers, One
  <2>2. Runners(k)' \subseteq Runners(k)
    BY <1>6, FreesType DEF JobStep, ReadBack, MarkRunning, MarkFailed, Succeeds, HandlerFails, MarkDead,
                Requeue, RequeueId, MarkDone, Runners, GoesOn, Nothing
  <2>3. CASE ~ Waiting(k)' \/ Waiting(k)
    <3>1. One(Waiting(k))' <= One(Waiting(k))
      BY <2>3 DEF One
    <3> QED BY <1>0, <2>1, <2>2, <3>1, TokensKept
  <2>4. CASE Waiting(k)' /\ ~ Waiting(k)
    <3>1. job[g].id = k /\ Frees(g)
      <4>1. CASE Requeue(g)
        BY <2>4, <4>1 DEF Requeue, Writes, Waiting
      <4>2. CASE RequeueId(g)
        BY <2>4, <4>2 DEF RequeueId, Requeued, Waiting
      <4>3. CASE ReadBack(g) \/ Succeeds(g) \/ HandlerFails(g)
        BY <2>4, <4>3 DEF ReadBack, Succeeds, HandlerFails, Waiting
      <4>4. CASE MarkRunning(g) \/ MarkFailed(g) \/ MarkDead(g)
        BY <2>4, <4>4 DEF MarkRunning, MarkFailed, MarkDead, Writes, Waiting
      <4>5. CASE MarkDone(g)
        BY <2>4, <4>5 DEF MarkDone, Waiting
      <4> QED BY <1>6, <4>1, <4>2, <4>3, <4>4, <4>5 DEF JobStep
    <3>2. Runners(k)' \subseteq Runners(k) \ {g} /\ g \in Runners(k)
      BY <3>1, FreesType DEF Runners, Nothing
    <3>3. Cardinality(Runners(k)') + 1 <= Cardinality(Runners(k)) /\ Cardinality(Runners(k)') \in Nat
      BY <3>2, HandsFinite, OneFewer
    <3>4. One(Waiting(k)) = 0 /\ One(Waiting(k))' = 1
      BY <2>4 DEF One
    <3> QED BY <1>0, <2>1, <3>3, <3>4, HandsFinite DEF TokensOf
  <2> QED BY <2>3, <2>4
<1>7. CASE UNCHANGED vars
  BY <1>2, <1>7 DEF vars, Takers, Runners
<1> QED BY <1>1, <1>3, <1>4, <1>5, <1>6, <1>7 DEF Next

(* What one token means: it is in one place only.                            *)
LEMMA Alone ==
  ASSUME Shape, Tokens, NEW j \in Jobs, sends[j] <= 1
  PROVE  /\ Takers(j) # {} => ~ Waiting(j) /\ client[j] # "set" /\ Runners(j) = {}
         /\ Runners(j) # {} => ~ Waiting(j) /\ client[j] # "set" /\ Takers(j) = {}
         /\ client[j] = "set" => ~ Waiting(j) /\ Takers(j) = {} /\ Runners(j) = {}
         /\ Waiting(j) => client[j] # "set" /\ Takers(j) = {} /\ Runners(j) = {}
         /\ sends[j] = 0 => ~ Waiting(j) /\ client[j] # "set" /\ Takers(j) = {} /\ Runners(j) = {}
         /\ \A v, w \in Takers(j) : v = w
         /\ \A g, h \in Runners(j) : g = h
<1>1. /\ Cardinality(Takers(j)) \in Nat /\ Cardinality(Runners(j)) \in Nat
      /\ IsFiniteSet(Takers(j)) /\ IsFiniteSet(Runners(j))
  BY HandsFinite
<1>2. Cardinality(Takers(j)) + Cardinality(Runners(j)) + One(Waiting(j)) + One(client[j] = "set") <= sends[j]
  BY DEF Tokens, TokensOf
<1>3. sends[j] \in Nat
  BY DEF Shape, TypeOK
<1>4. /\ One(Waiting(j)) = IF Waiting(j) THEN 1 ELSE 0
      /\ One(client[j] = "set") = IF client[j] = "set" THEN 1 ELSE 0
  BY DEF One
<1>5. /\ Takers(j) # {} => Cardinality(Takers(j)) >= 1
      /\ Runners(j) # {} => Cardinality(Runners(j)) >= 1
  BY <1>1, NoneIn
<1>6. Cardinality(Takers(j)) <= 1 /\ Cardinality(Runners(j)) <= 1
  BY <1>1, <1>2, <1>3, <1>4
<1>7. /\ \A v, w \in Takers(j) : v = w
      /\ \A g, h \in Runners(j) : g = h
  BY <1>1, <1>6, AtMostOne
<1> QED BY <1>1, <1>2, <1>3, <1>4, <1>5, <1>7

(* SoleOwner: a job is in as many hands, at most, as Enqueues took effect.   *)
LEMMA SoleOwnerHolds ==
  ASSUME Shape, Tokens
  PROVE  SoleOwner
<1> SUFFICES ASSUME NEW j \in Jobs PROVE Cardinality(Owners(j)) <= sends[j]
  BY DEF SoleOwner
<1>1. Owners(j) = Takers(j) \cup Runners(j)
  BY DEF Owners, Takers, Runners
<1>2. Cardinality(Owners(j)) <= Cardinality(Takers(j)) + Cardinality(Runners(j)) /\ Cardinality(Owners(j)) \in Nat
  <2> HIDE DEF Takers, Runners
  <2>1. IsFiniteSet(Takers(j) \cap Runners(j))
    BY HandsFinite, FS_Intersection
  <2>2. Cardinality(Takers(j) \cap Runners(j)) \in Nat
    BY <2>1, FS_CardinalityType
  <2>3. /\ IsFiniteSet(Owners(j))
        /\ Cardinality(Owners(j)) = Cardinality(Takers(j)) + Cardinality(Runners(j))
                                      - Cardinality(Takers(j) \cap Runners(j))
    BY <1>1, HandsFinite, FS_Union
  <2> QED BY <2>2, <2>3, HandsFinite, FS_CardinalityType
<1>3. One(Waiting(j)) \in Nat /\ One(client[j] = "set") \in Nat /\ sends[j] \in Nat
  BY DEF One, Shape, TypeOK
<1> QED BY <1>2, <1>3, HandsFinite DEF Tokens, TokensOf

-----------------------------------------------------------------------------
(* What a step leaves alone.                                                 *)

(* A step of goroutine g changes nothing but g and its job.                  *)
LEMMA JobFrame ==
  ASSUME Shape, NEW g \in Slots, JobStep(g)
  PROVE  /\ UNCHANGED <<store, client, loop, fetched, handlers, closed, cancelled, sends, undone>>
         /\ phase[g] # "free" /\ job[g].id \in Jobs
         /\ \A k \in Jobs : k # job[g].id =>
              /\ status'[k] = status[k] /\ retried'[k] = retried[k] /\ attempts'[k] = attempts[k]
              /\ k \in zset' <=> k \in zset
         /\ \A h \in Slots : h # g => phase'[h] = phase[h] /\ job'[h] = job[h]
         /\ job'[g].id \in {NoJob, job[g].id}
<1> USE DEF Shape, TypeOK, InHands, GoesOn, loopVars, endVars, storeVars, histVars
<1>0. phase[g] # "free" => job[g].id \in Jobs
  OBVIOUS
<1>1. CASE ReadBack(g)
  <2>1. phase[g] # "free"
    BY <1>1, ReadingIs DEF ReadBack
  <2> QED BY <1>0, <1>1, <2>1, FreesType DEF ReadBack, Nothing
<1>2. CASE MarkRunning(g)
  <2>1. phase[g] # "free" /\ job[g].id \in Jobs
    BY <1>2, AtIs, ReadingIs DEF MarkRunning
  <2>2. PICK outcome \in Ends(g) : Writes(g, "running", ReadValue(g), outcome)
    BY <1>2 DEF MarkRunning
  <2>3. \A k \in Jobs : k # job[g].id => status'[k] = status[k] /\ retried'[k] = retried[k]
    BY <2>1, <2>2, WritesAre, ReadValueType
  <2> QED BY <1>2, <2>1, <2>3, FreesType DEF MarkRunning, Nothing
<1>3. CASE MarkFailed(g)
  <2>1. phase[g] # "free" /\ job[g].id \in Jobs
    BY <1>3, AtIs, ReadingIs DEF MarkFailed
  <2>2. PICK outcome \in Ends(g) : Writes(g, "failed", ReadValue(g), outcome)
    BY <1>3 DEF MarkFailed
  <2>3. \A k \in Jobs : k # job[g].id => status'[k] = status[k] /\ retried'[k] = retried[k]
    BY <2>1, <2>2, WritesAre, ReadValueType DEF Settled
  <2> QED BY <1>3, <2>1, <2>3, FreesType DEF MarkFailed, Nothing
<1>4. CASE MarkDead(g)
  <2>1. phase[g] # "free" /\ job[g].id \in Jobs
    BY <1>4, AtIs, ReadingIs DEF MarkDead
  <2>2. PICK outcome \in Ends(g) : Writes(g, "dead", ReadValue(g), outcome)
    BY <1>4 DEF MarkDead
  <2>3. \A k \in Jobs : k # job[g].id => status'[k] = status[k] /\ retried'[k] = retried[k]
    BY <2>1, <2>2, WritesAre, ReadValueType DEF Settled
  <2> QED BY <1>4, <2>1, <2>3, FreesType DEF MarkDead, Nothing
<1>5. CASE Requeue(g)
  <2>1. phase[g] # "free" /\ job[g].id \in Jobs /\ job[g].retried \in Nat
    BY <1>0, <1>5 DEF Requeue, Copy
  <2>2. PICK outcome \in Ends(g) : Writes(g, "pending", job[g].retried, outcome)
    BY <1>5 DEF Requeue
  <2>3. \A k \in Jobs : k # job[g].id => status'[k] = status[k] /\ retried'[k] = retried[k]
    BY <2>1, <2>2, WritesAre
  <2> QED BY <1>5, <2>1, <2>3, FreesType DEF Requeue, Nothing
<1>6. CASE Succeeds(g)
  BY <1>0, <1>6 DEF Succeeds
<1>7. CASE HandlerFails(g)
  BY <1>0, <1>7 DEF HandlerFails
<1>8. CASE RequeueId(g)
  BY <1>0, <1>8, FreesType DEF RequeueId, Requeued, Nothing
<1>9. CASE MarkDone(g)
  BY <1>0, <1>9, FreesType DEF MarkDone, Nothing
<1> QED BY <1>1, <1>2, <1>3, <1>4, <1>5, <1>6, <1>7, <1>8, <1>9 DEF JobStep

(* A step of a loop changes nothing but the loop, a goroutine it starts and  *)
(* the job it takes.                                                         *)
LEMMA LoopFrame ==
  ASSUME Shape, NEW w \in Workers, LoopStep(w)
  PROVE  /\ UNCHANGED <<store, retried, client, handlers, closed, cancelled, sends, attempts>>
         /\ \A v \in Workers : v # w => loop'[v] = loop[v] /\ fetched'[v] = fetched[v]
         /\ \A k \in Jobs : k # fetched[w].id => status'[k] = status[k] /\ undone'[k] = undone[k]
         /\ \A k \in Jobs : k \in zset' => k \in zset
         /\ \A k \in Jobs : status[k] # "pending" => status'[k] = status[k] /\ undone'[k] = undone[k]
         /\ \A k \in Jobs : status'[k] \in {status[k], "running"}
<1> USE DEF Shape, TypeOK, LoopMoves, Holds, HoldsNothing, slotVars, endVars, storeVars, histVars
<1>1. CASE Check(w) \/ FetchNothing(w) \/ PollEnds(w) \/ Return(w)
  BY <1>1 DEF Check, FetchNothing, PollEnds, Return
<1>2. CASE SelectRow(w)
  BY <1>2 DEF SelectRow
<1>3. CASE ClaimRow(w)
  BY <1>3 DEF ClaimRow, Claimable
<1>4. CASE PopId(w)
  BY <1>4 DEF PopId
<1>5. CASE ReadData(w)
  BY <1>5 DEF ReadData
<1>6. CASE Dispatch(w)
  BY <1>6 DEF Dispatch
<1> QED BY <1>1, <1>2, <1>3, <1>4, <1>5, <1>6 DEF LoopStep

-----------------------------------------------------------------------------
(* A job nobody has enqueued yet.                                            *)

Untouched(j) ==
  /\ status[j] = "none" /\ retried[j] = 0 /\ attempts[j] = 0 /\ undone[j] = 0
  /\ \A w \in Workers : fetched[w].id # j

Unsent == \A j \in Jobs : sends[j] = 0 => Untouched(j)

LEMMA SendsGrow ==
  ASSUME Shape, [Next]_vars, NEW k \in Jobs
  PROVE  sends'[k] >= sends[k] /\ (sends'[k] = sends[k] \/ \E j \in Jobs : ClientStep(j))
<1> USE DEF Shape, TypeOK, histVars
<1>1. ASSUME NEW j \in Jobs, ClientStep(j) PROVE sends'[k] >= sends[k]
  <2>1. sends' = sends \/ sends' = [sends EXCEPT ![j] = @ + 1]
    BY <1>1 DEF ClientStep, EnqueueRow, EnqueueData, EnqueueId, Sent
  <2> QED BY <2>1
<1>2. ASSUME NEW w \in Workers, LoopStep(w) PROVE sends' = sends
  BY <1>2, LoopFrame
<1>3. ASSUME NEW g \in Slots, JobStep(g) PROVE sends' = sends
  BY <1>3, JobFrame
<1>4. ASSUME NEW w \in Workers, Register(w) \/ Start(w) \/ Close(w) \/ Cancel(w) \/ Crash(w)
      PROVE  sends' = sends
  BY <1>4 DEF Register, Start, Close, Cancel, Crash
<1>5. CASE UNCHANGED vars
  BY <1>5 DEF vars
<1> QED BY <1>1, <1>2, <1>3, <1>4, <1>5 DEF Next

(* The loop gets hold of a job that is on offer.                             *)
LEMMA Takes ==
  ASSUME Shape, NEW w \in Workers, LoopStep(w), NEW k \in Jobs,
         fetched'[w].id = k, fetched[w].id # k
  PROVE  /\ Waiting(k)
         /\ \/ SelectRow(w) /\ Holds(w, k)
            \/ PopId(w) /\ Holds(w, k) /\ k \notin zset' /\ loop'[w] = "claim"
<1> USE DEF Shape, TypeOK, LoopMoves, Holds, HoldsNothing, Nothing, slotVars, endVars, storeVars, histVars
<1>1. ~ (Check(w) \/ FetchNothing(w) \/ PollEnds(w) \/ Return(w) \/ ClaimRow(w) \/ Dispatch(w))
  BY DEF Check, FetchNothing, PollEnds, Return, ClaimRow, Dispatch
<1>2. ~ ReadData(w)
  BY DEF ReadData
<1>3. CASE SelectRow(w)
  <2>1. PICK j \in Jobs : Waiting(j) /\ Holds(w, j)
    BY <1>3 DEF SelectRow
  <2>2. j = k
    BY <2>1
  <2> QED BY <1>3, <2>1, <2>2
<1>4. CASE PopId(w)
  BY <1>4 DEF PopId, Waiting
<1> QED BY <1>1, <1>2, <1>3, <1>4 DEF LoopStep

LEMMA UnsentStep ==
  ASSUME Shape, Tokens, Unsent, [Next]_vars
  PROVE  Unsent'
<1> SUFFICES ASSUME NEW k \in Jobs, sends'[k] = 0 PROVE Untouched(k)'
  BY DEF Unsent
<1>0. sends[k] = 0 /\ Untouched(k) /\ ~ Waiting(k) /\ Takers(k) = {} /\ Runners(k) = {}
  BY SendsGrow, Alone DEF Unsent, Shape, TypeOK
<1> USE DEF Untouched
<1>1. ASSUME NEW j \in Jobs, ClientStep(j) PROVE Untouched(k)'
  <2> USE DEF Shape, TypeOK, loopVars, histVars, storeVars
  <2>1. CASE EnqueueRow(j)
    BY <1>0, <2>1 DEF EnqueueRow, Sent
  <2>2. CASE EnqueueData(j)
    BY <1>0, <2>2 DEF EnqueueData, Sent
  <2>3. CASE EnqueueId(j)
    BY <1>0, <2>3 DEF EnqueueId
  <2> QED BY <1>1, <2>1, <2>2, <2>3 DEF ClientStep
<1>2. ASSUME NEW w \in Workers, LoopStep(w) PROVE Untouched(k)'
  BY <1>0, <1>2, LoopFrame, Takes
<1>3. ASSUME NEW g \in Slots, JobStep(g) PROVE Untouched(k)'
  <2>1. job[g].id # k
    BY <1>0 DEF Runners
  <2> QED BY <1>0, <1>3, <2>1, JobFrame
<1>4. ASSUME NEW w \in Workers, Register(w) \/ Start(w) \/ Close(w) \/ Cancel(w) \/ Crash(w)
      PROVE  Untouched(k)'
  BY <1>0, <1>4 DEF Register, Start, Close, Cancel, Crash, HoldsNothing, Nothing, loopVars, histVars,
                    storeVars, Shape, TypeOK
<1>5. CASE UNCHANGED vars
  BY <1>0, <1>5 DEF vars, loopVars, histVars, storeVars
<1> QED BY <1>1, <1>2, <1>3, <1>4, <1>5 DEF Next

-----------------------------------------------------------------------------
(* What a job enqueued once has been through.                                *)

(* A counter that may still be raised, and agrees with the calls but for     *)
(* what was taken off it.                                                    *)
Room(r)      == r = 0 \/ r < MaxRetries
Square(j, r) == Room(r) /\ r <= attempts[j] /\ attempts[j] <= r + undone[j]

(* ... in the store,                                                         *)
StoredFits(j) == Waiting(j) \/ client[j] = "set" => Square(j, retried[j])

(* ... in the hands of a loop; a row that was selected and not claimed is no *)
(* more than a copy,                                                         *)
FetchedFits(j) ==
  \A w \in Workers : fetched[w].id = j =>
    /\ store = "redis" /\ loop[w] = "claim" => Square(j, retried[j])
    /\ loop[w] = "slot" => Square(j, fetched[w].retried)
    /\ store = "database" /\ loop[w] = "claim" =>
         Room(fetched[w].retried) /\ fetched[w].retried <= attempts[j]

(* ... and in a goroutine, before, during and after the call.                *)
RunFits(j) ==
  \A g \in Slots : job[g].id = j =>
    /\ phase[g] \in {"mark", "marking", "requeue"} => Square(j, job[g].retried)
    /\ phase[g] = "requeuing" => Square(j, retried[j])
    /\ phase[g] = "run" => /\ Room(job[g].retried) /\ job[g].retried + 1 <= attempts[j]
                           /\ attempts[j] <= job[g].retried + 1 + undone[j]
    /\ phase[g] \in {"bury", "burying"} => attempts[j] >= Budget

EndFits(j) ==
  /\ attempts[j] <= Budget + undone[j]
  /\ status[j] = "dead" => attempts[j] >= Budget

Fits(j) == StoredFits(j) /\ FetchedFits(j) /\ RunFits(j) /\ EndFits(j)

Counted == \A j \in Jobs : sends[j] = 1 => Fits(j)

(* A step that leaves the job alone.                                         *)
LEMMA FitsKept ==
  ASSUME NEW k \in Jobs, Fits(k), store' = store,
         status'[k] = status[k], retried'[k] = retried[k],
         attempts'[k] = attempts[k], undone'[k] = undone[k],
         (Waiting(k) \/ client[k] = "set")' => Waiting(k) \/ client[k] = "set",
         \A w \in Workers : fetched'[w].id = k => fetched'[w] = fetched[w] /\ loop'[w] = loop[w],
         \A g \in Slots : job'[g].id = k => job'[g] = job[g] /\ phase'[g] = phase[g]
  PROVE  Fits(k)'
<1>1. StoredFits(k)' /\ EndFits(k)'
  BY DEF Fits, StoredFits, EndFits, Square, Room, Budget
<1>2. FetchedFits(k)'
  BY DEF Fits, FetchedFits, Square, Room
<1>3. RunFits(k)'
  BY DEF Fits, RunFits, Square, Room, Budget
<1> QED BY <1>1, <1>2, <1>3 DEF Fits

LEMMA CountedStep ==
  ASSUME Shape, Shape', Tokens, Unsent, Counted, [Next]_vars
  PROVE  Counted'
<1> SUFFICES ASSUME NEW k \in Jobs, sends'[k] = 1 PROVE Fits(k)'
  BY DEF Counted
<1> USE DEF Shape, TypeOK
<1>1. CASE sends[k] # 1
  <2>1. PICK j \in Jobs : ClientStep(j)
    BY <1>1, SendsGrow
  <2>2. sends[k] = 0
    BY <1>1, SendsGrow
  <2>3. Untouched(k) /\ Takers(k) = {} /\ Runners(k) = {}
    BY <2>2, Alone DEF Unsent
  <2>4. EnqueueRow(k) \/ EnqueueData(k)
    <3>1. sends'[k] # sends[k]
      BY <2>2
    <3>4. sends' = sends \/ sends' = [sends EXCEPT ![j] = @ + 1]
      BY <2>1 DEF ClientStep, EnqueueRow, EnqueueData, EnqueueId, Sent
    <3>2. j = k
      BY <3>1, <3>4
    <3>3. ~ EnqueueId(j)
      BY <3>1 DEF EnqueueId
    <3> QED BY <2>1, <3>2, <3>3 DEF ClientStep
  <2>5. /\ UNCHANGED <<fetched, job, attempts, undone>>
        /\ retried'[k] = 0 /\ status'[k] = "pending"
    <3>1. CASE EnqueueRow(k)
      BY <2>2, <3>1 DEF EnqueueRow, loopVars, slotVars
    <3>2. CASE EnqueueData(k)
      BY <2>2, <3>2 DEF EnqueueData, loopVars, slotVars
    <3> QED BY <2>4, <3>1, <3>2
  <2>6. Room(0)
    BY DEF Room
  <2>7. StoredFits(k)' /\ EndFits(k)'
    BY <2>3, <2>5, <2>6 DEF Untouched, StoredFits, EndFits, Square, Budget
  <2>8. FetchedFits(k)' /\ RunFits(k)'
    BY <2>3, <2>5 DEF Untouched, FetchedFits, RunFits, Runners
  <2> QED BY <2>7, <2>8 DEF Fits
<1>2. CASE sends[k] = 1
  <2>0. Fits(k)
    BY <1>2 DEF Counted
  <2>1. ASSUME NEW j \in Jobs, ClientStep(j) PROVE Fits(k)'
    <3>1. UNCHANGED <<store, fetched, loop, job, phase, attempts, undone>>
      BY <2>1 DEF ClientStep, EnqueueRow, EnqueueData, EnqueueId, loopVars, slotVars
    <3>2. /\ status'[k] = status[k] /\ retried'[k] = retried[k]
          /\ (Waiting(k) \/ client[k] = "set")' => Waiting(k) \/ client[k] = "set"
      <4>1. CASE EnqueueRow(j)
        BY <1>2, <4>1 DEF EnqueueRow, Sent, Waiting
      <4>2. CASE EnqueueData(j)
        BY <1>2, <4>2 DEF EnqueueData, Sent, Waiting
      <4>3. CASE EnqueueId(j)
        BY <4>3 DEF EnqueueId, Waiting
      <4> QED BY <2>1, <4>1, <4>2, <4>3 DEF ClientStep
    <3> QED BY <2>0, <3>1, <3>2, FitsKept
  <2>2. ASSUME NEW w \in Workers, Register(w) \/ Start(w) \/ Close(w) \/ Cancel(w) PROVE Fits(k)'
    <3>1. /\ UNCHANGED <<storeVars, client, fetched, job, phase, attempts, undone>>
          /\ \A v \in Workers : fetched[v].id = k => loop'[v] = loop[v]
      BY <2>2 DEF Register, Start, Close, Cancel, LoopMoves, loopVars, slotVars, histVars, Nothing
    <3> QED BY <2>0, <3>1, FitsKept DEF storeVars, Waiting
  <2>3. ASSUME NEW w \in Workers, Crash(w) PROVE Fits(k)'
    <3>1. /\ UNCHANGED <<storeVars, client, attempts, undone>>
          /\ \A v \in Workers : fetched'[v].id = k => loop'[v] = loop[v] /\ fetched'[v] = fetched[v]
          /\ \A g \in Slots : job'[g].id = k => job'[g] = job[g] /\ phase'[g] = phase[g]
      BY <2>3 DEF Crash, HoldsNothing, Nothing
    <3> QED BY <2>0, <3>1, FitsKept DEF storeVars, Waiting
  <2>4. ASSUME NEW w \in Workers, LoopStep(w) PROVE Fits(k)'
    <3> USE DEF LoopMoves, Holds, HoldsNothing, Nothing
    <3>1. CASE fetched[w].id # k /\ fetched'[w].id # k
      <4>1. \A g \in Slots : job'[g].id = k => job'[g] = job[g] /\ phase'[g] = phase[g]
        BY <2>4, <3>1 DEF LoopStep, Check, FetchNothing, PollEnds, Return, SelectRow, ClaimRow, PopId,
                          ReadData, Dispatch, Spawns, slotVars
      <4> QED BY <2>0, <2>4, <3>1, <4>1, LoopFrame, FitsKept DEF Waiting
    <3>2. CASE fetched[w].id # k /\ fetched'[w].id = k
      <4>1. Square(k, retried[k]) /\ Holds(w, k) /\ Takers(k) = {} /\ Runners(k) = {}
        BY <1>2, <2>0, <2>4, <3>2, Takes, Alone DEF Fits, StoredFits
      <4>2. UNCHANGED <<store, status, retried, client, job, phase, attempts, undone>>
        BY <2>4, <3>2, Takes DEF SelectRow, PopId, storeVars, slotVars, histVars
      <4>3. loop'[w] = "claim" /\ fetched'[w].retried = retried[k]
        BY <2>4, <3>2, Takes DEF SelectRow
      <4>4. \A v \in Workers : v # w => loop'[v] = loop[v] /\ fetched'[v] = fetched[v]
        BY <2>4, LoopFrame
      <4>5. FetchedFits(k)'
        BY <2>0, <4>1, <4>2, <4>3, <4>4 DEF Fits, FetchedFits, Square, Room
      <4>6. RunFits(k)'
        BY <4>1, <4>2 DEF RunFits, Runners
      <4>7. StoredFits(k)' /\ EndFits(k)'
        BY <2>0, <4>1, <4>2 DEF Fits, StoredFits, EndFits, Square, Room, Budget
      <4> QED BY <4>5, <4>6, <4>7 DEF Fits
    <3>3. CASE fetched[w].id = k
      <4>1. CASE ClaimRow(w)
        <5>1. /\ store = "database" /\ loop[w] = "claim"
              /\ UNCHANGED <<store, retried, client, job, phase, attempts>>
          BY <4>1 DEF ClaimRow, slotVars
        <5>2. \A v \in Workers : v # w => loop'[v] = loop[v] /\ fetched'[v] = fetched[v]
          BY <2>4, LoopFrame
        <5>3. fetched[w].retried \in Nat /\ Room(fetched[w].retried) /\ fetched[w].retried <= attempts[k]
          BY <2>0, <3>3, <5>1 DEF Fits, FetchedFits, Copy
        <5>4. CASE /\ Claimable(k) /\ loop'[w] = "slot" /\ fetched' = fetched
                   /\ undone' = [undone EXCEPT ![k] = @ + Behind(fetched[w].retried, retried[k])]
                   /\ status'[k] = "running"
          <6>1. Square(k, retried[k]) /\ Takers(k) = {} /\ Runners(k) = {}
            BY <1>2, <2>0, <5>1, <5>4, Alone DEF Claimable, Waiting, Fits, StoredFits
          <6>2. /\ undone'[k] >= undone[k]
                /\ attempts[k] <= fetched[w].retried + undone'[k]
            BY <5>3, <5>4, <6>1 DEF Behind, Square
          <6>3. FetchedFits(k)'
            <7> SUFFICES ASSUME NEW v \in Workers, fetched[v].id = k
                         PROVE  /\ loop'[v] # "slot" \/ v = w
                                /\ loop'[v] = "claim" => Room(fetched[v].retried) /\ fetched[v].retried <= attempts[k]
                                /\ loop'[v] = "slot" => Square(k, fetched[v].retried)'
              BY <5>1, <5>4 DEF FetchedFits, Room
            <7>1. v # w => loop[v] # "slot" /\ loop'[v] = loop[v]
              BY <5>2, <6>1 DEF Takers
            <7> QED BY <2>0, <5>1, <5>3, <5>4, <6>2, <7>1 DEF Fits, FetchedFits, Square, Room
          <6>4. RunFits(k)'
            BY <5>1, <6>1 DEF RunFits, Runners
          <6>5. StoredFits(k)' /\ EndFits(k)'
            BY <2>0, <5>1, <5>4, <6>1, <6>2
            DEF Fits, StoredFits, EndFits, Square, Room, Budget, Waiting, Claimable
          <6> QED BY <6>3, <6>4, <6>5 DEF Fits
        <5>5. CASE HoldsNothing(w) /\ undone' = undone
          <6>1. Waiting(k)' => Waiting(k)
            BY <2>4, <5>1, LoopFrame DEF Waiting
          <6>2. status'[k] = "dead" => status[k] = "dead"
            BY <2>4, LoopFrame
          <6>3. FetchedFits(k)'
            BY <2>0, <5>1, <5>2, <5>5 DEF Fits, FetchedFits, Square, Room
          <6>4. RunFits(k)'
            BY <2>0, <5>1, <5>5 DEF Fits, RunFits, Square, Room, Budget
          <6>5. StoredFits(k)' /\ EndFits(k)'
            BY <2>0, <5>1, <5>5, <6>1, <6>2 DEF Fits, StoredFits, EndFits, Square, Room, Budget
          <6> QED BY <6>3, <6>4, <6>5 DEF Fits
        <5> QED BY <3>3, <4>1, <5>4, <5>5 DEF ClaimRow
      <4>2. CASE ReadData(w)
        <5>1. /\ store = "redis" /\ loop[w] = "claim"
              /\ UNCHANGED <<storeVars, client, job, phase, attempts, undone>>
          BY <4>2 DEF ReadData, slotVars
        <5>2. \A v \in Workers : v # w => loop'[v] = loop[v] /\ fetched'[v] = fetched[v]
          BY <2>4, LoopFrame
        <5>3. Square(k, retried[k])
          BY <2>0, <3>3, <5>1 DEF Fits, FetchedFits
        <5>4. \/ loop'[w] = "slot" /\ fetched'[w].retried = retried[k]
              \/ fetched'[w] = Nothing
          BY <3>3, <4>2 DEF ReadData
        <5>5. FetchedFits(k)'
          BY <2>0, <5>1, <5>2, <5>3, <5>4 DEF Fits, FetchedFits, Square, Room, storeVars
        <5>6. RunFits(k)'
          BY <2>0, <5>1 DEF Fits, RunFits, Square, Room, Budget, storeVars
        <5>7. StoredFits(k)' /\ EndFits(k)'
          BY <2>0, <5>1 DEF Fits, StoredFits, EndFits, Square, Room, Budget, Waiting, storeVars
        <5> QED BY <5>5, <5>6, <5>7 DEF Fits
      <4>3. CASE Dispatch(w)
        <5>1. /\ loop[w] = "slot" /\ loop'[w] = "check"
              /\ UNCHANGED <<storeVars, client, attempts, undone>>
          BY <4>3 DEF Dispatch, histVars
        <5>2. \A v \in Workers : v # w => loop'[v] = loop[v] /\ fetched'[v] = fetched[v]
          BY <2>4, LoopFrame
        <5>3. Square(k, fetched[w].retried) /\ Runners(k) = {}
          <6>1. w \in Takers(k)
            BY <3>3, <5>1 DEF Takers
          <6> QED BY <1>2, <2>0, <3>3, <5>1, <6>1, Alone DEF Fits, FetchedFits
        <5>4. PICK g \in Slots : /\ phase' = [phase EXCEPT ![g] = "mark"]
                                /\ job' = [job EXCEPT ![g] = fetched[w]]
          BY <4>3 DEF Dispatch, Spawns
        <5>5. \A h \in Slots : job'[h].id = k => h = g
          BY <5>3, <5>4 DEF Runners
        <5>6. RunFits(k)'
          BY <5>1, <5>3, <5>4, <5>5 DEF RunFits, Square, Room, storeVars
        <5>7. FetchedFits(k)'
          BY <2>0, <5>1, <5>2 DEF Fits, FetchedFits, Square, Room, storeVars
        <5>8. StoredFits(k)' /\ EndFits(k)'
          BY <2>0, <5>1 DEF Fits, StoredFits, EndFits, Square, Room, Budget, Waiting, storeVars
        <5> QED BY <5>6, <5>7, <5>8 DEF Fits
      <4>4. loop[w] \in {"claim", "slot"}
        BY <3>3
      <4> QED BY <2>4, <4>1, <4>2, <4>3, <4>4 DEF LoopStep, Check, FetchNothing, PollEnds, Return,
                                                  SelectRow, PopId
    <3> QED BY <3>1, <3>2, <3>3
  <2>5. ASSUME NEW g \in Slots, JobStep(g) PROVE Fits(k)'
    <3>1. CASE job[g].id # k
      <4>1. \A h \in Slots : job'[h].id = k => job'[h] = job[h] /\ phase'[h] = phase[h]
        BY <2>5, <3>1, JobFrame
      <4> QED BY <2>0, <2>5, <3>1, <4>1, JobFrame, FitsKept DEF Waiting
    <3>2. CASE job[g].id = k
      <4>1. g \in Runners(k)
        BY <3>2 DEF Runners
      <4>2. /\ ~ Waiting(k) /\ client[k] # "set" /\ Takers(k) = {}
            /\ \A h \in Slots : job[h].id = k => h = g
        BY <1>2, <4>1, Alone DEF Runners
      <4>3. UNCHANGED <<store, client, loop, fetched, undone>>
        BY <2>5, JobFrame
      <4>4. \A h \in Slots : job'[h].id = k => h = g
        BY <2>5, <4>2, JobFrame
      <4>5. ASSUME attempts'[k] >= attempts[k] PROVE FetchedFits(k)'
        <5>1. \A w \in Workers : fetched[w].id = k => store = "database" /\ loop[w] # "slot"
          BY <4>2 DEF Takers
        <5>2. attempts[k] \in Nat /\ attempts'[k] \in Nat /\ \A w \in Workers : fetched[w].retried \in Nat
          BY DEF Copy
        <5> QED BY <2>0, <4>3, <4>5, <5>1, <5>2 DEF Fits, FetchedFits, Room
      <4>6. ASSUME Frees(g) PROVE RunFits(k)'
        BY <4>4, <4>6, FreesType DEF RunFits, Nothing
      <4>7. ASSUME ~ Waiting(k)' PROVE StoredFits(k)'
        BY <4>2, <4>3, <4>7 DEF StoredFits
      <4>8. /\ job[g].retried \in Nat /\ attempts[k] \in Nat /\ undone[k] \in Nat /\ retried[k] \in Nat
            /\ Budget = IF MaxRetries = 0 THEN 1 ELSE MaxRetries
        BY DEF Copy, Budget
      <4>9. /\ phase[g] \in {"mark", "marking", "requeue"} => Square(k, job[g].retried)
            /\ phase[g] = "requeuing" => Square(k, retried[k])
            /\ phase[g] = "run" => /\ Room(job[g].retried) /\ job[g].retried + 1 <= attempts[k]
                                   /\ attempts[k] <= job[g].retried + 1 + undone[k]
            /\ phase[g] \in {"bury", "burying"} => attempts[k] >= Budget
            /\ attempts[k] <= Budget + undone[k]
            /\ status[k] = "dead" => attempts[k] >= Budget
        BY <2>0, <3>2 DEF Fits, RunFits, EndFits
      <4>10. CASE ReadBack(g)
        <5>1. UNCHANGED <<storeVars, attempts>> /\ store = "redis"
          BY <4>10 DEF ReadBack
        <5>2. \/ Frees(g)
              \/ /\ job' = job /\ phase' = [phase EXCEPT ![g] = Reading[phase[g]]]
                 /\ phase[g] \in {"mark", "unhandled", "bury"}
          BY <4>10, ReadingIs DEF ReadBack
        <5>3. CASE ~ Frees(g)
          <6>1. /\ phase[g] = "mark" => phase'[g] = "marking"
                /\ phase[g] = "unhandled" => phase'[g] = "failing"
                /\ phase[g] = "bury" => phase'[g] = "burying"
                /\ job'[g] = job[g] /\ phase[g] \in {"mark", "unhandled", "bury"}
            BY <5>2, <5>3, ReadingIs
          <6>2. RunFits(k)'
            BY <4>3, <4>4, <4>9, <5>1, <6>1 DEF RunFits, Square, Room, Budget, storeVars
          <6> QED BY <4>3, <4>5, <4>7, <4>8, <4>9, <4>2, <5>1, <6>2 DEF Fits, EndFits, Waiting, storeVars, Budget
        <5> QED BY <4>2, <4>3, <4>5, <4>6, <4>7, <4>8, <4>9, <5>1, <5>3 DEF Fits, EndFits, Waiting, storeVars, Budget
      <4>11. CASE MarkRunning(g)
        <5>1. PICK outcome \in Ends(g) : Writes(g, "running", ReadValue(g), outcome)
          BY <4>11 DEF MarkRunning
        <5>2. status'[k] \in {status[k], "running"} /\ zset' = zset
          BY <3>2, <4>11, <5>1, WritesAre, ReadValueType DEF MarkRunning
        <5>3. ~ Waiting(k)'
          BY <4>2, <4>3, <5>2 DEF Waiting
        <5>4. phase[g] \in {"mark", "marking"}
          BY <4>11, AtIs, ReadingIs DEF MarkRunning
        <5>5. \/ Frees(g) /\ attempts'[k] = attempts[k]
              \/ phase'[g] = "unhandled" /\ attempts'[k] = attempts[k]
              \/ phase'[g] = "run" /\ job' = job /\ attempts'[k] = attempts[k] + 1
          BY <3>2, <4>11 DEF MarkRunning, GoesOn
        <5>6. Square(k, job[g].retried)
          BY <4>9, <5>4
        <5>7. RunFits(k)'
          BY <4>3, <4>4, <4>6, <4>8, <5>5, <5>6 DEF RunFits, Square, Room
        <5>8. EndFits(k)'
          BY <4>3, <4>8, <4>9, <5>2, <5>5, <5>6 DEF EndFits, Square, Room, Budget
        <5> QED BY <4>5, <4>7, <4>8, <5>3, <5>5, <5>7, <5>8 DEF Fits
      <4>12. CASE MarkFailed(g)
        <5>1. PICK outcome \in Ends(g) : Writes(g, "failed", ReadValue(g), outcome)
          BY <4>12 DEF MarkFailed
        <5>2. status'[k] \in {status[k], "failed"}
          BY <3>2, <5>1, WritesAre, ReadValueType DEF Settled
        <5>3. zset' = zset /\ attempts' = attempts /\ Frees(g)
          BY <4>12 DEF MarkFailed
        <5>4. ~ Waiting(k)'
          BY <4>2, <4>3, <5>2, <5>3 DEF Waiting
        <5> QED BY <4>3, <4>5, <4>6, <4>7, <4>8, <4>9, <5>2, <5>3, <5>4 DEF Fits, EndFits, Budget
      <4>13. CASE MarkDead(g)
        <5>1. PICK outcome \in Ends(g) : Writes(g, "dead", ReadValue(g), outcome)
          BY <4>13 DEF MarkDead
        <5>2. status'[k] \in {status[k], "dead"}
          BY <3>2, <5>1, WritesAre, ReadValueType DEF Settled
        <5>3. zset' = zset /\ attempts' = attempts /\ Frees(g)
          BY <4>13 DEF MarkDead
        <5>4. ~ Waiting(k)'
          BY <4>2, <4>3, <5>2, <5>3 DEF Waiting
        <5>5. phase[g] \in {"bury", "burying"}
          BY <4>13, AtIs, ReadingIs DEF MarkDead
        <5> QED BY <4>3, <4>5, <4>6, <4>7, <4>8, <4>9, <5>2, <5>3, <5>4, <5>5 DEF Fits, EndFits, Budget
      <4>14. CASE Succeeds(g)
        <5>1. UNCHANGED <<storeVars, attempts, job>> /\ phase'[g] = "done"
          BY <4>14 DEF Succeeds, GoesOn, histVars
        <5>2. RunFits(k)'
          BY <4>4, <5>1 DEF RunFits
        <5> QED BY <4>2, <4>3, <4>5, <4>7, <4>8, <4>9, <5>1, <5>2 DEF Fits, EndFits, Waiting, storeVars, Budget
      <4>15. CASE HandlerFails(g)
        <5>1. /\ UNCHANGED <<storeVars, attempts>> /\ phase[g] = "run"
              /\ job'[g].retried = job[g].retried + 1
              /\ phase'[g] = IF job[g].retried + 1 >= MaxRetries THEN "bury" ELSE "requeue"
          BY <4>15 DEF HandlerFails, Exhausted, histVars
        <5>2. RunFits(k)'
          BY <4>3, <4>4, <4>8, <4>9, <5>1 DEF RunFits, Square, Room, Budget
        <5> QED BY <4>2, <4>3, <4>5, <4>7, <4>8, <4>9, <5>1, <5>2 DEF Fits, EndFits, Waiting, storeVars, Budget
      <4>16. CASE Requeue(g)
        <5>1. PICK outcome \in Ends(g) : /\ Writes(g, "pending", job[g].retried, outcome)
                                        /\ IF store = "redis" /\ outcome = "ok"
                                             THEN GoesOn(g, "requeuing") ELSE Frees(g)
          BY <4>16 DEF Requeue
        <5>2. /\ \/ status'[k] = status[k] /\ retried'[k] = retried[k]
                 \/ status'[k] = "pending" /\ retried'[k] = job[g].retried
              /\ outcome = "ok" /\ store = "redis" => retried'[k] = job[g].retried
          BY <3>2, <4>8, <5>1, WritesAre DEF Writes
        <5>3. zset' = zset /\ attempts' = attempts /\ Square(k, job[g].retried)
          BY <4>9, <4>16 DEF Requeue
        <5>4. StoredFits(k)'
          BY <4>2, <4>3, <5>2, <5>3 DEF StoredFits, Waiting, Square, Room
        <5>5. RunFits(k)'
          BY <4>3, <4>4, <4>6, <5>1, <5>2, <5>3 DEF RunFits, GoesOn, Square, Room
        <5> QED BY <4>3, <4>5, <4>8, <4>9, <5>2, <5>3, <5>4, <5>5 DEF Fits, EndFits, Budget
      <4>17. CASE RequeueId(g)
        <5>1. UNCHANGED <<status, retried, attempts>> /\ Frees(g) /\ Square(k, retried[k])
          BY <4>9, <4>17 DEF RequeueId
        <5> QED BY <4>3, <4>5, <4>6, <4>8, <4>9, <5>1 DEF Fits, StoredFits, EndFits, Square, Room, Budget
      <4>18. CASE MarkDone(g)
        <5>1. /\ status'[k] \in {status[k], "done"} /\ attempts' = attempts /\ zset' = zset
              /\ phase[g] = "done"
          BY <3>2, <4>18 DEF MarkDone
        <5>2. ~ Waiting(k)'
          BY <4>2, <4>3, <5>1 DEF Waiting
        <5>3. RunFits(k)'
          BY <4>4, <4>6, <4>18, <5>1 DEF MarkDone, RunFits
        <5> QED BY <4>3, <4>5, <4>7, <4>8, <4>9, <5>1, <5>2, <5>3 DEF Fits, EndFits, Budget
      <4> QED BY <2>5, <4>10, <4>11, <4>12, <4>13, <4>14, <4>15, <4>16, <4>17, <4>18 DEF JobStep
    <3> QED BY <3>1, <3>2
  <2>6. CASE UNCHANGED vars
    BY <2>0, <2>6, FitsKept DEF vars, storeVars, loopVars, slotVars, histVars, Waiting
  <2> QED BY <2>1, <2>2, <2>3, <2>4, <2>5, <2>6 DEF Next
<1> QED BY <1>1, <1>2

-----------------------------------------------------------------------------
(* A job enqueued once that is settled has left the queue; at most the       *)
(* goroutine that is deleting it still has it.                               *)

Gone(j) ==
  status[j] \in Settled =>
    /\ ~ Waiting(j) /\ client[j] # "set" /\ Takers(j) = {}
    /\ \A g \in Runners(j) : phase[g] = "done" /\ status[j] = "done"

SettledLeft == \A j \in Jobs : sends[j] = 1 => Gone(j)

(* What the step of a goroutine may do to the status of its job.             *)
LEMMA JobWrites ==
  ASSUME Shape, NEW g \in Slots, JobStep(g), NEW k \in Jobs, job[g].id = k,
         status[k] \notin Settled \/ (phase[g] = "done" /\ status[k] = "done")
  PROVE  /\ \/ status'[k] \notin Settled
            \/ Frees(g)
            \/ phase'[g] = "done" /\ job'[g].id = k /\ status'[k] = "done"
         /\ status[k] \in Settled => status'[k] = status[k] /\ attempts' = attempts
<1> USE DEF Shape, TypeOK, InHands, GoesOn, storeVars, histVars
<1>1. CASE ReadBack(g)
  <2>1. phase[g] # "done" /\ status' = status
    BY <1>1, ReadingIs DEF ReadBack
  <2> QED BY <2>1
<1>2. CASE MarkRunning(g)
  <2>1. phase[g] # "done"
    BY <1>2, AtIs, ReadingIs DEF MarkRunning
  <2>2. PICK outcome \in Ends(g) : Writes(g, "running", ReadValue(g), outcome)
    BY <1>2 DEF MarkRunning
  <2>3. status'[k] \in {status[k], "running"}
    BY <2>2, WritesAre, ReadValueType
  <2> QED BY <2>1, <2>3 DEF Settled
<1>3. CASE MarkFailed(g)
  BY <1>3, AtIs, ReadingIs DEF MarkFailed
<1>4. CASE MarkDead(g)
  BY <1>4, AtIs, ReadingIs DEF MarkDead
<1>5. CASE Requeue(g)
  <2>1. PICK outcome \in Ends(g) : Writes(g, "pending", job[g].retried, outcome)
    BY <1>5 DEF Requeue
  <2>2. status'[k] \in {status[k], "pending"} /\ phase[g] # "done"
    BY <1>5, <2>1, WritesAre DEF Requeue, Copy
  <2> QED BY <2>2 DEF Settled
<1>6. CASE Succeeds(g) \/ HandlerFails(g) \/ RequeueId(g)
  BY <1>6 DEF Succeeds, HandlerFails, RequeueId
<1>7. CASE MarkDone(g)
  BY <1>7 DEF MarkDone
<1> QED BY <1>1, <1>2, <1>3, <1>4, <1>5, <1>6, <1>7 DEF JobStep

(* Settled is settled: no step changes the status of such a job, or calls    *)
(* its handler.                                                              *)
LEMMA StaysSettled ==
  ASSUME Shape, Tokens, SettledLeft, [Next]_vars,
         NEW k \in Jobs, sends[k] = 1, sends'[k] = 1, status[k] \in Settled
  PROVE  status'[k] = status[k] /\ attempts'[k] = attempts[k]
<1> USE DEF Shape, TypeOK
<1>0. Gone(k)
  BY DEF SettledLeft
<1>1. ASSUME NEW j \in Jobs, ClientStep(j) PROVE status'[k] = status[k] /\ attempts'[k] = attempts[k]
  <2>1. CASE EnqueueRow(j)
    BY <2>1 DEF EnqueueRow, Sent
  <2>2. CASE EnqueueData(j)
    BY <2>2 DEF EnqueueData, Sent
  <2>3. CASE EnqueueId(j)
    BY <2>3 DEF EnqueueId
  <2> QED BY <1>1, <2>1, <2>2, <2>3 DEF ClientStep
<1>2. ASSUME NEW w \in Workers, LoopStep(w) PROVE status'[k] = status[k] /\ attempts'[k] = attempts[k]
  BY <1>2, LoopFrame DEF Settled
<1>3. ASSUME NEW g \in Slots, JobStep(g) PROVE status'[k] = status[k] /\ attempts'[k] = attempts[k]
  <2>1. CASE job[g].id # k
    BY <1>3, <2>1, JobFrame
  <2>2. CASE job[g].id = k
    BY <1>0, <1>3, <2>2, JobWrites DEF Gone, Runners
  <2> QED BY <2>1, <2>2
<1>4. ASSUME NEW w \in Workers, Register(w) \/ Start(w) \/ Close(w) \/ Cancel(w) \/ Crash(w)
      PROVE  status' = status /\ attempts' = attempts
  BY <1>4 DEF Register, Start, Close, Cancel, Crash, storeVars, histVars
<1>5. CASE UNCHANGED vars
  BY <1>5 DEF vars, storeVars, histVars
<1> QED BY <1>1, <1>2, <1>3, <1>4, <1>5 DEF Next

LEMMA SettledStep ==
  ASSUME Shape, Shape', Tokens, Unsent, SettledLeft, [Next]_vars
  PROVE  SettledLeft'
<1> SUFFICES ASSUME NEW k \in Jobs, sends'[k] = 1, status'[k] \in Settled PROVE Gone(k)'
  BY DEF SettledLeft, Gone
<1> USE DEF Shape, TypeOK
<1>1. ASSUME NEW j \in Jobs, ClientStep(j) PROVE Gone(k)'
  <2>1. UNCHANGED <<store, fetched, loop, job, phase>>
    BY <1>1 DEF ClientStep, EnqueueRow, EnqueueData, EnqueueId, loopVars, slotVars
  <2>2. Takers(k)' = Takers(k) /\ Runners(k)' = Runners(k)
    BY <2>1 DEF Takers, Runners
  <2>3. CASE sends[k] # 1
    <3>0. sends[k] = 0
      BY <2>3, SendsGrow
    <3>1. status[k] = "none"
      BY <3>0 DEF Unsent, Untouched
    <3>2. status' = status \/ status' = [status EXCEPT ![j] = "pending"]
      BY <1>1 DEF ClientStep, EnqueueRow, EnqueueData, EnqueueId
    <3> QED BY <3>1, <3>2 DEF Settled
  <2>4. CASE sends[k] = 1
    <3>1. sends'[k] = sends[k]
      BY <2>4
    <3>2. status'[k] = status[k] /\ (k \in zset' => k \in zset \/ client[k] = "set")
          /\ (client'[k] = "set" => client[k] = "set")
      <4>1. CASE EnqueueRow(j)
        BY <3>1, <4>1 DEF EnqueueRow, Sent
      <4>2. CASE EnqueueData(j)
        BY <3>1, <4>2 DEF EnqueueData, Sent
      <4>3. CASE EnqueueId(j)
        BY <4>3 DEF EnqueueId
      <4> QED BY <1>1, <4>1, <4>2, <4>3 DEF ClientStep
    <3> QED BY <2>1, <2>2, <2>4, <3>2 DEF SettledLeft, Gone, Waiting
  <2> QED BY <2>3, <2>4
<1>2. ASSUME UNCHANGED <<store, client, sends>>, status'[k] = status[k],
             Waiting(k)' => Waiting(k), Takers(k)' \subseteq Takers(k), Runners(k)' \subseteq Runners(k),
             \A g \in Runners(k)' : phase'[g] = phase[g]
      PROVE  Gone(k)'
  BY <1>2 DEF SettledLeft, Gone
<1>3. ASSUME NEW w \in Workers, LoopStep(w) PROVE Gone(k)'
  <2>1. sends[k] = 1 /\ status'[k] = status[k] /\ Gone(k) /\ UNCHANGED <<store, client, sends>>
    BY <1>3, LoopFrame DEF SettledLeft, Settled
  <2>2. ~ Waiting(k) /\ Takers(k) = {}
    BY <2>1 DEF Gone
  <2>3. Waiting(k)' => Waiting(k)
    BY <1>3, <2>1, LoopFrame DEF Waiting
  <2>4. fetched'[w].id = k => fetched[w].id = k
    BY <1>3, <2>2, Takes
  <2>5. Takers(k)' \subseteq Takers(k)
    <3> SUFFICES ASSUME fetched'[w].id = k, store = "redis" \/ loop'[w] = "slot" PROVE w \in Takers(k)
      BY <1>3, <2>1, LoopFrame DEF Takers
    <3>1. fetched[w].id = k
      BY <2>4
    <3>2. CASE store = "redis"
      BY <3>1, <3>2 DEF Takers
    <3>3. CASE store = "database"
      <4>1. loop'[w] = "slot" /\ loop[w] # "slot"
        BY <2>2, <3>1, <3>3 DEF Takers
      <4>2. ClaimRow(w) /\ Claimable(k)
        BY <1>3, <3>1, <3>3, <4>1 DEF LoopStep, LoopMoves, Check, FetchNothing, SelectRow, ClaimRow, PopId,
             ReadData, Dispatch, PollEnds, Return, Claimable
      <4> QED BY <2>1, <4>2 DEF Claimable, Settled
    <3> QED BY <3>2, <3>3
  <2>6. /\ Runners(k)' \subseteq Runners(k)
        /\ \A g \in Runners(k)' : phase'[g] = phase[g]
    <3>1. CASE Dispatch(w)
      <4>1. fetched[w].id # k
        BY <2>2, <3>1 DEF Dispatch, LoopMoves, Takers
      <4> QED BY <3>1, <4>1 DEF Dispatch, Spawns, Runners
    <3>2. CASE UNCHANGED <<job, phase>>
      BY <3>2 DEF Runners
    <3> QED BY <1>3, <3>1, <3>2 DEF LoopStep, Check, FetchNothing, SelectRow, ClaimRow, PopId,
             ReadData, PollEnds, Return, slotVars
  <2> QED BY <1>2, <2>1, <2>3, <2>5, <2>6
<1>4. ASSUME NEW g \in Slots, JobStep(g) PROVE Gone(k)'
  <2>0. UNCHANGED <<store, client, loop, fetched, sends>> /\ sends[k] = 1 /\ Takers(k)' = Takers(k)
    BY <1>4, JobFrame DEF Takers
  <2>1. CASE job[g].id # k
    <3>1. /\ status'[k] = status[k] /\ (Waiting(k)' => Waiting(k))
          /\ \A h \in Runners(k)' : h # g /\ phase'[h] = phase[h] /\ h \in Runners(k)
      BY <1>4, <2>0, <2>1, JobFrame DEF Waiting, Runners
    <3> QED BY <1>2, <2>0, <3>1
  <2>2. CASE job[g].id = k
    <3>1. /\ ~ Waiting(k) /\ client[k] # "set" /\ Takers(k) = {}
          /\ \A h \in Slots : job[h].id = k => h = g
      BY <2>0, <2>2, Alone DEF Runners
    <3>2. status[k] \notin Settled \/ (phase[g] = "done" /\ status[k] = "done")
      BY <2>0, <2>2 DEF SettledLeft, Gone, Runners
    <3>3. \/ Frees(g)
          \/ phase'[g] = "done" /\ job'[g].id = k /\ status'[k] = "done"
      BY <1>4, <2>2, <3>2, JobWrites
    <3>4. \A h \in Runners(k)' : phase'[h] = "done" /\ status'[k] = "done"
      <4>1. \A h \in Runners(k)' : h = g
        BY <1>4, <3>1, JobFrame DEF Runners
      <4>2. Frees(g) => g \notin Runners(k)'
        BY FreesType DEF Runners, Nothing
      <4> QED BY <3>3, <4>1, <4>2
    <3>5. ~ Waiting(k)'
      <4>1. CASE store = "database"
        BY <2>0, <4>1 DEF Waiting, Settled
      <4>2. CASE store = "redis" /\ RequeueId(g)
        <5>1. status' = status /\ phase[g] = "requeuing"
          BY <4>2 DEF RequeueId
        <5> QED BY <3>2, <5>1
      <4>3. CASE store = "redis" /\ ~ RequeueId(g)
        <5>1. zset' = zset
          BY <1>4, <4>3 DEF JobStep, ReadBack, MarkRunning, MarkFailed, Succeeds, HandlerFails, MarkDead,
                            Requeue, MarkDone, storeVars
        <5> QED BY <2>0, <3>1, <4>3, <5>1 DEF Waiting
      <4> QED BY <4>1, <4>2, <4>3
    <3> QED BY <2>0, <3>1, <3>4, <3>5 DEF Gone
  <2> QED BY <2>1, <2>2
<1>5. ASSUME NEW w \in Workers, Register(w) \/ Start(w) \/ Close(w) \/ Cancel(w) PROVE Gone(k)'
  <2>1. /\ UNCHANGED <<storeVars, client, sends, fetched, job, phase>>
        /\ \A v \in Workers : fetched[v].id = k => loop'[v] = loop[v]
    BY <1>5 DEF Register, Start, Close, Cancel, LoopMoves, loopVars, slotVars, histVars, Nothing
  <2> QED BY <1>2, <2>1 DEF storeVars, Waiting, Takers, Runners
<1>6. ASSUME NEW w \in Workers, Crash(w) PROVE Gone(k)'
  <2>1. /\ UNCHANGED <<storeVars, client, sends>>
        /\ \A v \in Workers : fetched'[v].id = k => loop'[v] = loop[v] /\ fetched'[v] = fetched[v]
        /\ \A g \in Slots : job'[g].id = k => job'[g] = job[g] /\ phase'[g] = phase[g]
    BY <1>6 DEF Crash, HoldsNothing, Nothing
  <2> QED BY <1>2, <2>1 DEF storeVars, Waiting, Takers, Runners
<1>7. CASE UNCHANGED vars
  BY <1>2, <1>7 DEF vars, storeVars, loopVars, slotVars, histVars, Waiting, Takers, Runners
<1> QED BY <1>1, <1>3, <1>4, <1>5, <1>6, <1>7 DEF Next

-----------------------------------------------------------------------------
(* As long as nothing failed and nobody was cancelled, a job that was sent   *)
(* was sent once, and is somewhere.                                          *)

Somewhere(j) == Waiting(j) \/ Takers(j) # {} \/ Runners(j) # {} \/ status[j] \in Settled

Placed(j) ==
  /\ client[j] # "error"
  /\ sends[j] = IF client[j] = "new" THEN 0 ELSE 1
  /\ client[j] = "sent" => Somewhere(j)

NothingDropped == Calm => \A j \in Jobs : Placed(j)

(* In such a step every call of the store did its work and said so.          *)
LEMMA CalmCall ==
  ASSUME Shape, NEW cancel, cancel = FALSE, NEW outcome \in Outcomes(cancel), Charge(outcome, cancel),
         faults' = 0
  PROVE  outcome = "ok"
BY DEF Shape, TypeOK, Charge

LEMMA CalmBefore ==
  ASSUME Shape, Shape', [Next]_vars, Calm'
  PROVE  Calm
<1> USE DEF Shape, TypeOK, Calm
<1>1. ASSUME NEW j \in Jobs, ClientStep(j) PROVE Calm
  <2>1. cancelled' = cancelled
    BY <1>1 DEF ClientStep, EnqueueRow, EnqueueData, EnqueueId, endVars
  <2>2. PICK outcome \in Outcomes(FALSE) : Charge(outcome, FALSE)
    BY <1>1 DEF ClientStep, EnqueueRow, EnqueueData, EnqueueId
  <2>3. faults' = faults \/ faults' = faults + 1
    BY <2>2 DEF Charge
  <2> QED BY <2>1, <2>3
<1>2. ASSUME NEW w \in Workers, LoopStep(w) PROVE Calm
  <2>1. faults' >= faults
    BY <1>2 DEF LoopStep, Check, FetchNothing, SelectRow, ClaimRow, PopId, ReadData, Dispatch, PollEnds,
                Return, Charge, histVars
  <2> QED BY <1>2, <2>1, LoopFrame
<1>3. ASSUME NEW g \in Slots, JobStep(g) PROVE Calm
  <2>1. faults' >= faults
    BY <1>3 DEF JobStep, ReadBack, MarkRunning, MarkFailed, Succeeds, HandlerFails, MarkDead, Requeue,
                RequeueId, MarkDone, Charged, Charge, histVars
  <2> QED BY <1>3, <2>1, JobFrame
<1>4. ASSUME NEW w \in Workers, Register(w) \/ Start(w) \/ Close(w) \/ Cancel(w) \/ Crash(w)
      PROVE  Calm
  BY <1>4 DEF Register, Start, Close, Cancel, Crash, histVars, endVars
<1>5. CASE UNCHANGED vars
  BY <1>5 DEF vars, histVars, endVars
<1> QED BY <1>1, <1>2, <1>3, <1>4, <1>5 DEF Next

LEMMA DroppedStep ==
  ASSUME Shape, Shape', Tokens, SettledLeft, NothingDropped, [Next]_vars
  PROVE  NothingDropped'
<1> SUFFICES ASSUME Calm', NEW k \in Jobs PROVE Placed(k)'
  BY DEF NothingDropped
<1> USE DEF Shape, TypeOK
<1>0. Placed(k) /\ Calm /\ faults' = 0 /\ \A w \in Workers : cancelled[w] = FALSE
  BY CalmBefore DEF NothingDropped, Calm
<1>1. ASSUME NEW j \in Jobs, ClientStep(j) PROVE Placed(k)'
  <2>0. UNCHANGED <<store, fetched, loop, job>>
    BY <1>1 DEF ClientStep, EnqueueRow, EnqueueData, EnqueueId, loopVars, slotVars
  <2>1. Takers(k)' = Takers(k) /\ Runners(k)' = Runners(k)
    BY <2>0 DEF Takers, Runners
  <2>2. CASE EnqueueRow(j)
    <3>1. /\ client' = [client EXCEPT ![j] = "sent"] /\ status' = [status EXCEPT ![j] = "pending"]
          /\ sends' = [sends EXCEPT ![j] = @ + 1] /\ zset' = zset
          /\ client[j] \in {"new", "error"} /\ store = "database"
      BY <1>0, <2>2, CalmCall DEF EnqueueRow, Sent
    <3> QED BY <1>0, <2>0, <2>1, <3>1 DEF Placed, Somewhere, Waiting
  <2>3. CASE EnqueueData(j)
    <3>1. /\ client' = [client EXCEPT ![j] = "set"] /\ status' = [status EXCEPT ![j] = "pending"]
          /\ sends' = [sends EXCEPT ![j] = @ + 1] /\ zset' = zset
          /\ client[j] \in {"new", "error"} /\ store = "redis"
      BY <1>0, <2>3, CalmCall DEF EnqueueData, Sent
    <3> QED BY <1>0, <2>0, <2>1, <3>1 DEF Placed, Somewhere, Waiting
  <2>4. CASE EnqueueId(j)
    <3>1. /\ client' = [client EXCEPT ![j] = "sent"] /\ zset' = zset \cup {j}
          /\ UNCHANGED <<status, sends>> /\ client[j] = "set" /\ store = "redis"
      <4>1. store = "redis"
        BY <2>4 DEF EnqueueId, ByStore
      <4> QED BY <1>0, <2>4, <4>1, CalmCall DEF EnqueueId
    <3> QED BY <1>0, <2>0, <2>1, <3>1 DEF Placed, Somewhere, Waiting
  <2> QED BY <1>1, <2>2, <2>3, <2>4 DEF ClientStep
<1>2. ASSUME UNCHANGED <<client, sends>>, Somewhere(k) => Somewhere(k)'
      PROVE  Placed(k)'
  BY <1>0, <1>2 DEF Placed
<1>3. ASSUME NEW w \in Workers, Register(w) \/ Start(w) \/ Close(w) \/ Cancel(w) PROVE Placed(k)'
  <2>1. /\ UNCHANGED <<storeVars, client, sends, fetched, job>>
        /\ \A v \in Workers : fetched[v].id = k => loop'[v] = loop[v]
    BY <1>3 DEF Register, Start, Close, Cancel, LoopMoves, loopVars, slotVars, histVars, Nothing
  <2>2. Takers(k)' = Takers(k) /\ Runners(k)' = Runners(k)
    BY <2>1 DEF storeVars, Takers, Runners
  <2> QED BY <1>2, <2>1, <2>2 DEF storeVars, Waiting, Somewhere
<1>4. ASSUME NEW w \in Workers, Crash(w) PROVE Placed(k)'
  BY <1>0, <1>4 DEF Crash, Calm
<1>5. ASSUME NEW w \in Workers, LoopStep(w) PROVE Placed(k)'
  <2>0. /\ UNCHANGED <<store, client, sends>>
        /\ \A v \in Workers : v # w => loop'[v] = loop[v] /\ fetched'[v] = fetched[v]
    BY <1>5, LoopFrame
  <2>1. sends[k] <= 1
    BY <1>0 DEF Placed
  <2> SUFFICES ASSUME Somewhere(k), client[k] = "sent" PROVE Somewhere(k)'
    BY <1>0, <2>0 DEF Placed
  <2>2. CASE status[k] \in Settled
    BY <1>5, <2>2, LoopFrame DEF Somewhere, Settled
  <2>3. CASE Runners(k) # {}
    <3>1. Runners(k) \subseteq Runners(k)'
      BY <1>5 DEF LoopStep, Check, FetchNothing, SelectRow, ClaimRow, PopId, ReadData, Dispatch, Spawns,
                  PollEnds, Return, slotVars, Runners, Nothing
    <3> QED BY <2>3, <3>1 DEF Somewhere
  <2>4. CASE Takers(k) # {} /\ status[k] \notin Settled
    <3>1. PICK v \in Workers : v \in Takers(k)
      BY <2>4 DEF Takers
    <3>2. CASE v # w
      <4>1. v \in Takers(k)'
        BY <2>0, <3>1, <3>2 DEF Takers
      <4> QED BY <4>1 DEF Somewhere
    <3>3. CASE v = w
      <4>1. fetched[w].id = k /\ (store = "redis" \/ loop[w] = "slot")
        BY <3>1, <3>3 DEF Takers
      <4>2. CASE loop[w] = "slot"
        <5>1. Dispatch(w)
          BY <1>5, <4>2 DEF LoopStep, LoopMoves, Check, FetchNothing, SelectRow, ClaimRow, PopId, ReadData,
                            PollEnds, Return
        <5>2. PICK g \in Slots : job' = [job EXCEPT ![g] = fetched[w]]
          BY <5>1 DEF Dispatch, Spawns
        <5>3. g \in Runners(k)'
          BY <4>1, <5>2 DEF Runners
        <5> QED BY <5>3 DEF Somewhere
      <4>3. CASE loop[w] # "slot"
        <5>1. ReadData(w)
          <6>1. loop[w] = "claim" /\ store = "redis"
            BY <4>1, <4>3 DEF Nothing
          <6> QED BY <1>5, <6>1 DEF LoopStep, LoopMoves, Check, FetchNothing, SelectRow, ClaimRow, PopId,
                                    Dispatch, PollEnds, Return
        <5>2. Holds(w, k)
          BY <1>0, <2>4, <4>1, <5>1, CalmCall DEF ReadData, Settled
        <5>3. w \in Takers(k)'
          BY <2>0, <4>1, <4>3, <5>2 DEF Takers, Holds
        <5> QED BY <5>3 DEF Somewhere
      <4> QED BY <4>2, <4>3
    <3> QED BY <3>2, <3>3
  <2>5. CASE Waiting(k)
    <3> SUFFICES ASSUME ~ Waiting(k)' PROVE w \in Takers(k)'
      BY DEF Somewhere
    <3>1. CASE store = "database"
      <4>1. ClaimRow(w) /\ fetched[w].id = k
        BY <1>5, <2>0, <2>5, <3>1 DEF LoopStep, Check, FetchNothing, SelectRow, ClaimRow, PopId, ReadData,
             Dispatch, PollEnds, Return, storeVars, Waiting
      <4>2. LoopMoves(w, "claim", "slot") /\ fetched' = fetched
        BY <1>0, <2>5, <3>1, <4>1, CalmCall DEF ClaimRow, Claimable, Waiting
      <4> QED BY <4>1, <4>2 DEF LoopMoves, Takers
    <3>2. CASE store = "redis"
      <4>1. PopId(w) /\ k \in zset /\ k \notin zset'
        BY <1>5, <2>0, <2>5, <3>2 DEF LoopStep, Check, FetchNothing, SelectRow, ClaimRow, PopId, ReadData,
             Dispatch, PollEnds, Return, storeVars, Waiting
      <4>2. Holds(w, k)
        <5>1. PICK j \in zset, outcome \in Outcomes(cancelled[w]) \ {"error"} :
                /\ zset' = zset \ {j}
                /\ IF outcome = "ok"
                     THEN LoopMoves(w, "fetch", "claim") /\ Holds(w, j)
                     ELSE LoopMoves(w, "fetch", "poll") /\ UNCHANGED fetched
                /\ Charge(outcome, cancelled[w])
          BY <4>1 DEF PopId
        <5>2. outcome = "ok"
          BY <1>0, <5>1, CalmCall
        <5>3. j = k
          BY <4>1, <5>1
        <5> QED BY <5>1, <5>2, <5>3
      <4> QED BY <2>0, <3>2, <4>2 DEF Holds, Takers
    <3> QED BY <3>1, <3>2
  <2> QED BY <2>2, <2>3, <2>4, <2>5 DEF Somewhere
<1>6. ASSUME NEW g \in Slots, JobStep(g) PROVE Placed(k)'
  <2>0. UNCHANGED <<store, client, sends, loop, fetched>> /\ cancelled[g[1]] = FALSE
    BY <1>0, <1>6, JobFrame DEF Slots
  <2>1. Takers(k)' = Takers(k)
    BY <2>0 DEF Takers
  <2>2. CASE job[g].id # k
    <3>1. Runners(k)' = Runners(k) /\ Waiting(k)' = Waiting(k) /\ status'[k] = status[k]
      BY <1>6, <2>0, <2>2, JobFrame DEF Runners, Waiting
    <3> QED BY <1>2, <2>0, <2>1, <3>1 DEF Somewhere
  <2>3. CASE job[g].id = k
    <3> SUFFICES ASSUME client[k] = "sent" PROVE Somewhere(k)'
      BY <1>0, <2>0 DEF Placed
    <3>1. status[k] \notin Settled \/ (phase[g] = "done" /\ status[k] = "done")
      <4>1. sends[k] = 1 /\ g \in Runners(k)
        BY <1>0, <2>3 DEF Placed, Runners
      <4> QED BY <4>1 DEF SettledLeft, Gone
    <3>2. CASE job' = job
      BY <2>3, <3>2 DEF Somewhere, Runners
    <3>3. CASE job'[g].id = k
      BY <3>3 DEF Somewhere, Runners
    <3>4. CASE ReadBack(g)
      BY <1>0, <2>0, <2>3, <3>1, <3>2, <3>4, CalmCall, ReadingIs DEF ReadBack, Ends, Charged, Settled
    <3>5. CASE MarkRunning(g)
      BY <1>0, <2>0, <3>2, <3>5, CalmCall DEF MarkRunning, Ends, Charged, GoesOn
    <3>6. CASE MarkFailed(g)
      <4>1. PICK outcome \in Ends(g) : Writes(g, "failed", ReadValue(g), outcome) /\ Charged(g, outcome)
        BY <3>6 DEF MarkFailed
      <4>2. outcome = "ok"
        BY <1>0, <2>0, <4>1, CalmCall DEF Ends, Charged
      <4>4. phase[g] # "done"
        BY <3>6, ReadingIs DEF MarkFailed, At
      <4>5. status[k] # "done"
        BY <3>1, <4>4 DEF Settled
      <4>3. status'[k] = "failed"
        BY <2>3, <4>1, <4>2, <4>5, WritesAre, ReadValueType DEF Settled
      <4> QED BY <4>3 DEF Somewhere, Settled
    <3>7. CASE MarkDead(g)
      <4>1. PICK outcome \in Ends(g) : Writes(g, "dead", ReadValue(g), outcome) /\ Charged(g, outcome)
        BY <3>7 DEF MarkDead
      <4>2. outcome = "ok"
        BY <1>0, <2>0, <4>1, CalmCall DEF Ends, Charged
      <4>4. phase[g] # "done"
        BY <3>7, ReadingIs DEF MarkDead, At
      <4>5. status[k] # "done"
        BY <3>1, <4>4 DEF Settled
      <4>3. status'[k] = "dead"
        BY <2>3, <4>1, <4>2, <4>5, WritesAre, ReadValueType DEF Settled
      <4> QED BY <4>3 DEF Somewhere, Settled
    <3>8. CASE Requeue(g)
      <4>1. PICK outcome \in Ends(g) :
               /\ Writes(g, "pending", job[g].retried, outcome) /\ Charged(g, outcome)
               /\ IF store = "redis" /\ outcome = "ok" THEN GoesOn(g, "requeuing") ELSE Frees(g)
        BY <3>8 DEF Requeue
      <4>2. outcome = "ok" /\ status[k] # "done" /\ job[g].retried \in Nat
        BY <1>0, <2>0, <3>1, <3>8, <4>1, CalmCall DEF Ends, Charged, Requeue, Settled, Copy
      <4>3. status'[k] = "pending"
        BY <2>3, <4>1, <4>2, WritesAre
      <4> QED BY <2>0, <3>2, <4>1, <4>2, <4>3 DEF Somewhere, Waiting, GoesOn
    <3>9. CASE RequeueId(g)
      <4>1. k \in zset' /\ store = "redis"
        BY <1>0, <2>0, <2>3, <3>9, CalmCall DEF RequeueId, Requeued, Ends, Charged, ByStore
      <4> QED BY <2>0, <4>1 DEF Somewhere, Waiting
    <3>10. CASE Succeeds(g)
      BY <3>2, <3>10 DEF Succeeds, GoesOn
    <3>11. CASE HandlerFails(g)
      BY <2>3, <3>3, <3>11 DEF HandlerFails
    <3>12. CASE MarkDone(g)
      <4>1. status'[k] = "done"
        BY <1>0, <2>0, <2>3, <3>12, CalmCall DEF MarkDone, Ends, Charged
      <4> QED BY <4>1 DEF Somewhere, Settled
    <3> QED BY <1>6, <3>4, <3>5, <3>6, <3>7, <3>8, <3>9, <3>10, <3>11, <3>12 DEF JobStep
  <2> QED BY <2>2, <2>3
<1>7. CASE UNCHANGED vars
  <2>1. /\ Takers(k)' = Takers(k) /\ Runners(k)' = Runners(k) /\ Waiting(k)' = Waiting(k)
        /\ UNCHANGED <<client, sends, status>>
    BY <1>7 DEF vars, storeVars, loopVars, slotVars, histVars, Waiting, Takers, Runners
  <2> QED BY <1>2, <2>1 DEF Somewhere
<1> QED BY <1>1, <1>3, <1>4, <1>5, <1>6, <1>7 DEF Next

-----------------------------------------------------------------------------
(* The inductive invariant.                                                  *)

IInv == Shape /\ Tokens /\ Unsent /\ Counted /\ SettledLeft /\ NothingDropped

LEMMA InvInit == Init => IInv
<1> SUFFICES ASSUME Init PROVE IInv
  OBVIOUS
<1>1. Shape /\ Tokens
  BY ShapeInit, TokensInit
<1>2. /\ \A j \in Jobs : /\ status[j] = "none" /\ client[j] = "new" /\ sends[j] = 0
                        /\ retried[j] = 0 /\ attempts[j] = 0 /\ undone[j] = 0
      /\ \A w \in Workers : fetched[w].id = NoJob
  BY DEF Init, Nothing
<1>3. Unsent
  BY <1>2 DEF Unsent, Untouched
<1>4. Counted /\ SettledLeft
  BY <1>2 DEF Counted, SettledLeft
<1>5. NothingDropped
  BY <1>2 DEF NothingDropped, Placed
<1> QED BY <1>1, <1>3, <1>4, <1>5 DEF IInv

LEMMA InvStep ==
  ASSUME IInv, [Next]_vars
  PROVE  IInv'
<1> USE DEF IInv
<1>1. Shape'
  BY ShapeStep
<1>2. Tokens' /\ Unsent'
  BY <1>1, TokensStep, UnsentStep
<1>3. Counted' /\ SettledLeft' /\ NothingDropped'
  BY <1>1, CountedStep, SettledStep, DroppedStep
<1> QED BY <1>1, <1>2, <1>3

(* Accounted: however the workers race and whatever fails, a job is in no    *)
(* more hands than there were Enqueues that wrote it, so a job enqueued once *)
(* is never run twice at a time; and while nothing fails, Dequeue, Requeue   *)
(* and a Close in the middle of a fetch drop no job that Enqueue accepted.   *)
THEOREM AccountedCorrect == Spec => []Accounted
<1>1. IInv => Accounted
  <2> SUFFICES ASSUME IInv PROVE Accounted
    OBVIOUS
  <2>1. SoleOwner
    BY SoleOwnerHolds DEF IInv
  <2>2. NothingStuck
    <3> SUFFICES ASSUME Calm, NEW j \in Jobs, client[j] = "sent"
                 PROVE  Waiting(j) \/ Owners(j) # {} \/ status[j] \in Settled
      BY DEF NothingStuck
    <3>1. Owners(j) = Takers(j) \cup Runners(j)
      BY DEF Owners, Takers, Runners
    <3>2. Somewhere(j)
      BY DEF IInv, NothingDropped, Placed
    <3> QED BY <3>1, <3>2 DEF Somewhere
  <2> QED BY <2>1, <2>2 DEF Accounted
<1> QED BY <1>1, InvInit, InvStep, PTL DEF Spec

(* RetriesSpent: a job enqueued once is executed at most MaxRetries times,   *)
(* plus what ClaimRow took off its counter with outdated copies of its row,  *)
(* and MarkDead buries it only after that many executions.                   *)
THEOREM RetriesSpentCorrect == Spec => []RetriesSpent
<1>1. IInv => RetriesSpent
  BY DEF IInv, Counted, Fits, EndFits, RetriesSpent, AttemptsBounded, DeadIsPaid
<1> QED BY <1>1, InvInit, InvStep, PTL DEF Spec

(* SettledForGood: no late write of a worker, of a status read before        *)
(* another one settled the job or of a retry of markDoneWithRetry, changes   *)
(* the status of a job enqueued once that is done, dead or failed, and its   *)
(* handler is not called again.                                              *)
THEOREM SettledForGoodCorrect == Spec => SettledForGood
<1>1. IInv /\ [Next]_vars =>
        [\A j \in Jobs : sends[j] = 1 /\ sends'[j] = 1 /\ status[j] \in Settled
          => status'[j] = status[j] /\ attempts'[j] = attempts[j]]_vars
  BY StaysSettled DEF IInv
<1> QED BY <1>1, InvInit, InvStep, PTL DEF Spec, SettledForGood
=============================================================================
