------------------------------- MODULE JobQueue -------------------------------
(***************************************************************************)
(* messaging/jobqueue: a client that enqueues jobs, workers that fetch and  *)
(* process them, and the two stores that can be dequeued from, database     *)
(* (GORM) and redis.                                                         *)
(*                                                                         *)
(* A worker is one call of Start: a loop, and a goroutine per job that runs, *)
(* at most Concurrency of them.  A process that is started again is another *)
(* worker.  One SQL statement, one Redis command and one Lua script is one  *)
(* step.  There is one queue and one type of jobs; time and priority are a  *)
(* choice: any job may be due, and any that is due may be the next.         *)
(*                                                                         *)
(* Which store is used is chosen once, in Init.                              *)
(***************************************************************************)
EXTENDS Naturals, FiniteSets

CONSTANTS Jobs,        \* the jobs
          MaxRetries,  \* Job.MaxRetries
          MaxAttempts, \* bound: the handler of a job fails only below it
          Workers,     \* the workers
          Concurrency, \* WithConcurrency
          NoJob,
          Faults,      \* the faults that may happen: "call", "crash"
          MaxFaults,   \* bound: how many of them happen
          Cancellable, \* bound: the workers whose context may be cancelled
          Closable     \* bound: the workers that may be closed

ASSUME JobsAssumption == NoJob \notin Jobs
ASSUME NumbersAssumption ==
  MaxRetries \in Nat /\ MaxAttempts \in Nat /\ MaxFaults \in Nat /\ Concurrency \in Nat \ {0}
ASSUME WorkersAssumption == IsFiniteSet(Workers) /\ Cancellable \cup Closable \subseteq Workers
ASSUME FaultsAssumption == Faults \subseteq {"call", "crash"}

VARIABLES
  store,     \* "database" or "redis"
  status,    \* status[j]: Job.Status of the stored job
  retried,   \* retried[j]: Job.Retried of the stored job
  zset,      \* redis: the members of the queue's sorted set
  handlers,  \* the workers that have a handler for the type of the jobs
  client,    \* client[j]: where the client's Enqueue of job j stands
  loop,      \* loop[w]: where the loop of Start stands
  fetched,   \* fetched[w]: the job in the loop's hands, with Retried as read
  phase,     \* phase[g]: where goroutine g stands in processJob
  job,       \* job[g]: the job it processes, likewise
  seen,      \* seen[g]: Retried as updateStatus read it back
  tries,     \* tries[g]: attempts of markDoneWithRetry that failed
  closed,    \* worker.closed
  cancelled, \* the context given to Start is done
  sends,     \* sends[j]: Enqueues that wrote the data of job j (history)
  attempts,  \* attempts[j]: handler calls of job j (history)
  undone,    \* undone[j]: what stale claims took off its retry counter (history)
  faults     \* faults that have happened

storeVars  == <<store, status, retried, zset>>
loopVars   == <<loop, fetched>>
slotVars   == <<phase, job, seen, tries>>
endVars    == <<handlers, closed, cancelled>>
histVars   == <<sends, attempts, undone, faults>>
vars       == <<storeVars, client, loopVars, slotVars, endVars, histVars>>

Slots   == Workers \X (1 .. Concurrency)
Settled == {"done", "dead", "failed"}    \* "done": the stored job was deleted
Copy    == [id : Jobs \cup {NoJob}, retried : Nat]
Nothing == [id |-> NoJob, retried |-> 0]

LoopState == {"off", "check", "fetch", "claim", "slot", "poll", "drain", "returned", "dead"}
Phase     == {"free", "mark", "marking", "run", "unhandled", "failing",
              "requeue", "requeuing", "bury", "burying", "done"}

TypeOK ==
  /\ store \in {"database", "redis"}
  /\ status \in [Jobs -> {"none", "pending", "running"} \cup Settled]
  /\ retried \in [Jobs -> Nat]
  /\ zset \subseteq Jobs /\ (store = "database" => zset = {})
  /\ client \in [Jobs -> {"new", "set", "sent", "error"}]
  /\ loop \in [Workers -> LoopState]
  /\ fetched \in [Workers -> Copy]
  /\ phase \in [Slots -> Phase]
  /\ job \in [Slots -> Copy]
  /\ seen \in [Slots -> Nat]
  /\ tries \in [Slots -> 0 .. 2]
  /\ handlers \subseteq Workers
  /\ closed \in [Workers -> BOOLEAN] /\ cancelled \in [Workers -> BOOLEAN]
  /\ sends \in [Jobs -> Nat] /\ attempts \in [Jobs -> Nat] /\ undone \in [Jobs -> Nat]
  /\ faults \in 0 .. MaxFaults
  /\ \A w \in Workers : loop[w] \in {"claim", "slot"} <=> fetched[w] # Nothing
  /\ \A g \in Slots : phase[g] # "free" <=> job[g] # Nothing

Init ==
  /\ store \in {"database", "redis"}
  /\ status = [j \in Jobs |-> "none"]
  /\ retried = [j \in Jobs |-> 0]
  /\ zset = {}
  /\ client = [j \in Jobs |-> "new"]
  /\ loop = [w \in Workers |-> "off"]
  /\ fetched = [w \in Workers |-> Nothing]
  /\ phase = [g \in Slots |-> "free"]
  /\ job = [g \in Slots |-> Nothing]
  /\ seen = [g \in Slots |-> 0]
  /\ tries = [g \in Slots |-> 0]
  /\ handlers = {}
  /\ closed = [w \in Workers |-> FALSE]
  /\ cancelled = [w \in Workers |-> FALSE]
  /\ sends = [j \in Jobs |-> 0]
  /\ attempts = [j \in Jobs |-> 0]
  /\ undone = [j \in Jobs |-> 0]
  /\ faults = 0

(* How a call to the store may end: it did its work; it did nothing and      *)
(* returned an error; it did its work and the answer was lost.  A call with  *)
(* a cancelled context fails without any fault.                              *)
MayFail(f) == f \in Faults /\ faults < MaxFaults

Outcomes(cancel) ==
  (IF cancel THEN {} ELSE {"ok"})
    \cup (IF cancel \/ MayFail("call") THEN {"error", "lost"} ELSE {})

Charge(outcome, cancel) ==
  faults' = IF outcome = "ok" \/ cancel THEN faults ELSE faults + 1

(* A takeable job.                                                           *)
Waiting(j) == IF store = "redis" THEN j \in zset ELSE status[j] = "pending"

-----------------------------------------------------------------------------
(* The client.  Enqueue puts the new ID into the caller's *Job, so a caller  *)
(* that tries again after an error enqueues the same job.                    *)

Sent(j) == sends' = [sends EXCEPT ![j] = @ + 1]

(* database: INSERT; the id is the primary key.                              *)
EnqueueRow(j) ==
  /\ store = "database" /\ client[j] \in {"new", "error"}
  /\ status[j] \in {"none", "done"}
  /\ \E outcome \in Outcomes(FALSE) :
       /\ client' = [client EXCEPT ![j] = IF outcome = "ok" THEN "sent" ELSE "error"]
       /\ IF outcome = "error"
            THEN UNCHANGED <<status, retried, sends>>
            ELSE /\ status' = [status EXCEPT ![j] = "pending"]
                 /\ retried' = [retried EXCEPT ![j] = 0]
                 /\ Sent(j)
       /\ Charge(outcome, FALSE)
  /\ UNCHANGED <<store, zset, loopVars, slotVars, endVars, attempts, undone>>

(* redis: SET of the job's data ...                                          *)
EnqueueData(j) ==
  /\ store = "redis" /\ client[j] \in {"new", "error"}
  /\ \E outcome \in Outcomes(FALSE) :
       /\ client' = [client EXCEPT ![j] = IF outcome = "ok" THEN "set" ELSE "error"]
       /\ IF outcome = "error"
            THEN UNCHANGED <<status, retried, sends>>
            ELSE /\ status' = [status EXCEPT ![j] = "pending"]
                 /\ retried' = [retried EXCEPT ![j] = 0]
                 /\ Sent(j)
       /\ Charge(outcome, FALSE)
  /\ UNCHANGED <<store, zset, loopVars, slotVars, endVars, attempts, undone>>

(* ... and ZADD of its id.                                                   *)
EnqueueId(j) ==
  /\ client[j] = "set"
  /\ \E outcome \in Outcomes(FALSE) :
       /\ client' = [client EXCEPT ![j] = IF outcome = "ok" THEN "sent" ELSE "error"]
       /\ zset' = IF outcome = "error" THEN zset ELSE zset \cup {j}
       /\ Charge(outcome, FALSE)
  /\ UNCHANGED <<store, status, retried, loopVars, slotVars, endVars, sends, attempts, undone>>

-----------------------------------------------------------------------------
(* The loop of Start.                                                        *)

(* Any time, a running worker included.                                      *)
Register(w) ==
  /\ handlers' = handlers \cup {w}
  /\ UNCHANGED <<storeVars, client, loopVars, slotVars, closed, cancelled, histVars>>

LoopMoves(w, from, to) == loop[w] = from /\ loop' = [loop EXCEPT ![w] = to]

Start(w) ==
  /\ LoopMoves(w, "off", "check")
  /\ UNCHANGED <<storeVars, client, fetched, slotVars, endVars, histVars>>

(* mutant: the closed flag is not looked at *)
OnlyCancelled(w) == cancelled[w]

Ending(w) == cancelled[w] \/ closed[w]

Check(w) ==
  /\ LoopMoves(w, "check", IF Ending(w) THEN "drain" ELSE "fetch")
  /\ UNCHANGED <<storeVars, client, fetched, slotVars, endVars, histVars>>

(* Dequeue found nothing, or failed: fetchJob returns nil.                   *)
FetchNothing(w) ==
  /\ \/ /\ \A j \in Jobs : ~ Waiting(j)
        /\ UNCHANGED faults
     \/ /\ "error" \in Outcomes(cancelled[w])
        /\ Charge("error", cancelled[w])
  /\ LoopMoves(w, "fetch", "poll")
  /\ UNCHANGED <<storeVars, client, fetched, slotVars, endVars, sends, attempts, undone>>

Holds(w, j) == fetched' = [fetched EXCEPT ![w] = [id |-> j, retried |-> retried[j]]]
HoldsNothing(w) == fetched' = [fetched EXCEPT ![w] = Nothing]

(* database: SELECT of a pending row.                                        *)
SelectRow(w) ==
  /\ store = "database" /\ ~ cancelled[w]
  /\ LoopMoves(w, "fetch", "claim")
  /\ \E j \in Jobs : Waiting(j) /\ Holds(w, j)
  /\ UNCHANGED <<storeVars, client, slotVars, endVars, histVars>>

Behind(m, n) == IF m < n THEN n - m ELSE 0

(* mutant: UPDATE ... WHERE id = ? *)
ClaimsAnything(j) == status[j] # "done"

(* UPDATE ... WHERE id = ? AND status = 'pending'                            *)
Claimable(j) == status[j] = "pending"

(* database: the conditional UPDATE; any error means that no row was         *)
(* affected.  What is returned is the row as it was selected.                *)
ClaimRow(w) ==
  LET j == fetched[w].id IN
  /\ store = "database" /\ loop[w] = "claim"
  /\ \E outcome \in Outcomes(cancelled[w]) :
       /\ status' = IF Claimable(j) /\ outcome # "error"
                      THEN [status EXCEPT ![j] = "running"] ELSE status
       /\ IF Claimable(j) /\ outcome = "ok"
            THEN /\ LoopMoves(w, "claim", "slot")
                 /\ undone' = [undone EXCEPT ![j] = @ + Behind(fetched[w].retried, retried[j])]
                 /\ UNCHANGED fetched
            ELSE /\ LoopMoves(w, "claim", "poll")
                 /\ HoldsNothing(w)
                 /\ UNCHANGED undone
       /\ Charge(outcome, cancelled[w])
  /\ UNCHANGED <<store, retried, zset, client, slotVars, endVars, sends, attempts>>

(* redis: the script takes an id out of the sorted set.                      *)
PopId(w) ==
  /\ store = "redis"
  /\ \E j \in zset : \E outcome \in Outcomes(cancelled[w]) \ {"error"} :
       /\ zset' = zset \ {j}
       /\ IF outcome = "ok"
            THEN LoopMoves(w, "fetch", "claim") /\ Holds(w, j)
            ELSE LoopMoves(w, "fetch", "poll") /\ UNCHANGED fetched
       /\ Charge(outcome, cancelled[w])
  /\ UNCHANGED <<store, status, retried, client, slotVars, endVars, sends, attempts, undone>>

(* redis: GET of the job's data; if it fails the id is gone all the same.    *)
ReadData(w) ==
  LET j == fetched[w].id IN
  /\ store = "redis" /\ loop[w] = "claim"
  /\ \E outcome \in Outcomes(cancelled[w]) \ {"lost"} :
       /\ IF outcome = "ok" /\ status[j] # "done"
            THEN LoopMoves(w, "claim", "slot") /\ Holds(w, j)
            ELSE LoopMoves(w, "claim", "poll") /\ HoldsNothing(w)
       /\ Charge(outcome, cancelled[w])
  /\ UNCHANGED <<storeVars, client, slotVars, endVars, sends, attempts, undone>>

(* A goroutine gets a place in sem, and the job.                             *)
Spawns(w) ==
  \E g \in Slots :
    /\ g[1] = w /\ phase[g] = "free"
    /\ phase' = [phase EXCEPT ![g] = "mark"]
    /\ job' = [job EXCEPT ![g] = fetched[w]]

Dispatch(w) ==
  /\ LoopMoves(w, "slot", "check")
  /\ Spawns(w)
  /\ HoldsNothing(w)
  /\ UNCHANGED <<storeVars, client, seen, tries, endVars, histVars>>

(* The poll timer fires, or the context ends.  Close does not wake a poll.   *)
PollEnds(w) ==
  /\ \/ LoopMoves(w, "poll", "check")
     \/ cancelled[w] /\ LoopMoves(w, "poll", "drain")
  /\ UNCHANGED <<storeVars, client, fetched, slotVars, endVars, histVars>>

(* wg.Wait, and Start returns nil.                                           *)
Return(w) ==
  /\ \A g \in Slots : g[1] = w => phase[g] = "free"
  /\ LoopMoves(w, "drain", "returned")
  /\ UNCHANGED <<storeVars, client, fetched, slotVars, endVars, histVars>>

-----------------------------------------------------------------------------
(* processJob, in goroutine g of worker g[1].                                *)

Ends(g) == Outcomes(cancelled[g[1]])
Charged(g, outcome) == Charge(outcome, cancelled[g[1]])

Frees(g) ==
  /\ phase' = [phase EXCEPT ![g] = "free"]
  /\ job' = [job EXCEPT ![g] = Nothing]
  /\ seen' = [seen EXCEPT ![g] = 0]
  /\ tries' = [tries EXCEPT ![g] = 0]

GoesOn(g, p) == phase' = [phase EXCEPT ![g] = p] /\ UNCHANGED <<job, seen, tries>>

(* redis: updateStatus and MarkDead read the job's data and write it back.  *)
Reading == [mark |-> "marking", unhandled |-> "failing", bury |-> "burying"]

ReadBack(g) ==
  LET j == job[g].id IN
  /\ store = "redis" /\ phase[g] \in DOMAIN Reading
  /\ \E outcome \in Ends(g) \ {"lost"} :
       /\ IF outcome = "ok" /\ status[j] # "done"
            THEN /\ phase' = [phase EXCEPT ![g] = Reading[phase[g]]]
                 /\ seen' = [seen EXCEPT ![g] = retried[j]]
                 /\ UNCHANGED <<job, tries>>
            ELSE Frees(g)
       /\ Charged(g, outcome)
  /\ UNCHANGED <<storeVars, client, loopVars, endVars, sends, attempts, undone>>

(* The write: in the database an UPDATE of the status alone, which does not  *)
(* notice a deleted row; in redis a SET of all that was read.                *)
At(g, p) == phase[g] = IF store = "redis" THEN Reading[p] ELSE p

Writes(g, s, r, outcome) ==
  LET j == job[g].id IN
  IF outcome = "error" \/ (store = "database" /\ status[j] = "done")
    THEN UNCHANGED <<status, retried>>
    ELSE /\ status' = [status EXCEPT ![j] = s]
         /\ retried' = [retried EXCEPT ![j] = r]

ReadValue(g) == IF store = "redis" THEN seen[g] ELSE retried[job[g].id]

(* MarkRunning; on an error the job is given up.  Then the handler is called *)
(* if there is one.                                                          *)
MarkRunning(g) ==
  LET j == job[g].id IN
  /\ At(g, "mark")
  /\ \E outcome \in Ends(g) :
       /\ Writes(g, "running", ReadValue(g), outcome)
       /\ \/ outcome # "ok" /\ Frees(g) /\ UNCHANGED attempts
          \/ outcome = "ok" /\ g[1] \notin handlers /\ GoesOn(g, "unhandled") /\ UNCHANGED attempts
          \/ /\ outcome = "ok" /\ g[1] \in handlers
             /\ GoesOn(g, "run")
             /\ attempts' = [attempts EXCEPT ![j] = @ + 1]
       /\ Charged(g, outcome)
  /\ UNCHANGED <<store, zset, client, loopVars, endVars, sends, undone>>

(* MarkFailed with ErrNoHandler: an error is logged.                        *)
MarkFailed(g) ==
  /\ At(g, "unhandled")
  /\ \E outcome \in Ends(g) :
       /\ Writes(g, "failed", ReadValue(g), outcome)
       /\ Charged(g, outcome)
  /\ Frees(g)
  /\ UNCHANGED <<store, zset, client, loopVars, endVars, sends, attempts, undone>>

Succeeds(g) ==
  /\ phase[g] = "run"
  /\ GoesOn(g, "done")
  /\ UNCHANGED <<storeVars, client, loopVars, endVars, histVars>>

(* mutant: one attempt more than MaxRetries *)
ExhaustedLate(n) == n > MaxRetries

(* job.Retried >= job.MaxRetries                                             *)
Exhausted(n) == n >= MaxRetries

(* The handler returned an error, or panicked: nothing here recovers, but    *)
(* that is the fault "crash".                                                *)
HandlerFails(g) ==
  LET n == job[g].retried + 1 IN
  /\ phase[g] = "run" /\ attempts[job[g].id] < MaxAttempts
  /\ job' = [job EXCEPT ![g] = [id |-> @.id, retried |-> n]]
  /\ phase' = [phase EXCEPT ![g] = IF Exhausted(n) THEN "bury" ELSE "requeue"]
  /\ UNCHANGED <<storeVars, client, loopVars, seen, tries, endVars, histVars>>

MarkDead(g) ==
  /\ At(g, "bury")
  /\ \E outcome \in Ends(g) :
       /\ Writes(g, "dead", ReadValue(g), outcome)
       /\ Charged(g, outcome)
  /\ Frees(g)
  /\ UNCHANGED <<store, zset, client, loopVars, endVars, sends, attempts, undone>>

(* Requeue: in the database one UPDATE ...                                   *)
Requeue(g) ==
  /\ phase[g] = "requeue"
  /\ \E outcome \in Ends(g) :
       /\ Writes(g, "pending", job[g].retried, outcome)
       /\ IF store = "redis" /\ outcome = "ok" THEN GoesOn(g, "requeuing") ELSE Frees(g)
       /\ Charged(g, outcome)
  /\ UNCHANGED <<store, zset, client, loopVars, endVars, sends, attempts, undone>>

(* mutant: the data is written, and the id not put back *)
NotRequeued(j) == zset

Requeued(j) == zset \cup {j}

(* ... in redis SET and then ZADD.                                           *)
RequeueId(g) ==
  /\ phase[g] = "requeuing"
  /\ \E outcome \in Ends(g) :
       /\ zset' = IF outcome = "error" THEN zset ELSE Requeued(job[g].id)
       /\ Charged(g, outcome)
  /\ Frees(g)
  /\ UNCHANGED <<store, status, retried, client, loopVars, endVars, sends, attempts, undone>>

(* Whether the attempt after n failed ones is the last.                      *)
LastTry(n) == n = 2

(* markDoneWithRetry; the redis store does not report errors.                *)
MarkDone(g) ==
  /\ phase[g] = "done"
  /\ \E outcome \in Ends(g) :
       /\ status' = IF outcome = "error" THEN status
                    ELSE [status EXCEPT ![job[g].id] = "done"]
       /\ IF outcome = "ok" \/ store = "redis" \/ LastTry(tries[g])
            THEN Frees(g)
            ELSE tries' = [tries EXCEPT ![g] = @ + 1] /\ UNCHANGED <<phase, job, seen>>
       /\ Charged(g, outcome)
  /\ UNCHANGED <<store, retried, zset, client, loopVars, endVars, sends, attempts, undone>>

-----------------------------------------------------------------------------
(* The end of a worker; after it neither call has an effect.                 *)
Over(w) == loop[w] \in {"returned", "dead"}

Close(w) ==
  /\ w \in Closable /\ ~ Over(w)
  /\ closed' = [closed EXCEPT ![w] = TRUE]
  /\ UNCHANGED <<storeVars, client, loopVars, slotVars, handlers, cancelled, histVars>>

Cancel(w) ==
  /\ w \in Cancellable /\ ~ Over(w)
  /\ cancelled' = [cancelled EXCEPT ![w] = TRUE]
  /\ UNCHANGED <<storeVars, client, loopVars, slotVars, handlers, closed, histVars>>

(* The process dies with all its goroutines.                                 *)
Crash(w) ==
  LET mine(g) == g[1] = w IN
  /\ MayFail("crash") /\ loop[w] # "off" /\ ~ Over(w)
  /\ loop' = [loop EXCEPT ![w] = "dead"]
  /\ HoldsNothing(w)
  /\ phase' = [g \in Slots |-> IF mine(g) THEN "free" ELSE phase[g]]
  /\ job' = [g \in Slots |-> IF mine(g) THEN Nothing ELSE job[g]]
  /\ seen' = [g \in Slots |-> IF mine(g) THEN 0 ELSE seen[g]]
  /\ tries' = [g \in Slots |-> IF mine(g) THEN 0 ELSE tries[g]]
  /\ faults' = faults + 1
  /\ UNCHANGED <<storeVars, client, endVars, sends, attempts, undone>>

-----------------------------------------------------------------------------
ClientStep(j) == EnqueueRow(j) \/ EnqueueData(j) \/ EnqueueId(j)

LoopStep(w) ==
  \/ Check(w) \/ FetchNothing(w) \/ SelectRow(w) \/ ClaimRow(w) \/ PopId(w) \/ ReadData(w)
  \/ Dispatch(w) \/ PollEnds(w) \/ Return(w)

JobStep(g) ==
  \/ ReadBack(g) \/ MarkRunning(g) \/ MarkFailed(g) \/ Succeeds(g) \/ HandlerFails(g)
  \/ MarkDead(g) \/ Requeue(g) \/ RequeueId(g) \/ MarkDone(g)

Next ==
  \/ \E j \in Jobs : ClientStep(j)
  \/ \E w \in Workers : Register(w) \/ Start(w) \/ LoopStep(w) \/ Close(w) \/ Cancel(w) \/ Crash(w)
  \/ \E g \in Slots : JobStep(g)

Spec == Init /\ [][Next]_vars

(* Goroutines are scheduled, timers fire, handlers return.                  *)
Fairness ==
  /\ \A w \in Workers : WF_vars(LoopStep(w))
  /\ \A g \in Slots : WF_vars(JobStep(g))

LiveSpec == Spec /\ Fairness

-----------------------------------------------------------------------------
(* Safety.                                                                   *)

(* Whoever has taken job j and not yet given it back or settled it.          *)
Owners(j) ==
  {w \in Workers : fetched[w].id = j /\ (store = "redis" \/ loop[w] = "slot")}
    \cup {g \in Slots : job[g].id = j}

(* A job is in one pair of hands, however many workers poll the queue and    *)
(* whatever fails: as many as there were Enqueues that took effect.          *)
SoleOwner == \A j \in Jobs : Cardinality(Owners(j)) <= sends[j]

(* A job enqueued once is executed at most MaxRetries times (and once if     *)
(* that is 0), plus what workers with an outdated copy of its row took off   *)
(* its counter: ClaimRow hands out the row as it was selected.               *)
Budget == IF MaxRetries = 0 THEN 1 ELSE MaxRetries

AttemptsBounded ==
  \A j \in Jobs : sends[j] = 1 => attempts[j] <= Budget + undone[j]

(* Nor is it given up early: a dead job has used up its retries.             *)
DeadIsPaid ==
  \A j \in Jobs : sends[j] = 1 /\ status[j] = "dead" => attempts[j] >= Budget

(* The retries are used up, and no more than those.                          *)
RetriesSpent == AttemptsBounded /\ DeadIsPaid

(* A job that was enqueued once and is done, dead or failed stays so, and    *)
(* its handler is not called again.                                          *)
SettledForGood ==
  [][\A j \in Jobs : sends[j] = 1 /\ sends'[j] = 1 /\ status[j] \in Settled
       => status'[j] = status[j] /\ attempts'[j] = attempts[j]]_vars

(* As long as no call fails, no process dies and no context is cancelled,    *)
(* every job is in the queue, in somebody's hands or settled: Close in the   *)
(* middle of a fetch, and workers racing for a row, drop nothing.            *)
Calm == faults = 0 /\ \A w \in Workers : ~ cancelled[w]

NothingStuck ==
  Calm => \A j \in Jobs : client[j] = "sent" =>
            Waiting(j) \/ Owners(j) # {} \/ status[j] \in Settled

(* Every job is accounted for: never in two pairs of hands, never in none.   *)
Accounted == SoleOwner /\ NothingStuck

-----------------------------------------------------------------------------
(* Liveness.                                                                 *)

Serving(w) == loop[w] # "off" /\ ~ Over(w) /\ ~ closed[w] /\ ~ cancelled[w]

(* Under the same condition, and with a worker that stays, every job is      *)
(* settled.                                                                  *)
EveryJobEnds ==
  []Calm /\ <>[](\E w \in Workers : Serving(w)) =>
    \A j \in Jobs : client[j] = "sent" ~> status[j] \in Settled

(* A worker that was closed, or whose context was cancelled, returns.        *)
StartReturns ==
  \A w \in Workers :
    (loop[w] # "off" /\ (closed[w] \/ cancelled[w])) ~> loop[w] \in {"returned", "dead"}
=============================================================================
