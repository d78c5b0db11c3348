--------------------------- MODULE SchedulerProofs ----------------------------
(* Theorems about the scheduler: first SchedulerCluster, for any processes,  *)
(* runs and settings, then CronScheduler, for any number of jobs, ticks,     *)
(* triggers, tasks and starts.  Only StoppedIsSilent needs that Stop is      *)
(* called by one goroutine.                                                  *)
EXTENDS SchedulerCluster, CronScheduler, FiniteSetTheorems, TLAPS

(* The ttl covers every attempt the job may need.                            *)
Fits ==
  /\ Obedient
  /\ MaxAttempts * Timeout + RetryCount * Interval < TTL

USE ProcOfAssumption, NoOneAssumption, BooleansAssumption

LEMMA Times ==
  /\ RetryCount \in Nat /\ Timeout \in Nat /\ Interval \in Nat /\ LockTTL \in Nat
  /\ MaxErrors \in Nat /\ TTL \in Nat /\ MaxAttempts \in Nat
BY TimesAssumption DEF TTL, MaxAttempts

LEMMA Monotone ==
  ASSUME NEW a \in Nat, NEW m \in Nat, NEW t \in Nat, a <= m
  PROVE  a * t <= m * t
<1>1. PICK d \in Nat : m = a + d
  <2>1. m - a \in Nat /\ m = a + (m - a)
    OBVIOUS
  <2> QED BY <2>1
<1>2. m * t = a * t + d * t /\ a * t \in Nat /\ d * t \in Nat
  BY <1>1
<1> QED BY <1>2

(* What executeJob does with the lock: where a run stands says where it is   *)
(* in the lock.                                                              *)
LockedWhere ==
  \A r \in Runs :
    /\ pc[r] \in {"none", "locking"} => at[r] \in {"idle", "dead"}
    /\ pc[r] = "counting" => at[r] = "taken"
    /\ pc[r] \in {"hooks", "work"} => at[r] = "inside"
    /\ pc[r] = "release" => at[r] \in {"inside", "unlock", "uncount"}

LEMMA TypeStep == TypeOK /\ LockedWhere /\ [Next]_vars => TypeOK' /\ LockedWhere'
<1> SUFFICES ASSUME TypeOK, LockedWhere, [Next]_vars PROVE TypeOK' /\ LockedWhere'
  OBVIOUS
<1> USE Times DEF TypeOK, LockedWhere, Lock!TypeOK, Lock!Phase, MovesTo, Lock!MovesTo
<1>1. CASE UNCHANGED vars
  BY <1>1 DEF vars, lockVars
<1>2. CASE LockExpires
  <2>1. lapses' \in [Procs -> Nat]
    BY <1>2 DEF LockExpires, Lock!Lapse, Lock!Goes, Lock!Busy
  <2> QED BY <1>2, <2>1 DEF LockExpires, Lock!Lapse, Lock!Goes
<1>3. ASSUME NEW p \in Procs, Crash(p) PROVE TypeOK' /\ LockedWhere'
  <2>1. TypeOK'
    BY <1>3 DEF Crash, Lock!Crash
  <2>2. LockedWhere'
    BY <1>3 DEF Crash, Lock!Crash
  <2> QED BY <2>1, <2>2
<1>4. ASSUME NEW r \in Runs, RunStep(r) PROVE TypeOK' /\ LockedWhere'
  <2> USE DEF Finish, Stay
  <2>1. CASE Begin(r)
    BY <2>1 DEF Begin, lockVars
  <2>2. CASE Acquire(r)
    <3>1. CASE at'[r] = "taken"
      BY <2>2, <3>1 DEF Acquire, Lock!TryLock, Lock!Acquires, Lock!TryFails, Lock!Fails, Lock!Answers
    <3>2. CASE at'[r] # "taken"
      BY <2>2, <3>2 DEF Acquire, Lock!TryLock, Lock!Acquires, Lock!TryFails, Lock!Fails, Lock!Answers
    <3> QED BY <3>1, <3>2
  <2>3. CASE Skip(r)
    BY <2>3 DEF Skip, lockVars
  <2>4. CASE Acquired(r)
    BY <2>4 DEF Acquired, Lock!Count
  <2>5. CASE BeforeHooks(r)
    BY <2>5 DEF BeforeHooks, lockVars, MaxAttempts
  <2>6. CASE Retry(r)
    BY <2>6 DEF Retry, TriesLeft, lockVars
  <2>7. CASE WorkEnds(r)
    BY <2>7 DEF WorkEnds, lockVars
  <2>8. CASE Release(r)
    <3>1. CASE Lock!Unlock(r)
      BY <2>8, <3>1 DEF Release, Lock!Unlock
    <3>2. CASE Lock!UnlockRuns(r)
      BY <2>8, <3>2 DEF Release, Lock!UnlockRuns, Lock!Delete, Lock!Fails, Lock!Answers
    <3>3. CASE Lock!Uncount(r)
      BY <2>8, <3>3 DEF Release, Lock!Uncount, Lock!Decremented
    <3> QED BY <2>8, <3>1, <3>2, <3>3 DEF Release
  <2> QED BY <1>4, <2>1, <2>2, <2>3, <2>4, <2>5, <2>6, <2>7, <2>8 DEF RunStep
<1> QED BY <1>1, <1>2, <1>3, <1>4 DEF Next

LEMMA TypeInit == Init => TypeOK /\ LockedWhere
BY Times DEF Init, TypeOK, LockedWhere, Lock!Init, Lock!TypeOK, Lock!Phase

(* Types, and at most MaxAttempts attempts: TypeOK holds always.             *)
THEOREM TypeCorrect == Spec => []TypeOK
<1>1. TypeOK /\ LockedWhere /\ [Next]_vars => TypeOK' /\ LockedWhere'
  BY TypeStep
<1> QED BY <1>1, TypeInit, PTL DEF Spec

-----------------------------------------------------------------------------
LEMMA NeverOutlived ==
  ASSUME Fits, TypeOK, NEW r \in Runs
  PROVE  ~ Outlived(r)
<1> USE Times DEF Fits
<1>1. attempt[r] \in Nat /\ attempt[r] <= MaxAttempts
  BY DEF TypeOK
<1>2. CASE attempt[r] = 0
  BY <1>2 DEF Outlived, Spent
<1>3. CASE attempt[r] # 0
  <2>1. attempt[r] * Timeout <= MaxAttempts * Timeout
    BY <1>1, Monotone
  <2>2. attempt[r] - 1 \in Nat /\ attempt[r] - 1 <= RetryCount
    BY <1>1, <1>3 DEF MaxAttempts
  <2>3. (attempt[r] - 1) * Interval <= RetryCount * Interval
    BY <2>2, Monotone
  <2> QED BY <1>1, <1>3, <2>1, <2>2, <2>3 DEF Outlived, Spent
<1> QED BY <1>2, <1>3

(* The scheduler keeps to the rules of the lock: every step of a process is  *)
(* one the lock's specification allows, and when the attempts fit into the   *)
(* ttl, the entry never expires under a run.                                 *)
THEOREM SchedulerUsesLock ==
  ASSUME Fits
  PROVE  Spec => UsesLock
<1>1. Init => Lock!Init
  BY DEF Init
<1>2. TypeOK /\ [Next]_vars => [Lock!Next]_lockVars
  <2> SUFFICES ASSUME TypeOK, [Next]_vars PROVE [Lock!Next]_lockVars
    OBVIOUS
  <2>1. CASE UNCHANGED vars
    BY <2>1 DEF vars
  <2>2. CASE LockExpires
    <3>1. Lock!Busy => taker \in Runs
      BY DEF Lock!Busy, TypeOK, Lock!TypeOK
    <3>2. ~ Lock!Busy
      BY <2>2, <3>1, NeverOutlived DEF LockExpires
    <3> QED BY <2>2, <3>2 DEF LockExpires, Lock!Next, Lock!Expire
  <2>3. ASSUME NEW p \in Procs, Crash(p) PROVE [Lock!Next]_lockVars
    BY <2>3 DEF Crash, Lock!Next
  <2>4. ASSUME NEW r \in Runs, RunStep(r) PROVE [Lock!Next]_lockVars
    BY <2>4 DEF RunStep, Begin, Acquire, Skip, Acquired, BeforeHooks, Retry, WorkEnds,
                Release, Lock!Next, Lock!CallerStep
  <2> QED BY <2>1, <2>2, <2>3, <2>4 DEF Next
<1>3. Spec => []TypeOK
  BY TypeCorrect
<1> QED BY <1>1, <1>2, <1>3, PTL DEF Spec, UsesLock, Lock!Spec, lockVars, Lock!vars
-----------------------------------------------------------------------------
(* The run that has the lock is the one that wrote the entry.                *)
TakerRuns == \A r \in Runs : at[r] \in Lock!Holding => taker = r

LEMMA TakerStep ==
  ASSUME Fits, TypeOK, LockedWhere, TakerRuns, [Next]_vars
  PROVE  TakerRuns'
<1> USE DEF TypeOK, Lock!TypeOK, Lock!Phase, TakerRuns, Lock!Holding, Lock!MovesTo
<1>1. CASE UNCHANGED vars
  BY <1>1 DEF vars, lockVars
<1>2. CASE LockExpires
  <2>1. Lock!Busy => taker \in Runs
    BY DEF Lock!Busy
  <2>2. ~ Lock!Busy
    BY <1>2, <2>1, NeverOutlived DEF LockExpires
  <2> QED BY <1>2, <2>2 DEF LockExpires, Lock!Lapse, Lock!Goes, Lock!Busy
<1>3. ASSUME NEW p \in Procs, Crash(p) PROVE TakerRuns'
  BY <1>3 DEF Crash, Lock!Crash
<1>4. ASSUME NEW r \in Runs, RunStep(r) PROVE TakerRuns'
  <2>1. CASE Begin(r) \/ Skip(r) \/ BeforeHooks(r) \/ Retry(r) \/ WorkEnds(r)
    BY <2>1 DEF Begin, Skip, BeforeHooks, Retry, WorkEnds, lockVars
  <2>2. CASE Acquire(r)
    BY <2>2 DEF Acquire, Lock!TryLock, Lock!Acquires, Lock!TryFails
  <2>3. CASE Acquired(r)
    BY <2>3 DEF Acquired, Lock!Count
  <2>4. CASE Release(r)
    <3>1. CASE Lock!Unlock(r)
      BY <2>4, <3>1 DEF Release, Lock!Unlock, LockedWhere
    <3>2. CASE Lock!UnlockRuns(r)
      BY <3>2 DEF Lock!UnlockRuns, Lock!Delete
    <3>3. CASE Lock!Uncount(r)
      BY <3>3 DEF Lock!Uncount
    <3> QED BY <2>4, <3>1, <3>2, <3>3 DEF Release
  <2> QED BY <1>4, <2>1, <2>2, <2>3, <2>4 DEF RunStep
<1> QED BY <1>1, <1>2, <1>3, <1>4 DEF Next

(* When the attempts fit into the ttl and handlers obey their context, one   *)
(* process at a time executes the job, whatever commands fail and whoever    *)
(* dies.                                                                     *)
THEOREM OneInstanceCorrect ==
  ASSUME Fits
  PROVE  Spec => []OneInstance
<1>1. Init => TypeOK /\ LockedWhere /\ TakerRuns
  BY TypeInit DEF Init, Lock!Init, TakerRuns, Lock!Holding
<1>2. TypeOK /\ LockedWhere /\ TakerRuns /\ [Next]_vars
        => TypeOK' /\ LockedWhere' /\ TakerRuns'
  BY TypeStep, TakerStep
<1>3. LockedWhere /\ TakerRuns => OneInstance
  BY DEF LockedWhere, TakerRuns, OneInstance, Lock!Holding
<1> QED BY <1>1, <1>2, <1>3, PTL DEF Spec

-----------------------------------------------------------------------------
(* The local guard, without counting.                                        *)
Marked ==
  Singleton =>
    /\ \A r \in Runs : pc[r] # "none" => state[ProcOf[r]] = "running"
    /\ \A r, s \in Runs :
         pc[r] # "none" /\ pc[s] # "none" /\ ProcOf[r] = ProcOf[s] => r = s
    /\ \A p \in Procs : state[p] = "running" =>
         \E r \in Runs : ProcOf[r] = p /\ pc[r] # "none"

LEMMA MarkedStep ==
  ASSUME TypeOK, LockedWhere, Marked, [Next]_vars
  PROVE  Marked'
<1> SUFFICES ASSUME Singleton PROVE Marked'
  BY DEF Marked
<1> USE DEF TypeOK, Marked, MovesTo
<1> DEFINE Ends(r) == pc[r] # "none" /\ Finish(r)
           Goes(r) == /\ pc[r] # "none" /\ state' = state
                      /\ \E q \in {"locking", "counting", "hooks", "work", "release"} :
                           pc' = [pc EXCEPT ![r] = q]
<1>1. ASSUME NEW r \in Runs, Ends(r) PROVE Marked'
  BY <1>1 DEF Finish
<1>2. ASSUME NEW r \in Runs, Goes(r) PROVE Marked'
  BY <1>2
<1>3. CASE pc' = pc /\ state' = state
  BY <1>3
<1>4. ASSUME NEW p \in Procs, Crash(p) PROVE Marked'
  BY <1>4 DEF Crash
<1>5. ASSUME NEW r \in Runs, Begin(r) PROVE Marked'
  BY <1>5 DEF Begin, TryStart
<1>6. ASSUME NEW r \in Runs, RunStep(r) PROVE Marked'
  <2>1. CASE Acquire(r)
    BY <2>1, <1>1, <1>2 DEF Acquire, Stay
  <2>2. CASE Skip(r)
    BY <2>2, <1>1 DEF Skip
  <2>3. CASE Acquired(r)
    BY <2>3, <1>2 DEF Acquired, Stay
  <2>4. CASE BeforeHooks(r)
    BY <2>4, <1>2 DEF BeforeHooks
  <2>5. CASE Retry(r)
    BY <2>5, <1>3 DEF Retry
  <2>6. CASE WorkEnds(r)
    BY <2>6, <1>2 DEF WorkEnds, Stay
  <2>7. CASE Release(r)
    BY <2>7, <1>1, <1>3 DEF Release, Stay
  <2> QED BY <1>5, <1>6, <2>1, <2>2, <2>3, <2>4, <2>5, <2>6, <2>7 DEF RunStep
<1>7. CASE UNCHANGED vars \/ LockExpires
  BY <1>3, <1>7 DEF vars, LockExpires
<1> QED BY <1>4, <1>6, <1>7 DEF Next

(* A Singleton job is marked as running exactly while one run of it is under *)
(* way in the process, even if the lock fails or expires under it.           *)
THEOREM SingletonCorrect == Spec => []SingletonKept
<1>1. Init => Marked
  BY DEF Init, Marked
<1>2. TypeOK /\ LockedWhere /\ Marked /\ [Next]_vars => TypeOK' /\ LockedWhere' /\ Marked'
  BY TypeStep, MarkedStep
<1>3. TypeOK /\ Marked => SingletonKept
  <2> SUFFICES ASSUME TypeOK, Marked, Singleton, NEW p \in Procs
               PROVE  Cardinality({r \in Runs : ProcOf[r] = p /\ pc[r] # "none"})
                        = IF state[p] = "running" THEN 1 ELSE 0
    BY DEF SingletonKept
  <2> DEFINE S == {r \in Runs : ProcOf[r] = p /\ pc[r] # "none"}
  <2>1. CASE state[p] = "running"
    <3>1. PICK r \in Runs : ProcOf[r] = p /\ pc[r] # "none"
      BY <2>1 DEF Marked
    <3>2. S = {r}
      BY <3>1 DEF Marked
    <3> QED BY <2>1, <3>2, FS_Singleton
  <2>2. CASE state[p] # "running"
    <3>1. S = {}
      BY <2>2 DEF Marked
    <3> QED BY <2>2, <3>1, FS_EmptySet
  <2> QED BY <2>1, <2>2
<1> QED BY <1>1, <1>2, <1>3, TypeInit, PTL DEF Spec

-----------------------------------------------------------------------------
(* CronScheduler: the scheduler of one process.                              *)

LEMMA BumpType ==
  ASSUME NEW f \in [Jobs -> Nat], NEW S
  PROVE  /\ Bump(f, S) \in [Jobs -> Nat]
         /\ \A j \in Jobs : Bump(f, S)[j] = IF j \in S THEN f[j] + 1 ELSE f[j]
BY DEF Bump

LEMMA LowerType ==
  ASSUME NEW f \in [Jobs -> Nat], NEW j \in Jobs, f[j] > 0
  PROVE  /\ Lower(f, j) \in [Jobs -> Nat]
         /\ \A k \in Jobs : Lower(f, j)[k] = IF k = j THEN f[k] - 1 ELSE f[k]
BY DEF Lower

LEMMA CronTypeInit == CronInit => CronTypeOK
<1> SUFFICES ASSUME CronInit PROVE CronTypeOK
  OBVIOUS
<1>1. Zero \in [Jobs -> Nat] /\ starts \in 0 .. MaxStarts
  BY BoundsAssumption DEF CronInit, Zero
<1>2. {cronOn, running, closed, drained} \subseteq BOOLEAN
  BY DEF CronInit
<1> QED BY <1>1, <1>2 DEF CronInit, CronTypeOK, Zero

LEMMA CronTypeStep ==
  ASSUME CronTypeOK, [CronNext]_cronVars
  PROVE  CronTypeOK'
<1> USE DEF CronTypeOK, tableVars, taskVars, endVars
<1>1. ASSUME NEW j \in Jobs, Add(j) PROVE CronTypeOK'
  <2>1. /\ entries' \in [Jobs -> Nat] /\ current' \subseteq Jobs
        /\ \A k \in current' : entries'[k] > 0
    BY <1>1, BumpType DEF Add, Register
  <2> QED BY <1>1, <2>1 DEF Add, NameFree
<1>2. ASSUME NEW j \in Jobs, Remove(j) PROVE CronTypeOK'
  BY <1>2 DEF Remove, Deregistered
<1>3. ASSUME NEW S, S \subseteq jobs, Register(S), starts < MaxStarts, starts' = starts + 1
      PROVE  /\ entries' \in [Jobs -> Nat] /\ current' \subseteq Jobs
             /\ \A k \in current' : entries'[k] > 0
             /\ starts' \in 0 .. MaxStarts
  BY <1>3, BumpType, BoundsAssumption DEF Register
<1>4. CASE Start
  BY <1>3, <1>4 DEF Start
<1>5. CASE StartFails
  <2> PICK S \in SUBSET (jobs \ Bad) : Register(S)
    BY <1>5 DEF StartFails
  <2> QED BY <1>3, <1>5 DEF StartFails
<1>6. ASSUME NEW j \in Jobs, Fire(j) \/ Trigger(j) PROVE CronTypeOK'
  BY <1>6, BumpType DEF Fire, Trigger
<1>7. ASSUME NEW j \in Jobs, Launch(j)
      PROVE  tasks' \in [Jobs -> Nat] /\ \A k \in Jobs : tasks'[k] >= tasks[k]
  BY <1>7, BumpType DEF Launch
<1>8. ASSUME NEW j \in Jobs, ClosureStarts(j) \/ TriggerStarts(j) PROVE CronTypeOK'
  BY <1>7, <1>8, LowerType DEF ClosureStarts, TriggerStarts
<1>9. ASSUME NEW j \in Jobs, TaskEnds(j) PROVE CronTypeOK'
  BY <1>9, LowerType DEF TaskEnds
<1>10. ASSUME NEW g \in Stoppers, Stop(g) \/ StopCron(g) \/ StopWakes(g) \/ StopReturns(g)
       PROVE  CronTypeOK'
  BY <1>10 DEF Stop, StopCron, StopWakes, StopReturns, StopMoves
<1>11. CASE Shutdown \/ ShutdownCron \/ Drain
  <2>1. CASE Shutdown
    BY <2>1 DEF Shutdown, ShutdownMoves
  <2>2. CASE ShutdownCron
    BY <2>2 DEF ShutdownCron, ShutdownMoves
  <2>3. CASE Drain
    BY <2>3 DEF Drain
  <2> QED BY <1>11, <2>1, <2>2, <2>3
<1>12. CASE ShutdownWakes \/ ShutdownReturns \/ ShutdownTimesOut
  BY <1>12 DEF ShutdownWakes, ShutdownReturns, ShutdownTimesOut, ShutdownMoves
<1>13. CASE UNCHANGED cronVars
  BY <1>13 DEF cronVars
<1> QED BY <1>1, <1>2, <1>4, <1>5, <1>6, <1>8, <1>9, <1>10, <1>11, <1>12, <1>13 DEF CronNext

(* CronTypeOK: in particular names are unique in the table, a job's current      *)
(* entry exists in cron, and old tasks are tasks.                            *)
THEOREM CronTypeCorrect == CronSpec => []CronTypeOK
BY CronTypeInit, CronTypeStep, PTL DEF CronSpec

-----------------------------------------------------------------------------
(* The first Start.                                                          *)

(* Before it cron is empty and nobody can be stopping.                       *)
Fresh ==
  starts = 0 => /\ \A j \in Jobs : entries[j] = 0
                /\ ~ running /\ ~ cronOn
                /\ \A g \in Stoppers : stop[g] = "none"

(* From it until cron stops: the table and the entries agree, and nobody has *)
(* come to the point where the scheduler says that it is not running.        *)
FirstRun ==
  cronOn /\ starts <= 1 =>
    /\ running
    /\ \A g \in Stoppers : stop[g] \in {"none", "passed"}
    /\ shutdown \in {"none", "closed"}
    /\ jobs \subseteq current
    /\ \A j \in Jobs : entries[j] = IF j \in jobs THEN 1 ELSE 0

ClosedFirst == closed <=> shutdown # "none"

Registered == Fresh /\ FirstRun /\ ClosedFirst

LEMMA RegisteredInit == CronInit => Registered
BY DEF CronInit, Registered, Fresh, FirstRun, ClosedFirst, Zero

LEMMA RegisteredStep ==
  ASSUME CronTypeOK, Registered, [CronNext]_cronVars
  PROVE  Registered'
<1> USE DEF CronTypeOK, Registered, Fresh, FirstRun, ClosedFirst, tableVars, taskVars, endVars
<1>1. ASSUME NEW j \in Jobs, Add(j) PROVE Registered'
  <2>1. j \notin jobs
    BY <1>1 DEF Add, NameFree
  <2>2. CASE running
    <3>1. \A k \in Jobs : entries'[k] = IF k = j THEN entries[k] + 1 ELSE entries[k]
      BY <1>1, <2>2, BumpType DEF Add, Register
    <3>2. current' = current \cup {j} /\ jobs' = jobs \cup {j}
      BY <1>1, <2>2 DEF Add, Register
    <3> QED BY <1>1, <2>1, <2>2, <3>1, <3>2 DEF Add
  <2>3. CASE ~ running
    BY <1>1, <2>3 DEF Add
  <2> QED BY <2>2, <2>3
<1>2. ASSUME NEW j \in Jobs, Remove(j) PROVE Registered'
  BY <1>2 DEF Remove, Deregistered
<1>3. CASE Start
  <2>1. \A k \in Jobs : entries'[k] = IF k \in jobs THEN entries[k] + 1 ELSE entries[k]
    BY <1>3, BumpType DEF Start, Register
  <2>2. current' = current \cup jobs
    BY <1>3 DEF Start, Register
  <2>3. starts' = starts + 1 /\ (starts' <= 1 => starts = 0)
    BY <1>3 DEF Start
  <2> QED BY <1>3, <2>1, <2>2, <2>3 DEF Start
<1>4. CASE StartFails
  <2>1. starts' = starts + 1 /\ (starts' <= 1 => starts = 0)
    BY <1>4 DEF StartFails
  <2> QED BY <1>4, <2>1 DEF StartFails
<1>5. ASSUME NEW j \in Jobs,
             Fire(j) \/ Trigger(j) \/ ClosureStarts(j) \/ TriggerStarts(j) \/ TaskEnds(j)
      PROVE  Registered'
  BY <1>5 DEF Fire, Trigger, ClosureStarts, TriggerStarts, TaskEnds
<1>6. ASSUME NEW g \in Stoppers, Stop(g) \/ StopCron(g) PROVE Registered'
  BY <1>6 DEF Stop, StopCron, StopMoves
<1>7. ASSUME NEW g \in Stoppers, StopWakes(g) \/ StopReturns(g) PROVE Registered'
  BY <1>7 DEF StopWakes, StopReturns, StopMoves
<1>8. CASE Shutdown \/ ShutdownCron \/ Drain
  BY <1>8 DEF Shutdown, ShutdownCron, Drain, ShutdownMoves
<1>9. CASE ShutdownWakes \/ ShutdownReturns \/ ShutdownTimesOut
  BY <1>9 DEF ShutdownWakes, ShutdownReturns, ShutdownTimesOut, ShutdownMoves
<1>10. CASE UNCHANGED cronVars
  BY <1>10 DEF cronVars
<1> QED BY <1>1, <1>2, <1>3, <1>4, <1>5, <1>6, <1>7, <1>8, <1>9, <1>10 DEF CronNext

(* OneEntryEach: after the first Start cron runs every job of the table once, *)
(* and no other, whatever is added, removed and stopped meanwhile.           *)
THEOREM OneEntryEachCorrect == CronSpec => []OneEntryEach
<1>1. Registered => OneEntryEach
  BY DEF Registered, FirstRun, OneEntryEach
<1>2. CronTypeOK /\ Registered /\ [CronNext]_cronVars => Registered'
  BY RegisteredStep
<1> QED BY <1>1, <1>2, RegisteredInit, CronTypeCorrect, PTL DEF CronSpec

-----------------------------------------------------------------------------
(* Shutdown.                                                                 *)

(* What is known at each point of Shutdown: cron is off once it was stopped, *)
(* and quiet once its context was awaited; when the tasks have drained none  *)
(* of those found is left.                                                   *)
ShuttingDown ==
  /\ ClosedFirst
  /\ shutdown \in {"waitCron", "waitTasks", "woken", "ok", "timeout"} => ~ cronOn
  /\ shutdown \in {"waitTasks", "woken", "ok"} => CronQuiet
  /\ shutdown \in {"woken", "ok"} => drained
  /\ drained => shutdown # "none" /\ \A j \in Jobs : old[j] = 0
  /\ shutdown = "ok" => ~ running

LEMMA ShuttingDownInit == CronInit => ShuttingDown
BY DEF CronInit, ShuttingDown, ClosedFirst

LEMMA ShuttingDownStep ==
  ASSUME CronTypeOK, ShuttingDown, [CronNext]_cronVars
  PROVE  ShuttingDown'
<1> USE DEF CronTypeOK, ShuttingDown, ClosedFirst, CronQuiet, tableVars, taskVars, endVars
<1>1. ASSUME NEW j \in Jobs, Add(j) \/ Remove(j) PROVE ShuttingDown'
  BY <1>1 DEF Add, Remove
<1>2. CASE Start \/ StartFails
  BY <1>2 DEF Start, StartFails
<1>3. ASSUME NEW j \in Jobs, Fire(j) \/ Trigger(j) PROVE ShuttingDown'
  BY <1>3 DEF Fire, Trigger
<1>4. ASSUME NEW j \in Jobs, ClosureStarts(j) PROVE ShuttingDown'
  BY <1>4, LowerType DEF ClosureStarts
<1>5. ASSUME NEW j \in Jobs, TriggerStarts(j) PROVE ShuttingDown'
  BY <1>5 DEF TriggerStarts
<1>6. ASSUME NEW j \in Jobs, TaskEnds(j) PROVE ShuttingDown'
  BY <1>6, LowerType DEF TaskEnds
<1>7. ASSUME NEW g \in Stoppers, Stop(g) \/ StopCron(g) \/ StopWakes(g) \/ StopReturns(g)
      PROVE  ShuttingDown'
  BY <1>7 DEF Stop, StopCron, StopWakes, StopReturns
<1>8. CASE Shutdown \/ ShutdownCron
  BY <1>8 DEF Shutdown, ShutdownCron, ShutdownMoves
<1>9. CASE Drain
  <2>1. \A j \in Jobs : old[j] = 0
    BY <1>9 DEF Drain, Drainable, TasksDone
  <2> QED BY <1>9, <2>1 DEF Drain, Drainable
<1>10. CASE ShutdownWakes
  BY <1>10 DEF ShutdownWakes, ShutdownMoves
<1>11. CASE ShutdownReturns \/ ShutdownTimesOut
  BY <1>11 DEF ShutdownReturns, ShutdownTimesOut, ShutdownMoves
<1>12. CASE UNCHANGED cronVars
  BY <1>12 DEF cronVars
<1> QED BY <1>1, <1>2, <1>3, <1>4, <1>5, <1>6, <1>7, <1>8, <1>9, <1>10, <1>11, <1>12 DEF CronNext

(* ShutdownWaits: a Shutdown that returned nil has outlived every task it    *)
(* found and left no tick behind.                                            *)
THEOREM ShutdownWaitsCorrect == CronSpec => []ShutdownWaits
<1>1. ShuttingDown => ShutdownWaits
  BY DEF ShuttingDown, ShutdownWaits
<1>2. CronTypeOK /\ ShuttingDown /\ [CronNext]_cronVars => ShuttingDown'
  BY ShuttingDownStep
<1> QED BY <1>1, <1>2, ShuttingDownInit, CronTypeCorrect, PTL DEF CronSpec

-----------------------------------------------------------------------------
(* Stop.                                                                     *)

OneStopping == \A g, h \in Stoppers : g = h

(* A Stop under way keeps Start out, which would switch cron on again: the   *)
(* scheduler says that it is running, or it is closed.                       *)
StartKeptOut == \A g \in Stoppers : stop[g] # "none" => running \/ closed

(* What is known at each point of Stop, and after it.                        *)
Stopping ==
  /\ \A g \in Stoppers : /\ stop[g] \in {"waiting", "woken"} => ~ cronOn
                         /\ stop[g] = "woken" => CronQuiet
  /\ ~ running => ~ cronOn /\ CronQuiet

LEMMA StoppingInit == CronInit => StartKeptOut /\ Stopping
BY DEF CronInit, StartKeptOut, Stopping, CronQuiet, Zero

LEMMA StoppingStep ==
  ASSUME CronTypeOK, OneStopping, ShuttingDown, StartKeptOut, Stopping, [CronNext]_cronVars
  PROVE  StartKeptOut' /\ Stopping'
<1> USE DEF CronTypeOK, StartKeptOut, Stopping, CronQuiet, tableVars, taskVars, endVars
<1>1. ASSUME NEW j \in Jobs, Add(j) \/ Remove(j) PROVE StartKeptOut' /\ Stopping'
  BY <1>1 DEF Add, Remove
<1>2. CASE Start \/ StartFails
  BY <1>2 DEF Start, StartFails
<1>3. ASSUME NEW j \in Jobs, Fire(j) \/ Trigger(j) PROVE StartKeptOut' /\ Stopping'
  BY <1>3 DEF Fire, Trigger
<1>4. ASSUME NEW j \in Jobs, ClosureStarts(j) PROVE StartKeptOut' /\ Stopping'
  BY <1>4, LowerType DEF ClosureStarts
<1>5. ASSUME NEW j \in Jobs, TriggerStarts(j) \/ TaskEnds(j) PROVE StartKeptOut' /\ Stopping'
  BY <1>5 DEF TriggerStarts, TaskEnds
<1>6. ASSUME NEW g \in Stoppers, Stop(g) \/ StopCron(g) PROVE StartKeptOut' /\ Stopping'
  BY <1>6 DEF Stop, StopCron, StopMoves
<1>7. ASSUME NEW g \in Stoppers, StopWakes(g) PROVE StartKeptOut' /\ Stopping'
  BY <1>7 DEF StopWakes, StopMoves, CronStopped
<1>8. ASSUME NEW g \in Stoppers, StopReturns(g) PROVE StartKeptOut' /\ Stopping'
  <2>1. \A h \in Stoppers : stop'[h] = "none"
    BY <1>8, OneStopping DEF StopReturns, StopMoves, OneStopping
  <2> QED BY <1>8, <2>1 DEF StopReturns, StopMoves
<1>9. CASE Shutdown \/ ShutdownCron \/ Drain \/ ShutdownWakes \/ ShutdownTimesOut
  BY <1>9 DEF Shutdown, ShutdownCron, Drain, ShutdownWakes, ShutdownTimesOut
<1>10. CASE ShutdownReturns
  BY <1>10 DEF ShutdownReturns, ShutdownMoves, ShuttingDown, ClosedFirst
<1>11. CASE UNCHANGED cronVars
  BY <1>11 DEF cronVars
<1> QED BY <1>1, <1>2, <1>3, <1>4, <1>5, <1>6, <1>7, <1>8, <1>9, <1>10, <1>11 DEF CronNext

(* StoppedIsSilent: when the Stop of the one goroutine that calls it has     *)
(* returned, no tick fires and none is about to start its task.              *)
THEOREM StoppedIsSilentCorrect ==
  ASSUME OneStopping
  PROVE  CronSpec => []StoppedIsSilent
<1>1. Stopping => StoppedIsSilent
  BY DEF Stopping, StoppedIsSilent
<1>2. CronTypeOK /\ ShuttingDown /\ [CronNext]_cronVars => ShuttingDown'
  BY ShuttingDownStep
<1>3. CronTypeOK /\ ShuttingDown /\ StartKeptOut /\ Stopping /\ [CronNext]_cronVars => StartKeptOut' /\ Stopping'
  BY StoppingStep, OneStopping
<1> QED BY <1>1, <1>2, <1>3, StoppingInit, ShuttingDownInit, CronTypeCorrect, PTL DEF CronSpec
=============================================================================
