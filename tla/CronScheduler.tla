---------------------------- MODULE CronScheduler ----------------------------
(***************************************************************************)
(* cronScheduler of the scheduler package in one process: the table of      *)
(* jobs, their entries in robfig/cron, and Start, Stop, Shutdown, Add,      *)
(* Remove and Trigger called from several goroutines while ticks fire.      *)
(*                                                                         *)
(* A tick runs the registered closure in a goroutine that cron counts       *)
(* (jobWaiter); the closure starts the task in a second goroutine that the  *)
(* scheduler counts (wg).  What a task does is in SchedulerCluster.  A step *)
(* is one critical section of s.mu, one call into cron, or one goroutine    *)
(* that starts or ends.                                                     *)
(***************************************************************************)
EXTENDS Naturals, FiniteSets

CONSTANTS Jobs,       \* the *Job objects
          NameOf,     \* NameOf[j]: Job.Name
          Bad,        \* the jobs whose Schedule does not parse
          SingletonJobs, \* the jobs with Job.Singleton
          Stoppers,   \* the goroutines that may call Stop
          MaxStarts,  \* bound: how often Start registers jobs
          MaxTasks    \* bound: closures, triggers and tasks of a job at a time

ASSUME JobsAssumption == IsFiniteSet(Jobs) /\ Bad \subseteq Jobs /\ SingletonJobs \subseteq Jobs
ASSUME BoundsAssumption == MaxStarts \in Nat /\ MaxTasks \in Nat

VARIABLES
  jobs,     \* the values of s.jobs
  entries,  \* entries[j]: how many entries of cron run job j
  current,  \* the jobs whose entryID is that of an entry of cron
  cronOn,   \* cron's run loop is running
  running, closed, \* the fields of the scheduler
  starts,   \* calls of Start that registered jobs
  fired,    \* fired[j]: closures cron has started, before wg.Go
  triggers, \* triggers[j]: calls of Trigger that passed the checks, before wg.Go
  tasks,    \* tasks[j]: executeJob goroutines counted by wg
  stop,     \* stop[g]: where the Stop of goroutine g stands
  shutdown, \* where Shutdown stands
  drained,  \* Shutdown's goroutine has seen wg at zero
  old       \* old[j]: tasks under way since before Shutdown was called (history)

tableVars == <<jobs, entries, current, cronOn, running, closed, starts>>
taskVars  == <<fired, triggers, tasks, old>>
endVars   == <<stop, shutdown, drained>>
cronVars  == <<tableVars, taskVars, endVars>>

CronTypeOK ==
  /\ jobs \subseteq Jobs /\ current \subseteq Jobs
  /\ entries \in [Jobs -> Nat]
  /\ {cronOn, running, closed, drained} \subseteq BOOLEAN
  /\ starts \in 0 .. MaxStarts
  /\ fired \in [Jobs -> Nat] /\ triggers \in [Jobs -> Nat]
  /\ tasks \in [Jobs -> Nat] /\ old \in [Jobs -> Nat]
  /\ stop \in [Stoppers -> {"none", "passed", "waiting", "woken"}]
  /\ shutdown \in {"none", "closed", "waitCron", "waitTasks", "woken", "ok", "timeout"}
  /\ \A j, k \in jobs : NameOf[j] = NameOf[k] => j = k
  /\ \A j \in current : entries[j] > 0
  /\ \A j \in Jobs : old[j] <= tasks[j]

Zero == [j \in Jobs |-> 0]

CronInit ==
  /\ jobs = {} /\ entries = Zero /\ current = {}
  /\ cronOn = FALSE /\ running = FALSE /\ closed = FALSE /\ starts = 0
  /\ fired = Zero /\ triggers = Zero /\ tasks = Zero /\ old = Zero
  /\ stop = [g \in Stoppers |-> "none"]
  /\ shutdown = "none" /\ drained = FALSE

Bump(f, S)  == [j \in Jobs |-> IF j \in S THEN f[j] + 1 ELSE f[j]]
Lower(f, j) == [f EXCEPT ![j] = @ - 1]

-----------------------------------------------------------------------------
(* The table.                                                                *)

(* registerJob for every job of S: cron.AddFunc, whose id replaces entryID. *)
Register(S) ==
  /\ entries' = Bump(entries, S)
  /\ current' = current \cup S

NameFree(j) == \A k \in jobs : NameOf[k] # NameOf[j]

Add(j) ==
  /\ ~ closed /\ NameFree(j)
  /\ running => j \notin Bad
  /\ jobs' = jobs \cup {j}
  /\ IF running THEN Register({j}) ELSE UNCHANGED <<entries, current>>
  /\ UNCHANGED <<cronOn, running, closed, starts, taskVars, endVars>>

(* mutant: the entry is left in cron *)
Unregistered(j) == {}

(* Which of the jobs' entries Remove takes out of cron.                      *)
Deregistered(j) == IF running THEN {j} \cap current ELSE {}

Remove(j) ==
  /\ j \in jobs
  /\ jobs' = jobs \ {j}
  /\ entries' = [k \in Jobs |-> IF k \in Deregistered(j) THEN entries[k] - 1 ELSE entries[k]]
  /\ current' = current \ Deregistered(j)
  /\ UNCHANGED <<cronOn, running, closed, starts, taskVars, endVars>>

-----------------------------------------------------------------------------
(* Start; it does nothing if the scheduler is running already.               *)
Start ==
  /\ ~ closed /\ ~ running
  /\ starts < MaxStarts
  /\ jobs \cap Bad = {}
  /\ Register(jobs)
  /\ starts' = starts + 1
  /\ cronOn' = TRUE /\ running' = TRUE
  /\ UNCHANGED <<jobs, closed, taskVars, endVars>>

(* A schedule does not parse: the jobs that the map gave before it stay      *)
(* registered.                                                               *)
StartFails ==
  /\ ~ closed /\ ~ running
  /\ starts < MaxStarts
  /\ jobs \cap Bad # {}
  /\ \E S \in SUBSET (jobs \ Bad) : Register(S)
  /\ starts' = starts + 1
  /\ UNCHANGED <<jobs, cronOn, running, closed, taskVars, endVars>>

(* jobWaiter is zero.                                                        *)
CronQuiet == \A j \in Jobs : fired[j] = 0

(* wg is zero.                                                               *)
TasksDone == \A j \in Jobs : tasks[j] = 0

StopMoves(g, from, to) == stop[g] = from /\ stop' = [stop EXCEPT ![g] = to]

(* Stop: it returns at once unless the scheduler is running and not closed. *)
Stop(g) ==
  /\ running /\ ~ closed
  /\ StopMoves(g, "none", "passed")
  /\ UNCHANGED <<tableVars, taskVars, shutdown, drained>>

StopCron(g) ==
  /\ StopMoves(g, "passed", "waiting")
  /\ cronOn' = FALSE
  /\ UNCHANGED <<jobs, entries, current, running, closed, starts, taskVars, shutdown, drained>>

(* mutant: Stop does not wait for cron's context *)
NoWait == TRUE

CronStopped == CronQuiet

(* <-ctx.Done()                                                              *)
StopWakes(g) ==
  /\ CronStopped
  /\ StopMoves(g, "waiting", "woken")
  /\ UNCHANGED <<tableVars, taskVars, shutdown, drained>>

StopReturns(g) ==
  /\ StopMoves(g, "woken", "none")
  /\ running' = FALSE
  /\ UNCHANGED <<jobs, entries, current, cronOn, closed, starts, taskVars, shutdown, drained>>

-----------------------------------------------------------------------------
(* Shutdown                                                                  *)

ShutdownMoves(from, to) == shutdown = from /\ shutdown' = to

Shutdown ==
  /\ ~ closed
  /\ ShutdownMoves("none", "closed")
  /\ closed' = TRUE
  /\ old' = tasks
  /\ UNCHANGED <<jobs, entries, current, cronOn, running, starts, fired, triggers, tasks,
                 stop, drained>>

ShutdownCron ==
  /\ ShutdownMoves("closed", "waitCron")
  /\ cronOn' = FALSE
  /\ UNCHANGED <<jobs, entries, current, running, closed, starts, taskVars, stop, drained>>

(* mutant: nobody waits for the tasks *)
DrainsAtOnce == shutdown \in {"waitCron", "waitTasks"}

(* mutant: the counter is looked at once, when cron has stopped *)
LooksOnce == shutdown = "waitCron" /\ TasksDone

Drainable == shutdown \in {"waitCron", "waitTasks", "timeout"} /\ TasksDone

(* s.wg.Wait(); close(done), in a goroutine started with the wait for cron.  *)
Drain ==
  /\ ~ drained /\ Drainable
  /\ drained' = TRUE
  /\ UNCHANGED <<tableVars, taskVars, stop, shutdown>>

ShutdownWakes ==
  /\ \/ CronQuiet /\ ShutdownMoves("waitCron", "waitTasks")
     \/ drained /\ ShutdownMoves("waitTasks", "woken")
  /\ UNCHANGED <<tableVars, taskVars, stop, drained>>

ShutdownReturns ==
  /\ ShutdownMoves("woken", "ok")
  /\ running' = FALSE
  /\ UNCHANGED <<jobs, entries, current, cronOn, closed, starts, taskVars, stop, drained>>

(* The context given to Shutdown ends; running stays as it is.               *)
ShutdownTimesOut ==
  /\ shutdown \in {"waitCron", "waitTasks"}
  /\ shutdown' = "timeout"
  /\ UNCHANGED <<tableVars, taskVars, stop, drained>>

-----------------------------------------------------------------------------
(* Ticks and tasks.                                                          *)

Room(j) == fired[j] + triggers[j] + tasks[j] < MaxTasks

(* One entry of job j is due.                                                *)
Fire(j) ==
  /\ cronOn /\ entries[j] > 0 /\ Room(j)
  /\ fired' = Bump(fired, {j})
  /\ UNCHANGED <<tableVars, triggers, tasks, old, endVars>>

(* Trigger reads job and closed under s.mu and lets go of it.                *)
Trigger(j) ==
  /\ j \in jobs /\ ~ closed /\ Room(j)
  /\ triggers' = Bump(triggers, {j})
  /\ UNCHANGED <<tableVars, fired, tasks, old, endVars>>

(* A second task of a Singleton job is skipped: it ends at once.             *)
Skipped(j) == j \in SingletonJobs /\ tasks[j] > 0

Launch(j) == tasks' = IF Skipped(j) THEN tasks ELSE Bump(tasks, {j})

(* wg.Go in the closure that cron runs; the closure returns.                *)
ClosureStarts(j) ==
  /\ fired[j] > 0 /\ fired' = Lower(fired, j)
  /\ Launch(j)
  /\ UNCHANGED <<tableVars, triggers, old, endVars>>

(* wg.Go in Trigger.                                                         *)
TriggerStarts(j) ==
  /\ triggers[j] > 0 /\ triggers' = Lower(triggers, j)
  /\ Launch(j)
  /\ UNCHANGED <<tableVars, fired, old, endVars>>

(* A task ends: one of those Shutdown found, or a later one.                 *)
TaskEnds(j) ==
  /\ tasks[j] > 0
  /\ tasks' = Lower(tasks, j)
  /\ \/ old[j] > 0 /\ old' = Lower(old, j)
     \/ old[j] < tasks[j] /\ UNCHANGED old
  /\ UNCHANGED <<tableVars, fired, triggers, endVars>>

CronNext ==
  \/ Start \/ StartFails
  \/ \E j \in Jobs : \/ Add(j) \/ Remove(j) \/ Fire(j) \/ Trigger(j)
                     \/ ClosureStarts(j) \/ TriggerStarts(j) \/ TaskEnds(j)
  \/ \E g \in Stoppers : Stop(g) \/ StopCron(g) \/ StopWakes(g) \/ StopReturns(g)
  \/ Shutdown \/ ShutdownCron \/ Drain \/ ShutdownWakes \/ ShutdownReturns \/ ShutdownTimesOut

CronSpec == CronInit /\ [][CronNext]_cronVars

-----------------------------------------------------------------------------
(* Safety.                                                                   *)

(* After the first Start: while cron runs it has one entry for every job of  *)
(* the table, and none besides, whatever is added and removed meanwhile.    *)
(* (A further Start, or one after a Start that failed half way, registers    *)
(* the jobs of the table once more.)                                         *)
OneEntryEach ==
  cronOn /\ starts <= 1 => \A j \in Jobs : entries[j] = IF j \in jobs THEN 1 ELSE 0

(* If Stop is called by one goroutine: when it has returned, no tick fires   *)
(* and none that fired is about to start its task, also if the scheduler was *)
(* stopped and started before and is being shut down.                        *)
StoppedIsSilent ==
  (~ running /\ \A g \in Stoppers : stop[g] = "none") => ~ cronOn /\ CronQuiet

(* A Shutdown that returned nil has waited for every task that was under way *)
(* when it was called, and no tick fires after it.                           *)
ShutdownWaits ==
  shutdown = "ok" => /\ \A j \in Jobs : old[j] = 0
                     /\ ~ cronOn /\ CronQuiet /\ ~ running

-----------------------------------------------------------------------------
(* Liveness.  Goroutines are scheduled and handlers return.                  *)
CronFairness ==
  /\ \A j \in Jobs :
       WF_cronVars(ClosureStarts(j)) /\ WF_cronVars(TriggerStarts(j)) /\ WF_cronVars(TaskEnds(j))
  /\ \A g \in Stoppers : WF_cronVars(StopCron(g) \/ StopWakes(g) \/ StopReturns(g))
  /\ WF_cronVars(ShutdownCron \/ ShutdownWakes \/ ShutdownReturns)
  /\ WF_cronVars(Drain)

CronLiveSpec == CronSpec /\ CronFairness

ShutdownEnds == shutdown \in {"closed", "waitCron", "waitTasks"} ~> shutdown \in {"ok", "timeout"}

StopEnds == \A g \in Stoppers : stop[g] # "none" ~> stop[g] = "none"

(* Shutdown returns even if its context never ends, and so does every Stop:  *)
(* neither waits for what only the other would do.                           *)
BothReturn == ShutdownEnds /\ StopEnds
=============================================================================
