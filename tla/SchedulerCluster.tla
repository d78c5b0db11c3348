--------------------------- MODULE SchedulerCluster ---------------------------
(***************************************************************************)
(* One Distributed job of the scheduler package, deployed in several        *)
(* processes: executeJob and runWithRetry, on top of the lock of            *)
(* storage/lock (module RedisLock, one locker per process).                 *)
(*                                                                         *)
(* A run is one call of executeJob, by a tick of cron or by Trigger.  The   *)
(* job may at the same time be a Singleton, which is the local guard.       *)
(* Time is counted only where the code computes with it: a handler uses up  *)
(* at most Timeout per attempt as long as handlers obey their context, and  *)
(* the entry of the lock lives for TTL; all three are in the same unit.     *)
(***************************************************************************)
EXTENDS Naturals, FiniteSets

CONSTANTS Procs,      \* the processes that run a scheduler with this job
          Runs,       \* the calls of executeJob under way at a time
          ProcOf,     \* ProcOf[r]: the process of run r
          NoOne,
          Singleton,  \* Job.Singleton
          RetryCount, \* Job.RetryCount
          Timeout,    \* Job.Timeout
          Interval,   \* Job.RetryInterval
          LockTTL,    \* WithLockTTL
          Obedient,   \* whether the handler returns when its context ends
          Faults,     \* the faults of RedisLock that may happen
          MaxErrors   \* bound: how many Redis commands fail

ASSUME ProcOfAssumption == ProcOf \in [Runs -> Procs]
ASSUME RunsAssumption == IsFiniteSet(Runs)
ASSUME NoOneAssumption == NoOne \notin Procs /\ NoOne \notin Runs
ASSUME BooleansAssumption == Singleton \in BOOLEAN /\ Obedient \in BOOLEAN
ASSUME TimesAssumption == {RetryCount, Timeout, Interval, LockTTL, MaxErrors} \subseteq Nat
ASSUME FaultsAssumption == Faults \subseteq {"outlive", "error", "crash"}

VARIABLES
  key, taker, held, at, errors, lapses, \* the lock: see RedisLock
  state,    \* state[p]: Job.state in process p
  pc,       \* pc[r]: where executeJob stands
  attempt   \* attempt[r]: JobContext.Attempt; 0 before the first one

lockVars == <<key, taker, held, at, errors, lapses>>
vars     == <<lockVars, state, pc, attempt>>

Lock == INSTANCE RedisLock WITH Instances <- Procs, Callers <- Runs, At <- ProcOf, MaxLapses <- 0

MaxAttempts == RetryCount + 1

(* mutant: the ttl covers one attempt, whatever WithLockTTL says *)
OneAttempt == Timeout + 1

(* The ttl executeJob asks for; the unit is a minute.                        *)
TTL == IF Timeout > LockTTL THEN Timeout + 1 ELSE LockTTL

TypeOK ==
  /\ Lock!TypeOK
  /\ state \in [Procs -> {"idle", "running"}]
  /\ pc \in [Runs -> {"none", "locking", "counting", "hooks", "work", "release"}]
  /\ attempt \in [Runs -> 0 .. MaxAttempts]

Init ==
  /\ Lock!Init
  /\ state = [p \in Procs |-> "idle"]
  /\ pc = [r \in Runs |-> "none"]
  /\ attempt = [r \in Runs |-> 0]

MovesTo(r, where) == pc' = [pc EXCEPT ![r] = where]

(* executeJob returns; the deferred finish runs if the job is a Singleton.  *)
Finish(r) ==
  /\ MovesTo(r, "none")
  /\ state' = IF Singleton THEN [state EXCEPT ![ProcOf[r]] = "idle"] ELSE state
  /\ attempt' = [attempt EXCEPT ![r] = 0]

Stay == UNCHANGED <<state, attempt>>

-----------------------------------------------------------------------------

(* mutant: the result of tryStart is ignored *)
AlwaysStarts(r) == TRUE

TryStart(r) == Singleton => state[ProcOf[r]] = "idle"

(* A tick or Trigger, up to the TryLock.  A Singleton whose last run has not *)
(* finished skips this one.                                                  *)
Begin(r) ==
  /\ pc[r] = "none" /\ at[r] # "dead"
  /\ TryStart(r)
  /\ MovesTo(r, "locking")
  /\ state' = IF Singleton THEN [state EXCEPT ![ProcOf[r]] = "running"] ELSE state
  /\ UNCHANGED <<lockVars, attempt>>

(* TryLock has the lock, or fails, and then the run is skipped.              *)
Acquire(r) ==
  /\ pc[r] = "locking"
  /\ Lock!TryLock(r)
  /\ IF at'[r] = "taken" THEN MovesTo(r, "counting") /\ Stay ELSE Finish(r)

(* Somebody else has the lock: the run is skipped.                           *)
Skip(r) ==
  /\ pc[r] = "locking" /\ key # NoOne
  /\ Finish(r)
  /\ UNCHANGED lockVars

Acquired(r) ==
  /\ pc[r] = "counting"
  /\ Lock!Count(r)
  /\ MovesTo(r, "hooks")
  /\ Stay

(* mutant: the Unlock is deferred after the hooks *)
HooksBeforeDefer(r) ==
  /\ pc[r] = "hooks"
  /\ \/ MovesTo(r, "work") /\ attempt' = [attempt EXCEPT ![r] = 1] /\ UNCHANGED state
     \/ Finish(r)
  /\ UNCHANGED lockVars

(* The BeforeJob hooks let the run go on or stop it.                         *)
BeforeHooks(r) ==
  /\ pc[r] = "hooks"
  /\ \/ MovesTo(r, "work") /\ attempt' = [attempt EXCEPT ![r] = 1]
     \/ MovesTo(r, "release") /\ UNCHANGED attempt
  /\ UNCHANGED <<lockVars, state>>

TriesLeft(r) == attempt[r] < MaxAttempts

(* The handler returned an error and may be tried again.                     *)
Retry(r) ==
  /\ pc[r] = "work"
  /\ TriesLeft(r)
  /\ attempt' = [attempt EXCEPT ![r] = @ + 1]
  /\ UNCHANGED <<lockVars, state, pc>>

(* The handler succeeded, or failed for the last time; the hooks have run.   *)
WorkEnds(r) ==
  /\ pc[r] = "work"
  /\ MovesTo(r, "release")
  /\ UNCHANGED lockVars
  /\ Stay

(* The deferred Unlock, then the deferred finish.                            *)
Release(r) ==
  /\ pc[r] = "release"
  /\ Lock!Unlock(r) \/ Lock!UnlockRuns(r) \/ Lock!Uncount(r)
  /\ IF at'[r] = "idle" THEN Finish(r) ELSE UNCHANGED pc /\ Stay

(* The time that may have passed since run r got the lock.                   *)
Spent(r) ==
  IF attempt[r] = 0 THEN 0 ELSE attempt[r] * Timeout + (attempt[r] - 1) * Interval

Outlived(r) == IF Obedient THEN Spent(r) >= TTL ELSE attempt[r] > 0

(* The entry expires: under a run only if that run may take longer than TTL. *)
LockExpires ==
  /\ Lock!Busy => Outlived(taker)
  /\ Lock!Lapse
  /\ UNCHANGED <<state, pc, attempt>>

(* A panic in a handler, which nothing recovers, or a kill.                  *)
Crash(p) ==
  /\ Lock!Crash(p)
  /\ pc' = [r \in Runs |-> IF ProcOf[r] = p THEN "none" ELSE pc[r]]
  /\ attempt' = [r \in Runs |-> IF ProcOf[r] = p THEN 0 ELSE attempt[r]]
  /\ state' = [state EXCEPT ![p] = "idle"]

RunStep(r) ==
  \/ Begin(r) \/ Acquire(r) \/ Skip(r) \/ Acquired(r) \/ BeforeHooks(r)
  \/ Retry(r) \/ WorkEnds(r) \/ Release(r)

Next ==
  \/ LockExpires
  \/ \E p \in Procs : Crash(p)
  \/ \E r \in Runs : RunStep(r)

Spec == Init /\ [][Next]_vars

-----------------------------------------------------------------------------
(* Safety.                                                                   *)

(* The ttl is enough: the scheduler uses the lock the way RedisLock says,    *)
(* and the entry never expires under a run.                                  *)
UsesLock == Lock!Spec

(* Of all the processes one executes the job at a time.                      *)
OneInstance ==
  \A r, s \in Runs : pc[r] = "work" /\ pc[s] = "work" => r = s

(* A Singleton job is marked as running exactly while one run of it is under *)
(* way in the process, skipped and locked-out runs included: runs do not     *)
(* overlap, and none leaves a mark behind that blocks the job.               *)
SingletonKept ==
  Singleton => \A p \in Procs :
    Cardinality({r \in Runs : ProcOf[r] = p /\ pc[r] # "none"})
      = IF state[p] = "running" THEN 1 ELSE 0

-----------------------------------------------------------------------------
(* Liveness.  Goroutines are scheduled, handlers return, entries expire.     *)
Fairness ==
  /\ WF_vars(LockExpires)
  /\ \A r \in Runs :
       /\ WF_vars(Acquire(r) \/ Skip(r) \/ Acquired(r) \/ BeforeHooks(r))
       /\ WF_vars(WorkEnds(r) \/ Release(r))

LiveSpec == Spec /\ Fairness

(* The lock never stays taken.                                               *)
LockComesFree == key # NoOne ~> key = NoOne

(* Every run ends, and with it the mark that keeps the next one out.         *)
JobComesFree == \A p \in Procs : state[p] = "running" ~> state[p] = "idle"

(* Neither the lock nor the job stays taken: not by a run that a hook        *)
(* stopped after both were taken, not by a failed Unlock, not by a process   *)
(* that died.                                                                *)
NothingStaysTaken == LockComesFree /\ JobComesFree
=============================================================================
