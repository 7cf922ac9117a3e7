---------------------------- MODULE Maintenance ----------------------------
(***************************************************************************)
(* Who starts the cleanup of unpaid orders, and when.  Celery workers run  *)
(* it under a Redis lock with a time to live, or without it when Redis     *)
(* fails; a run that failed or had no lock leaves a row in                 *)
(* maintenance_jobs, and cron starts runners that execute those rows.      *)
(* The other periodic tasks use the same lock code and leave no row.  What *)
(* a cleanup does to orders is in OrderLifecycle.                          *)
(***************************************************************************)
EXTENDS Naturals, FiniteSets

CONSTANTS
  Worker,     \* Celery processes
  Runner,     \* processes of scripts/run_maintenance_jobs.py
  MaxJobs,    \* bound: rows of maintenance_jobs
  TakeLimit,  \* the limit argument of acquire_jobs
  Nobody

Job   == 1..MaxJobs
NoJob == 0

ASSUME ProcessesAssumption == Nobody \notin Worker /\ IsFiniteSet(Runner)

ASSUME LimitsAssumption == MaxJobs \in Nat /\ TakeLimit \in Nat

VARIABLES
  lock,      \* whose token the lock key in Redis holds
  expired,   \* workers whose lock ran out under them
  worker,    \* where each worker is in the task, and whether it runs unlocked
  jobs,      \* maintenance_jobs.status; "none" before the row is committed
  runner,    \* what each runner does, the jobs it has taken, the one it executes
  executions,\* how often a job was executed
  owed       \* a cleanup was left to the table and none has started since

lockVars == <<lock, expired, worker>>
jobVars  == <<jobs, executions, owed>>
vars == <<lockVars, jobVars, runner>>

WorkerState ==
  [doing    : {"idle", "cleaning", "asking", "inserting", "releasing", "raising"},
   failing  : BOOLEAN,   \* inside the except clause
   degraded : BOOLEAN]   \* no lock object

RunnerState == [doing   : {"idle", "selected", "taken", "executing"},
                taken   : SUBSET Job,
                current : Job \cup {NoJob}]

IdleWorker == [doing |-> "idle", failing |-> FALSE, degraded |-> FALSE]
IdleRunner == [doing |-> "idle", taken |-> {}, current |-> NoJob]

TypeOK ==
  /\ lock \in Worker \cup {Nobody}
  /\ expired \subseteq Worker
  /\ worker \in [Worker -> WorkerState]
  /\ jobs \in [Job -> {"none", "pending", "running", "completed", "failed"}]
  /\ runner \in [Runner -> RunnerState]
  /\ executions \in [Job -> Nat]
  /\ owed \in BOOLEAN

Init ==
  /\ lock = Nobody
  /\ expired = {}
  /\ worker = [w \in Worker |-> IdleWorker]
  /\ jobs = [j \in Job |-> "none"]
  /\ runner = [r \in Runner |-> IdleRunner]
  /\ executions = [j \in Job |-> 0]
  /\ owed = FALSE

-----------------------------------------------------------------------------
(* The Redis lock                                                          *)

Holding(w) == worker[w].doing # "idle" /\ ~worker[w].degraded

StartLocked(w) ==
  /\ worker[w].doing = "idle" /\ lock = Nobody
  /\ lock' = w
  /\ worker' = [worker EXCEPT ![w] = [IdleWorker EXCEPT !.doing = "cleaning"]]
  /\ UNCHANGED <<expired, jobVars, runner>>

\* Redis fails: the task runs all the same.  SET may have been done in Redis although
\* its answer was lost; that key stays until it runs out.
StartDegraded(w) ==
  /\ worker[w].doing = "idle"
  /\ lock' \in IF lock = Nobody THEN {lock, w} ELSE {lock}
  /\ worker' = [worker EXCEPT ![w] =
                  [IdleWorker EXCEPT !.doing = "cleaning", !.degraded = TRUE]]
  /\ UNCHANGED <<expired, jobVars, runner>>

\* The time to live is over, or Redis lost the key.
Expire ==
  /\ lock # Nobody
  /\ lock' = Nobody
  /\ expired' = expired \cup {w \in Worker : w = lock /\ Holding(w)}
  /\ UNCHANGED <<worker, jobVars, runner>>

ReleaseAnybodys(w) ==
  lock' = IF worker[w].degraded THEN lock ELSE Nobody

\* _release_task_lock deletes the key if it holds the token of this lock object.
ReleaseLock(w) ==
  lock' = IF ~worker[w].degraded /\ lock = w THEN Nobody ELSE lock

-----------------------------------------------------------------------------
(* The task cancel_stale_pending_orders                                    *)

\* The task goes on after its row is there, or was there already.
Asked(w) ==
  worker' = [worker EXCEPT ![w] = IF worker[w].failing
               THEN [@ EXCEPT !.doing = "releasing", !.failing = FALSE]
               ELSE IdleWorker]

CleanupEnds(w) ==
  /\ worker[w].doing = "cleaning"
  /\ \/ worker' = [worker EXCEPT ![w].doing = "releasing"]
     \/ worker' = [worker EXCEPT ![w].doing = "asking", ![w].failing = TRUE]
  /\ UNCHANGED <<lock, expired, jobVars, runner>>

Waiting == {j \in Job : jobs[j] = "pending"}

UnfinishedJobs == {j \in Job : jobs[j] \in {"pending", "running"}}

ExistingJobs == Waiting

\* enqueue_job looks for a waiting row, without a lock ...
Ask(w) ==
  /\ worker[w].doing = "asking"
  /\ IF ExistingJobs # {}
       THEN Asked(w) /\ owed' = TRUE
       ELSE worker' = [worker EXCEPT ![w].doing = "inserting"] /\ UNCHANGED owed
  /\ UNCHANGED <<lock, expired, jobs, executions, runner>>

\* ... and inserts one if it saw none.
Insert(w) ==
  /\ worker[w].doing = "inserting"
  /\ \E j \in Job : /\ jobs[j] = "none" /\ \A i \in 1..(j - 1) : jobs[i] # "none"
                    /\ jobs' = [jobs EXCEPT ![j] = "pending"]
  /\ owed' = TRUE
  /\ Asked(w)
  /\ UNCHANGED <<lock, expired, executions, runner>>

\* The database fails: the exception leaves the task, after the lock is released.
AskFails(w) ==
  /\ worker[w].doing \in {"asking", "inserting"}
  /\ worker' = [worker EXCEPT ![w] = IF worker[w].failing
                  THEN [@ EXCEPT !.doing = "raising", !.failing = FALSE]
                  ELSE IdleWorker]
  /\ UNCHANGED <<lock, expired, jobVars, runner>>

\* A run without a lock asks for another one, a failed run for the second time.
Release(w) ==
  /\ worker[w].doing \in {"releasing", "raising"}
  /\ ReleaseLock(w) \/ lock' = lock   \* Redis may fail: the key stays
  /\ expired' = expired \ {w}
  /\ worker' = [worker EXCEPT ![w] =
       IF worker[w].doing = "releasing" /\ worker[w].degraded
         THEN [@ EXCEPT !.doing = "asking"] ELSE IdleWorker]
  /\ UNCHANGED <<jobVars, runner>>

WorkerDies(w) ==
  /\ worker[w].doing # "idle"
  /\ worker' = [worker EXCEPT ![w] = IdleWorker]
  /\ expired' = expired \ {w}
  /\ UNCHANGED <<lock, jobVars, runner>>

-----------------------------------------------------------------------------
(* run_maintenance_jobs.py                                                 *)

Locked == UNION {runner[r].taken : r \in {q \in Runner : runner[q].doing = "selected"}}

TakableWithoutLocks == Waiting

\* FOR UPDATE SKIP LOCKED
Takable == Waiting \ Locked

\* acquire_jobs: the oldest TakeLimit rows.
SelectJobs(r) ==
  /\ runner[r].doing = "idle" /\ Takable # {} /\ TakeLimit > 0
  /\ runner' = [runner EXCEPT ![r].doing = "selected", ![r].taken =
       {j \in Takable : Cardinality({i \in Takable : i <= j}) <= TakeLimit}]
  /\ UNCHANGED <<lockVars, jobVars>>

CommitTaken(r) ==
  /\ runner[r].doing = "selected"
  /\ jobs' = [j \in Job |-> IF j \in runner[r].taken THEN "running" ELSE jobs[j]]
  /\ runner' = [runner EXCEPT ![r].doing = "taken"]
  /\ UNCHANGED <<lockVars, executions, owed>>

\* run_jobs, one transaction for each job: its cleanup begins now.
StartJob(r) ==
  /\ runner[r].doing = "taken"
  /\ \E j \in runner[r].taken :
       /\ \A i \in runner[r].taken : j <= i
       /\ runner' = [runner EXCEPT ![r] = [doing |-> "executing", current |-> j,
                                           taken |-> runner[r].taken \ {j}]]
       /\ executions' = [executions EXCEPT ![j] = @ + 1]
  /\ owed' = FALSE
  /\ UNCHANGED <<lockVars, jobs>>

\* complete_job, or fail_job.
EndJob(r) ==
  /\ runner[r].doing = "executing"
  /\ \E result \in {"completed", "failed"} :
       jobs' = [jobs EXCEPT ![runner[r].current] = result]
  /\ runner' = [runner EXCEPT ![r] =
       IF runner[r].taken = {} THEN IdleRunner
       ELSE [@ EXCEPT !.doing = "taken", !.current = NoJob]]
  /\ UNCHANGED <<lockVars, executions, owed>>

\* The process dies; or a statement of the cleanup fails in the database, so that
\* fail_job, in the same transaction, fails too and the exception ends the runner.
RunnerStops(r) ==
  /\ runner[r].doing # "idle"
  /\ runner' = [runner EXCEPT ![r] = IdleRunner]
  /\ UNCHANGED <<lockVars, jobVars>>

-----------------------------------------------------------------------------
Run(r) == SelectJobs(r) \/ CommitTaken(r) \/ StartJob(r) \/ EndJob(r)

Next ==
  \/ Expire
  \/ \E w \in Worker :
       \/ StartLocked(w) \/ StartDegraded(w)
       \/ CleanupEnds(w) \/ Ask(w) \/ Insert(w) \/ AskFails(w) \/ Release(w)
       \/ WorkerDies(w)
  \/ \E r \in Runner : Run(r) \/ RunnerStops(r)

Spec == Init /\ [][Next]_vars

\* Cron starts runners again and again, those that live go on, and not every one of
\* them dies before it has committed what it took.
Fairness == \A r \in Runner : WF_vars(Run(r)) /\ SF_vars(CommitTaken(r))

FairSpec == Spec /\ Fairness

-----------------------------------------------------------------------------
(* Two runs of a periodic task overlap only if one of them had no lock or  *)
(* outlived it: a run that outlived its lock does not take away the lock   *)
(* of the run that came after it.                                          *)
LockedRunsExclude ==
  \A v, w \in Worker :
    Holding(v) /\ v \notin expired /\ Holding(w) /\ w \notin expired => v = w

(* A maintenance job is executed at most once, by whatever runners, and    *)
(* only one that was executed has a result.                                *)
JobExecutedOnce ==
  \A j \in Job : /\ executions[j] <= 1
                 /\ jobs[j] \in {"completed", "failed"} => executions[j] = 1

\* Left in "running" by a runner that stopped.
Abandoned ==
  {j \in Job : /\ jobs[j] = "running"
               /\ \A r \in Runner : j # runner[r].current /\ j \notin runner[r].taken}

(* A cleanup that was left to the table is still ahead: some row waits, or *)
(* was taken and not begun.  Finding a row that waits is as good as        *)
(* inserting one, although it is looked at without a lock.  Only a runner  *)
(* that stops can lose it.                                                 *)
OwedIsAhead ==
  owed => \/ Waiting # {} \/ Abandoned # {}
          \/ \E r \in Runner : runner[r].doing # "selected" /\ runner[r].taken # {}

(* And it is done: after a failed or unlocked run another cleanup starts,  *)
(* unless runners stopped and left their jobs behind.                      *)
OwedIsDone == owed ~> ~owed \/ Abandoned # {}
=============================================================================
