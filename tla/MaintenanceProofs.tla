------------------------- MODULE MaintenanceProofs -------------------------
(***************************************************************************)
(* Theorems about Maintenance, for any number of workers, runners and      *)
(* jobs.                                                                   *)
(***************************************************************************)
EXTENDS Maintenance, TLAPS

USE DEF Job, NoJob

-----------------------------------------------------------------------------
(* Types                                                                   *)

(* Lemma: a task that got its row goes on in a typed state.                *)
LEMMA AskedTyped ==
  ASSUME worker \in [Worker -> WorkerState], NEW w \in Worker, Asked(w)
  PROVE  worker' \in [Worker -> WorkerState]
  BY DEF Asked, WorkerState, IdleWorker

(* Lemma: the steps of a worker keep the types.                            *)
LEMMA TypeWorker ==
  ASSUME TypeOK, NEW w \in Worker,
         \/ StartLocked(w) \/ StartDegraded(w) \/ CleanupEnds(w) \/ Ask(w)
         \/ Insert(w) \/ AskFails(w) \/ Release(w) \/ WorkerDies(w)
  PROVE  TypeOK'
  <1>1. CASE StartLocked(w)
    BY <1>1 DEF StartLocked, TypeOK, WorkerState, IdleWorker, jobVars
  <1>2. CASE StartDegraded(w)
    BY <1>2 DEF StartDegraded, TypeOK, WorkerState, IdleWorker, jobVars
  <1>3. CASE CleanupEnds(w)
    BY <1>3 DEF CleanupEnds, TypeOK, WorkerState, jobVars
  <1>4. CASE Ask(w)
    <2>1. worker' \in [Worker -> WorkerState]
      BY <1>4, AskedTyped DEF Ask, TypeOK, WorkerState
    <2> QED
      BY <1>4, <2>1 DEF Ask, TypeOK
  <1>5. CASE Insert(w)
    <2>1. worker' \in [Worker -> WorkerState]
      BY <1>5, AskedTyped DEF Insert, TypeOK
    <2> QED
      BY <1>5, <2>1 DEF Insert, TypeOK
  <1>6. CASE AskFails(w)
    BY <1>6 DEF AskFails, TypeOK, WorkerState, IdleWorker, jobVars
  <1>7. CASE Release(w)
    BY <1>7 DEF Release, ReleaseLock, TypeOK, WorkerState, IdleWorker, jobVars
  <1>8. CASE WorkerDies(w)
    BY <1>8 DEF WorkerDies, TypeOK, WorkerState, IdleWorker, jobVars
  <1> QED
    BY <1>1, <1>2, <1>3, <1>4, <1>5, <1>6, <1>7, <1>8

(* Lemma: the steps of a runner keep the types.                            *)
LEMMA TypeRunner ==
  ASSUME TypeOK, NEW r \in Runner, Run(r) \/ RunnerStops(r)
  PROVE  TypeOK'
  <1>1. CASE SelectJobs(r)
    <2>1. Takable \subseteq Job
      BY DEF Takable, Waiting
    <2> QED
      BY <1>1, <2>1 DEF SelectJobs, TypeOK, RunnerState, lockVars, jobVars
  <1>2. CASE CommitTaken(r)
    BY <1>2 DEF CommitTaken, TypeOK, RunnerState, lockVars
  <1>3. CASE StartJob(r)
    <2>1. PICK j \in runner[r].taken :
            /\ runner' = [runner EXCEPT ![r] = [doing |-> "executing", current |-> j,
                                                taken |-> runner[r].taken \ {j}]]
            /\ executions' = [executions EXCEPT ![j] = @ + 1]
      BY <1>3 DEF StartJob
    <2>2. runner[r] \in RunnerState /\ j \in Job
      BY <2>1 DEF TypeOK, RunnerState
    <2>3. [doing |-> "executing", current |-> j, taken |-> runner[r].taken \ {j}]
          \in RunnerState
      BY <2>2 DEF RunnerState
    <2>4. runner' \in [Runner -> RunnerState] /\ executions' \in [Job -> Nat]
      BY <2>1, <2>2, <2>3 DEF TypeOK
    <2> QED
      BY <1>3, <2>4 DEF StartJob, TypeOK, lockVars
  <1>4. CASE EndJob(r)
    <2>1. runner[r] \in RunnerState
      BY DEF TypeOK
    <2>2. [runner[r] EXCEPT !.doing = "taken", !.current = NoJob] \in RunnerState
      BY <2>1 DEF RunnerState
    <2>3. IdleRunner \in RunnerState
      BY DEF IdleRunner, RunnerState
    <2>4. runner' \in [Runner -> RunnerState]
      BY <1>4, <2>2, <2>3 DEF EndJob, TypeOK
    <2>5. PICK result \in {"completed", "failed"} :
            jobs' = [jobs EXCEPT ![runner[r].current] = result]
      BY <1>4 DEF EndJob
    <2>6. jobs' \in [Job -> {"none", "pending", "running", "completed", "failed"}]
      BY <2>5 DEF TypeOK
    <2> QED
      BY <1>4, <2>4, <2>6 DEF EndJob, TypeOK, lockVars
  <1>5. CASE RunnerStops(r)
    BY <1>5 DEF RunnerStops, TypeOK, RunnerState, IdleRunner, lockVars, jobVars
  <1> QED
    BY <1>1, <1>2, <1>3, <1>4, <1>5 DEF Run

(* Lemma: every step keeps the types.                                      *)
LEMMA TypeNext == TypeOK /\ [Next]_vars => TypeOK'
  <1> SUFFICES ASSUME TypeOK, [Next]_vars PROVE TypeOK'
    OBVIOUS
  <1>1. CASE Expire
    BY <1>1 DEF Expire, TypeOK, jobVars
  <1>2. CASE UNCHANGED vars
    BY <1>2 DEF vars, lockVars, jobVars, TypeOK
  <1> QED
    BY <1>1, <1>2, TypeWorker, TypeRunner DEF Next

(* Every reachable state of the lock, the task and the job table has its   *)
(* type.                                                                   *)
THEOREM TypeCorrect == Spec => []TypeOK
  <1>1. Init => TypeOK
    <2>1. IdleWorker \in WorkerState /\ IdleRunner \in RunnerState
      BY DEF WorkerState, IdleWorker, RunnerState, IdleRunner
    <2>2. Init => owed \in BOOLEAN
      BY DEF Init
    <2> QED
      BY <2>1, <2>2 DEF Init, TypeOK
  <1> QED
    BY <1>1, TypeNext, PTL DEF Spec

-----------------------------------------------------------------------------
(* The lock                                                                *)

(* A run whose lock has not run out is named in Redis.                     *)
LockAgrees == \A w \in Worker : Holding(w) /\ w \notin expired => lock = w

(* Lemma: a worker that keeps lock, key and expiry keeps LockAgrees; it    *)
(* may stop holding.                                                       *)
LEMMA LockKept ==
  ASSUME LockAgrees, lock' = lock,
         \A w \in Worker : Holding(w)' /\ w \notin expired' =>
                           Holding(w) /\ w \notin expired
  PROVE  LockAgrees'
  BY DEF LockAgrees

(* Lemma: no step takes the key of a run whose time is not over.           *)
LEMMA LockNext == TypeOK /\ LockAgrees /\ [Next]_vars => LockAgrees'
  <1> SUFFICES ASSUME TypeOK, LockAgrees, [Next]_vars PROVE LockAgrees'
    OBVIOUS
  <1> USE DEF TypeOK, Holding
  <1>1. ASSUME NEW w \in Worker, StartLocked(w) PROVE LockAgrees'
    BY <1>1, ProcessesAssumption DEF StartLocked, LockAgrees, IdleWorker, WorkerState
  <1>2. ASSUME NEW w \in Worker, StartDegraded(w) PROVE LockAgrees'
    <2>1. worker'[w].degraded
      BY <1>2 DEF StartDegraded, IdleWorker
    <2>2. \A v \in Worker : v # w => worker'[v] = worker[v]
      BY <1>2 DEF StartDegraded
    <2>3. expired' = expired /\ (lock' = lock \/ lock = Nobody)
      BY <1>2 DEF StartDegraded
    <2> QED
      BY <2>1, <2>2, <2>3, ProcessesAssumption DEF LockAgrees
  <1>3. CASE Expire
    BY <1>3 DEF Expire, LockAgrees
  <1>4. ASSUME NEW w \in Worker, CleanupEnds(w) PROVE LockAgrees'
    <2>1. \A v \in Worker : worker'[v].degraded = worker[v].degraded
                            /\ (worker[v].doing = "idle" => worker'[v].doing = "idle")
      BY <1>4 DEF CleanupEnds, WorkerState
    <2> QED
      BY <1>4, <2>1, LockKept DEF CleanupEnds
  <1>5. ASSUME NEW w \in Worker, Asked(w), worker[w].doing # "idle", UNCHANGED <<lock, expired>>
        PROVE  LockAgrees'
    <2>1. \A v \in Worker : Holding(v)' => Holding(v)
      BY <1>5 DEF Asked, WorkerState, IdleWorker
    <2> QED
      BY <1>5, <2>1, LockKept
  <1>6. ASSUME NEW w \in Worker, Ask(w) PROVE LockAgrees'
    <2>1. CASE Asked(w)
      BY <1>5, <1>6, <2>1 DEF Ask
    <2>2. CASE worker' = [worker EXCEPT ![w].doing = "inserting"]
      <3>1. \A v \in Worker : Holding(v)' => Holding(v)
        BY <1>6, <2>2 DEF Ask, WorkerState
      <3> QED
        BY <1>6, <3>1, LockKept DEF Ask
    <2> QED
      BY <1>6, <2>1, <2>2 DEF Ask
  <1>7. ASSUME NEW w \in Worker, Insert(w) PROVE LockAgrees'
    BY <1>5, <1>7 DEF Insert
  <1>8. ASSUME NEW w \in Worker, AskFails(w) PROVE LockAgrees'
    <2>1. \A v \in Worker : Holding(v)' => Holding(v)
      BY <1>8 DEF AskFails, WorkerState, IdleWorker
    <2> QED
      BY <1>8, <2>1, LockKept DEF AskFails
  <1>9. ASSUME NEW w \in Worker, Release(w) PROVE LockAgrees'
    <2>1. ~Holding(w)'
      BY <1>9 DEF Release, WorkerState, IdleWorker
    <2>2. \A v \in Worker \ {w} : worker'[v] = worker[v] /\ (v \in expired' <=> v \in expired)
      BY <1>9 DEF Release
    <2>3. lock' = lock \/ lock = w
      BY <1>9 DEF Release, ReleaseLock
    <2> QED
      BY <2>1, <2>2, <2>3 DEF LockAgrees
  <1>10. ASSUME NEW w \in Worker, WorkerDies(w) PROVE LockAgrees'
    BY <1>10 DEF WorkerDies, LockAgrees, IdleWorker
  <1>11. ASSUME NEW r \in Runner, Run(r) \/ RunnerStops(r) PROVE LockAgrees'
    BY <1>11 DEF Run, SelectJobs, CommitTaken, StartJob, EndJob, RunnerStops, lockVars,
                 LockAgrees
  <1>12. CASE UNCHANGED vars
    BY <1>12 DEF vars, lockVars, LockAgrees
  <1> QED
    BY <1>1, <1>2, <1>3, <1>4, <1>6, <1>7, <1>8, <1>9, <1>10, <1>11, <1>12 DEF Next

(* Of two runs that overlap one had no lock or outlived it.                *)
THEOREM LockedRunsExcludeAlways == Spec => []LockedRunsExclude
  <1>1. Init => LockAgrees
    BY DEF Init, LockAgrees, Holding, IdleWorker
  <1>2. LockAgrees => LockedRunsExclude
    BY DEF LockAgrees, LockedRunsExclude
  <1> QED
    BY <1>1, <1>2, TypeCorrect, LockNext, PTL DEF Spec

-----------------------------------------------------------------------------
(* The job table                                                           *)

(* Only what a runner has begun was executed.                              *)
RowsAgree ==
  \A j \in Job :
    /\ executions[j] <= 1
    /\ jobs[j] \in {"none", "pending"} => executions[j] = 0
    /\ jobs[j] \in {"completed", "failed"} => executions[j] = 1

(* What a runner holds is in the state that the runner has put it in.      *)
RunnerAgrees(r) ==
  /\ runner[r].doing = "idle" => runner[r].taken = {}
  /\ runner[r].doing = "selected" => \A j \in runner[r].taken : jobs[j] = "pending"
  /\ runner[r].doing \in {"taken", "executing"} =>
       \A j \in runner[r].taken : jobs[j] = "running" /\ executions[j] = 0
  /\ IF runner[r].doing = "executing"
       THEN /\ runner[r].current \in Job
            /\ jobs[runner[r].current] = "running"
            /\ executions[runner[r].current] = 1
       ELSE runner[r].current = NoJob

(* No two runners hold the same row.                                       *)
Apart(q, r) ==
  /\ runner[q].taken \cap runner[r].taken = {}
  /\ runner[q].current = runner[r].current => runner[q].current = NoJob

JobInv ==
  /\ RowsAgree
  /\ \A r \in Runner : RunnerAgrees(r)
  /\ \A q, r \in Runner : q # r => Apart(q, r)

(* Lemma: steps that leave rows and runners alone keep JobInv.             *)
LEMMA JobsKept ==
  ASSUME JobInv, UNCHANGED <<jobs, executions, runner>>
  PROVE  JobInv'
  BY DEF JobInv, RowsAgree, RunnerAgrees, Apart

(* Lemma: a new row is nobody's.                                           *)
LEMMA JobsInsert ==
  ASSUME TypeOK, JobInv, NEW w \in Worker, Insert(w)
  PROVE  JobInv'
  <1>1. PICK j \in Job : jobs[j] = "none" /\ jobs' = [jobs EXCEPT ![j] = "pending"]
    BY DEF Insert
  <1>2. runner' = runner /\ executions' = executions
    BY DEF Insert
  <1>3. \A i \in Job : jobs'[i] = IF i = j THEN "pending" ELSE jobs[i]
    BY <1>1 DEF TypeOK
  <1>4. RowsAgree'
    BY <1>1, <1>2, <1>3 DEF JobInv, RowsAgree
  <1>5. ASSUME NEW r \in Runner PROVE RunnerAgrees(r)'
    <2>1. runner[r].taken \subseteq Job
      BY DEF TypeOK, RunnerState
    <2> QED
      BY <1>1, <1>2, <1>3, <2>1 DEF JobInv, RunnerAgrees
  <1> QED
    BY <1>2, <1>4, <1>5 DEF JobInv, Apart

(* Lemma: a runner takes rows that no other runner holds: those selected   *)
(* are locked, the others no longer wait.                                  *)
LEMMA JobsSelected ==
  ASSUME TypeOK, JobInv, NEW r \in Runner, SelectJobs(r)
  PROVE  JobInv'
  <1>1. PICK chosen \in SUBSET Takable :
          runner' = [runner EXCEPT ![r].doing = "selected", ![r].taken = chosen]
    BY DEF SelectJobs
  <1>2. jobs' = jobs /\ executions' = executions /\ runner[r].doing = "idle"
    BY DEF SelectJobs, jobVars
  <1>3. /\ runner'[r].doing = "selected" /\ runner'[r].taken = chosen
        /\ runner'[r].current = runner[r].current
    BY <1>1 DEF TypeOK, RunnerState
  <1>4. \A q \in Runner \ {r} : runner'[q] = runner[q]
    BY <1>1 DEF TypeOK
  <1>5. \A j \in chosen : j \in Job /\ jobs[j] = "pending" /\ j \notin Locked
    BY DEF Takable, Waiting
  <1>6. RunnerAgrees(r)'
    BY <1>2, <1>3, <1>5 DEF JobInv, RunnerAgrees
  <1>7. ASSUME NEW q \in Runner \ {r} PROVE RunnerAgrees(q)'
    BY <1>2, <1>4 DEF JobInv, RunnerAgrees
  <1>8. ASSUME NEW q \in Runner \ {r} PROVE runner[q].taken \cap chosen = {}
    <2>1. CASE runner[q].doing = "selected"
      BY <1>5, <2>1 DEF Locked
    <2>2. CASE runner[q].doing # "selected"
      <3>1. runner[q].doing \in {"idle", "taken", "executing"}
        BY <2>2 DEF TypeOK, RunnerState
      <3> QED
        BY <1>5, <3>1 DEF JobInv, RunnerAgrees
    <2> QED
      BY <2>1, <2>2
  <1>9. ASSUME NEW p \in Runner, NEW q \in Runner, p # q PROVE Apart(p, q)'
    BY <1>3, <1>4, <1>8, <1>9 DEF JobInv, Apart
  <1> QED
    BY <1>2, <1>6, <1>7, <1>9 DEF JobInv, RowsAgree

(* Lemma: the rows a runner marks as running are its own.                  *)
LEMMA JobsCommitted ==
  ASSUME TypeOK, JobInv, NEW r \in Runner, CommitTaken(r)
  PROVE  JobInv'
  <1>1. /\ runner[r].doing = "selected" /\ executions' = executions
        /\ runner' = [runner EXCEPT ![r].doing = "taken"]
        /\ \A j \in Job : jobs'[j] = IF j \in runner[r].taken THEN "running" ELSE jobs[j]
    BY DEF CommitTaken
  <1>2. /\ runner'[r].doing = "taken" /\ runner'[r].taken = runner[r].taken
        /\ runner'[r].current = runner[r].current
    BY <1>1 DEF TypeOK, RunnerState
  <1>3. \A q \in Runner \ {r} : runner'[q] = runner[q]
    BY <1>1 DEF TypeOK
  <1>4. \A j \in runner[r].taken : j \in Job /\ jobs[j] = "pending" /\ executions[j] = 0
    BY <1>1 DEF JobInv, RunnerAgrees, RowsAgree, TypeOK, RunnerState
  <1>5. RowsAgree'
    BY <1>1, <1>4 DEF JobInv, RowsAgree
  <1>6. RunnerAgrees(r)'
    BY <1>1, <1>2, <1>4 DEF JobInv, RunnerAgrees
  <1>7. ASSUME NEW q \in Runner \ {r} PROVE RunnerAgrees(q)'
    <2>1. RunnerAgrees(q) /\ Apart(q, r)
      BY DEF JobInv
    <2>2. runner[q].taken \subseteq Job
      BY DEF TypeOK, RunnerState
    <2>3. \A j \in runner[q].taken : jobs'[j] = jobs[j]
      BY <1>1, <2>1, <2>2 DEF Apart
    <2> QED
      BY <1>1, <1>3, <1>4, <2>1, <2>2, <2>3 DEF RunnerAgrees
  <1>8. ASSUME NEW p \in Runner, NEW q \in Runner, p # q PROVE Apart(p, q)'
    BY <1>2, <1>3, <1>8 DEF JobInv, Apart
  <1> QED
    BY <1>5, <1>6, <1>7, <1>8 DEF JobInv

(* Lemma: a job is begun by the one runner that holds it, and for the      *)
(* first time.                                                             *)
LEMMA JobsStarted ==
  ASSUME TypeOK, JobInv, NEW r \in Runner, StartJob(r)
  PROVE  JobInv'
  <1>1. PICK j \in runner[r].taken :
          /\ runner' = [runner EXCEPT ![r] = [doing |-> "executing", current |-> j,
                                              taken |-> runner[r].taken \ {j}]]
          /\ executions' = [executions EXCEPT ![j] = @ + 1]
    BY DEF StartJob
  <1>2. runner[r].doing = "taken" /\ jobs' = jobs
    BY DEF StartJob
  <1>3. /\ runner'[r].doing = "executing" /\ runner'[r].taken = runner[r].taken \ {j}
        /\ runner'[r].current = j
    BY <1>1 DEF TypeOK
  <1>4. \A q \in Runner \ {r} : runner'[q] = runner[q]
    BY <1>1 DEF TypeOK
  <1>5. runner[r].taken \subseteq Job /\ jobs[j] = "running" /\ executions[j] = 0
    BY <1>2 DEF JobInv, RunnerAgrees, TypeOK, RunnerState
  <1>6. /\ executions'[j] = 1
        /\ \A i \in Job \ {j} : executions'[i] = executions[i]
    BY <1>1, <1>5 DEF TypeOK
  <1>7. RowsAgree'
    BY <1>2, <1>5, <1>6 DEF JobInv, RowsAgree
  <1>8. RunnerAgrees(r)'
    BY <1>2, <1>3, <1>5, <1>6 DEF JobInv, RunnerAgrees
  <1>9. ASSUME NEW q \in Runner \ {r} PROVE RunnerAgrees(q)' /\ runner[q].current # j
    <2>1. RunnerAgrees(q) /\ Apart(q, r)
      BY DEF JobInv
    <2>2. runner[q].taken \subseteq Job /\ j \notin runner[q].taken /\ runner[q].current # j
      BY <1>5, <2>1 DEF RunnerAgrees, Apart, TypeOK, RunnerState
    <2> QED
      BY <1>2, <1>4, <1>6, <2>1, <2>2 DEF RunnerAgrees
  <1>10. ASSUME NEW p \in Runner, NEW q \in Runner, p # q PROVE Apart(p, q)'
    BY <1>3, <1>4, <1>9, <1>10 DEF JobInv, Apart
  <1> QED
    BY <1>7, <1>8, <1>9, <1>10 DEF JobInv

(* Lemma: a result is written to a row that nobody else holds.             *)
LEMMA JobsEnded ==
  ASSUME TypeOK, JobInv, NEW r \in Runner, EndJob(r)
  PROVE  JobInv'
  <1> DEFINE c == runner[r].current
  <1>1. PICK result \in {"completed", "failed"} : jobs' = [jobs EXCEPT ![c] = result]
    BY DEF EndJob
  <1>2. runner[r].doing = "executing" /\ executions' = executions
    BY DEF EndJob
  <1>3. c \in Job /\ jobs[c] = "running" /\ executions[c] = 1
    BY <1>2 DEF JobInv, RunnerAgrees
  <1>4. \A i \in Job : jobs'[i] = IF i = c THEN result ELSE jobs[i]
    BY <1>1 DEF TypeOK
  <1>5. /\ runner'[r].doing \in {"idle", "taken"}
        /\ runner'[r].doing = "idle" => runner'[r].taken = {}
        /\ runner'[r].taken = runner[r].taken
        /\ runner'[r].current = NoJob
    <2>1. runner'[r] = IF runner[r].taken = {} THEN IdleRunner
                       ELSE [runner[r] EXCEPT !.doing = "taken", !.current = NoJob]
      BY DEF EndJob, TypeOK
    <2>2. runner[r] \in RunnerState
      BY DEF TypeOK
    <2>3. CASE runner[r].taken = {}
      BY <2>1, <2>3 DEF IdleRunner
    <2>4. CASE runner[r].taken # {}
      <3>1. runner'[r] = [runner[r] EXCEPT !.doing = "taken", !.current = NoJob]
        BY <2>1, <2>4
      <3> QED
        BY <2>2, <3>1 DEF RunnerState
    <2> QED
      BY <2>3, <2>4
  <1>6. \A q \in Runner \ {r} : runner'[q] = runner[q]
    BY DEF EndJob, TypeOK
  <1>7. RowsAgree'
    BY <1>1, <1>2, <1>3, <1>4 DEF JobInv, RowsAgree
  <1>8. RunnerAgrees(r)'
    <2>1. runner[r].taken \subseteq Job
      BY DEF TypeOK, RunnerState
    <2> QED
      BY <1>2, <1>3, <1>4, <1>5, <2>1 DEF JobInv, RunnerAgrees
  <1>9. ASSUME NEW q \in Runner \ {r} PROVE RunnerAgrees(q)'
    <2>1. RunnerAgrees(q) /\ Apart(q, r)
      BY DEF JobInv
    <2>2. runner[q].taken \subseteq Job /\ runner[q].current # c /\ c \notin runner[q].taken
      <3>1. runner[q].doing \in {"idle", "selected", "taken", "executing"}
            /\ runner[q].taken \subseteq Job
        BY DEF TypeOK, RunnerState
      <3> QED
        BY <1>3, <2>1, <3>1 DEF RunnerAgrees, Apart
    <2> QED
      BY <1>2, <1>4, <1>6, <2>1, <2>2 DEF RunnerAgrees
  <1>10. ASSUME NEW p \in Runner, NEW q \in Runner, p # q PROVE Apart(p, q)'
    BY <1>5, <1>6, <1>10 DEF JobInv, Apart
  <1> QED
    BY <1>7, <1>8, <1>9, <1>10 DEF JobInv

(* Lemma: a runner that stops lets go of everything it holds.              *)
LEMMA JobsDropped ==
  ASSUME TypeOK, JobInv, NEW r \in Runner, RunnerStops(r)
  PROVE  JobInv'
  <1>1. /\ runner'[r].doing = "idle" /\ runner'[r].taken = {}
        /\ runner'[r].current = NoJob
        /\ \A q \in Runner \ {r} : runner'[q] = runner[q]
    BY DEF RunnerStops, TypeOK, IdleRunner
  <1>2. jobs' = jobs /\ executions' = executions
    BY DEF RunnerStops, jobVars
  <1> QED
    BY <1>1, <1>2 DEF JobInv, RowsAgree, RunnerAgrees, Apart

(* Lemma: every step keeps JobInv.                                         *)
LEMMA JobNext == TypeOK /\ JobInv /\ [Next]_vars => JobInv'
  <1> SUFFICES ASSUME TypeOK, JobInv, [Next]_vars PROVE JobInv'
    OBVIOUS
  <1>1. CASE Expire
    BY <1>1, JobsKept DEF Expire, jobVars
  <1>2. ASSUME NEW w \in Worker,
               \/ StartLocked(w) \/ StartDegraded(w) \/ CleanupEnds(w) \/ Ask(w)
               \/ AskFails(w) \/ Release(w) \/ WorkerDies(w)
        PROVE  JobInv'
    BY <1>2, JobsKept DEF StartLocked, StartDegraded, CleanupEnds, Ask, AskFails, Release,
                          WorkerDies, jobVars
  <1>3. ASSUME NEW r \in Runner, Run(r) \/ RunnerStops(r) PROVE JobInv'
    BY <1>3, JobsSelected, JobsCommitted, JobsStarted, JobsEnded, JobsDropped DEF Run
  <1>4. CASE UNCHANGED vars
    BY <1>4, JobsKept DEF vars, jobVars
  <1> QED
    BY <1>1, <1>2, <1>3, <1>4, JobsInsert DEF Next

(* Lemma: JobInv holds at the start.                                       *)
LEMMA JobInit == Init => JobInv
  BY DEF Init, JobInv, RowsAgree, RunnerAgrees, Apart, IdleRunner

(* No maintenance job is executed twice, whatever runners cron starts and  *)
(* whichever of them stop.                                                 *)
THEOREM JobExecutedOnceAlways == Spec => []JobExecutedOnce
  <1>1. JobInv => JobExecutedOnce
    BY DEF JobInv, RowsAgree, JobExecutedOnce
  <1> QED
    BY <1>1, JobInit, TypeCorrect, JobNext, PTL DEF Spec

-----------------------------------------------------------------------------
(* What is owed                                                            *)

(* Lemma: steps that leave the rows and the runners alone keep             *)
(* OwedIsAhead, if they owe nothing new or see a row that waits.           *)
LEMMA OwedKept ==
  ASSUME OwedIsAhead, UNCHANGED <<jobs, runner>>, UNCHANGED owed \/ Waiting # {}
  PROVE  OwedIsAhead'
  BY DEF OwedIsAhead, Waiting, Abandoned

(* Lemma: a row that was inserted waits.                                   *)
LEMMA OwedInserted ==
  ASSUME TypeOK, NEW w \in Worker, Insert(w)
  PROVE  OwedIsAhead'
  <1>1. PICK j \in Job : jobs' = [jobs EXCEPT ![j] = "pending"]
    BY DEF Insert
  <1>2. j \in Waiting'
    BY <1>1 DEF TypeOK, Waiting
  <1> QED
    BY <1>2 DEF OwedIsAhead

(* Lemma: an idle runner held nothing, and what it takes still waits.      *)
LEMMA OwedSelected ==
  ASSUME TypeOK, JobInv, OwedIsAhead, NEW r \in Runner, SelectJobs(r)
  PROVE  OwedIsAhead'
  <1>1. PICK chosen \in SUBSET Takable :
          runner' = [runner EXCEPT ![r].doing = "selected", ![r].taken = chosen]
    BY DEF SelectJobs
  <1>2. jobs' = jobs /\ Takable # {}
    BY DEF SelectJobs, jobVars
  <1>3. Waiting' # {}
    BY <1>2 DEF Takable, Waiting
  <1> QED
    BY <1>3 DEF OwedIsAhead

(* Lemma: a row that waited still waits or was taken.                      *)
LEMMA OwedCommitted ==
  ASSUME TypeOK, JobInv, OwedIsAhead, NEW r \in Runner, CommitTaken(r)
  PROVE  OwedIsAhead'
  <1>1. /\ owed' = owed
        /\ \A j \in Job : jobs'[j] = IF j \in runner[r].taken THEN "running" ELSE jobs[j]
    BY DEF CommitTaken
  <1>2. /\ runner'[r].doing = "taken" /\ runner'[r].taken = runner[r].taken
        /\ runner'[r].current = runner[r].current
        /\ \A q \in Runner \ {r} : runner'[q] = runner[q]
    BY DEF CommitTaken, TypeOK, RunnerState
  <1> SUFFICES ASSUME owed PROVE OwedIsAhead'
    BY <1>1 DEF OwedIsAhead
  <1>3. CASE Waiting # {}
    <2>1. PICK j \in Waiting : TRUE
      BY <1>3
    <2>2. CASE j \in runner[r].taken
      BY <1>2, <2>2 DEF OwedIsAhead
    <2>3. CASE j \notin runner[r].taken
      BY <1>1, <2>1, <2>3 DEF OwedIsAhead, Waiting
    <2> QED
      BY <2>2, <2>3
  <1>4. CASE Abandoned # {}
    <2>1. PICK j \in Abandoned : TRUE
      BY <1>4
    <2>2. j \in Abandoned'
      BY <1>1, <1>2, <2>1 DEF Abandoned
    <2> QED
      BY <2>2 DEF OwedIsAhead
  <1>5. CASE \E q \in Runner : runner[q].doing # "selected" /\ runner[q].taken # {}
    BY <1>2, <1>5 DEF OwedIsAhead, CommitTaken
  <1> QED
    BY <1>3, <1>4, <1>5 DEF OwedIsAhead

(* Lemma: the end of one job touches no row that is still ahead.           *)
LEMMA OwedEnded ==
  ASSUME TypeOK, JobInv, OwedIsAhead, NEW r \in Runner, EndJob(r)
  PROVE  OwedIsAhead'
  <1> DEFINE c == runner[r].current
  <1>1. PICK result \in {"completed", "failed"} : jobs' = [jobs EXCEPT ![c] = result]
    BY DEF EndJob
  <1>2. owed' = owed /\ runner[r].doing = "executing"
    BY DEF EndJob
  <1>3. c \in Job /\ jobs[c] = "running"
    BY <1>2 DEF JobInv, RunnerAgrees
  <1>4. \A i \in Job \ {c} : jobs'[i] = jobs[i]
    BY <1>1 DEF TypeOK
  <1>5. /\ runner'[r].doing # "selected" /\ runner'[r].taken = runner[r].taken
        /\ runner'[r].current = NoJob
        /\ \A q \in Runner \ {r} : runner'[q] = runner[q]
    <2>1. runner'[r] = IF runner[r].taken = {} THEN IdleRunner
                       ELSE [runner[r] EXCEPT !.doing = "taken", !.current = NoJob]
      BY DEF EndJob, TypeOK
    <2>2. runner[r] \in RunnerState /\ \A q \in Runner \ {r} : runner'[q] = runner[q]
      BY DEF EndJob, TypeOK
    <2>3. CASE runner[r].taken = {}
      BY <2>1, <2>2, <2>3 DEF IdleRunner
    <2>4. CASE runner[r].taken # {}
      <3>1. runner'[r] = [runner[r] EXCEPT !.doing = "taken", !.current = NoJob]
        BY <2>1, <2>4
      <3> QED
        BY <2>2, <3>1 DEF RunnerState
    <2> QED
      BY <2>3, <2>4
  <1>6. Waiting \subseteq Waiting'
    BY <1>3, <1>4 DEF Waiting
  <1>7. Abandoned \subseteq Abandoned'
    BY <1>4, <1>5 DEF Abandoned
  <1>8. ASSUME NEW q \in Runner, runner[q].doing # "selected", runner[q].taken # {}
        PROVE  runner'[q].doing # "selected" /\ runner'[q].taken # {}
    BY <1>5, <1>8
  <1> QED
    BY <1>2, <1>6, <1>7, <1>8 DEF OwedIsAhead

(* Lemma: what a runner that stops held waits, or is abandoned.            *)
LEMMA OwedDropped ==
  ASSUME TypeOK, JobInv, OwedIsAhead, NEW r \in Runner, RunnerStops(r)
  PROVE  OwedIsAhead'
  <1>1. /\ runner'[r].taken = {} /\ runner'[r].current = NoJob
        /\ \A q \in Runner \ {r} : runner'[q] = runner[q]
    BY DEF RunnerStops, TypeOK, IdleRunner
  <1>2. jobs' = jobs /\ owed' = owed /\ runner[r].doing # "idle"
    BY DEF RunnerStops, jobVars
  <1>3. Waiting' = Waiting
    BY <1>2 DEF Waiting
  <1>4. Abandoned \subseteq Abandoned'
    BY <1>1, <1>2 DEF Abandoned
  <1>5. ASSUME runner[r].doing # "selected", NEW j \in runner[r].taken
        PROVE  j \in Abandoned'
    <2>1. j \in Job /\ jobs[j] = "running" /\ executions[j] = 0
      BY <1>2, <1>5 DEF JobInv, RunnerAgrees, TypeOK, RunnerState
    <2>2. ASSUME NEW q \in Runner \ {r}
          PROVE  j # runner[q].current /\ j \notin runner[q].taken
      <3>1. RunnerAgrees(q) /\ Apart(q, r)
        BY DEF JobInv
      <3> QED
        BY <2>1, <3>1 DEF RunnerAgrees, Apart
    <2> QED
      BY <1>1, <1>2, <2>1, <2>2 DEF Abandoned
  <1>6. ASSUME NEW q \in Runner, runner[q].doing # "selected", runner[q].taken # {}
        PROVE  \/ runner'[q].doing # "selected" /\ runner'[q].taken # {}
               \/ Abandoned' # {}
    BY <1>1, <1>5, <1>6
  <1> QED
    BY <1>2, <1>3, <1>4, <1>6 DEF OwedIsAhead

(* Lemma: every step keeps OwedIsAhead.                                    *)
LEMMA OwedNext == TypeOK /\ JobInv /\ OwedIsAhead /\ [Next]_vars => OwedIsAhead'
  <1> SUFFICES ASSUME TypeOK, JobInv, OwedIsAhead, [Next]_vars PROVE OwedIsAhead'
    OBVIOUS
  <1>1. CASE Expire
    BY <1>1, OwedKept DEF Expire, jobVars
  <1>2. ASSUME NEW w \in Worker,
               \/ StartLocked(w) \/ StartDegraded(w) \/ CleanupEnds(w)
               \/ AskFails(w) \/ Release(w) \/ WorkerDies(w)
        PROVE  OwedIsAhead'
    BY <1>2, OwedKept DEF StartLocked, StartDegraded, CleanupEnds, AskFails, Release,
                          WorkerDies, jobVars
  <1>3. ASSUME NEW w \in Worker, Ask(w) PROVE OwedIsAhead'
    BY <1>3, OwedKept DEF Ask, ExistingJobs
  <1>4. ASSUME NEW r \in Runner, StartJob(r) PROVE OwedIsAhead'
    BY <1>4 DEF StartJob, OwedIsAhead
  <1>5. ASSUME NEW r \in Runner, Run(r) \/ RunnerStops(r) PROVE OwedIsAhead'
    BY <1>4, <1>5, OwedSelected, OwedCommitted, OwedEnded, OwedDropped DEF Run
  <1>6. CASE UNCHANGED vars
    BY <1>6, OwedKept DEF vars, jobVars
  <1> QED
    BY <1>1, <1>2, <1>3, <1>5, <1>6, OwedInserted DEF Next

(* A cleanup left to the table is ahead as long as no runner that stopped  *)
(* has lost its jobs.                                                      *)
THEOREM OwedIsAheadAlways == Spec => []OwedIsAhead
  <1>1. Init => OwedIsAhead
    BY DEF Init, OwedIsAhead
  <1> QED
    BY <1>1, JobInit, TypeCorrect, JobNext, OwedNext, PTL DEF Spec
=============================================================================
