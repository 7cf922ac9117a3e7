----------------------------- MODULE PrintJobs -----------------------------
(***************************************************************************)
(* The print job of one order: created with the POS order or by the        *)
(* payment callback, carried to workers by Celery messages, printed        *)
(* through a webhook, retried by Celery and by the recovery task.  Jobs of *)
(* different orders share no row.                                          *)
(*                                                                         *)
(* execute_print_job locks the row only to claim the job; it calls the     *)
(* printer and writes the result without a lock.  The callback locks the   *)
(* order but reads the job without a lock.  Each UPDATE writes only the    *)
(* columns that the session changed.                                       *)
(***************************************************************************)
EXTENDS Naturals, FiniteSets

CONSTANTS
  Worker,         \* processes and threads that run execute_print_job
  WithPrinter,    \* those whose settings have a printer_webhook_url; by default none has
  RetryMax,       \* settings.print_retry_max, also max_retries of the Celery task
  Notifications,  \* bound: payment callbacks for the order
  MaxMessages,    \* bound: messages in the broker at a time; further ones are lost
  MaxCrashes      \* bound: workers that die in the middle of a job

ASSUME WorkersAssumption == IsFiniteSet(Worker) /\ WithPrinter \subseteq Worker

ASSUME LimitsAssumption ==
  /\ RetryMax \in Nat
  /\ Notifications \in Nat
  /\ MaxMessages \in Nat
  /\ MaxCrashes \in Nat

VARIABLES
  job,       \* the row of print_jobs; status "none" before it is inserted
  messages,  \* process_print_job messages in the broker, by retries so far
  worker,    \* what each worker does, and the message it does it for
  saw,       \* the job status that a running callback read; "idle" if none runs
  notified,  \* callbacks so far
  calls,     \* requests sent to the printer
  printed,   \* the printer accepted one
  passedOver, \* a worker without a printer took the job for printed
  refused,   \* the printer answered one with 4xx
  reported,  \* audit_logs has a "system.print_job_failed" row
  crashes

vars == <<job, messages, worker, saw, notified, calls, printed, passedOver, refused,
          reported, crashes>>

JobStatus == {"none", "pending", "processing", "done", "failed"}

\* next_try_at: NULL, not in the future, in the future.
Next_try == {"null", "due", "later"}

WorkerState == [doing   : {"nothing", "calling", "ok", "refused", "retry"},
                retries : 0..RetryMax]

Idle == [doing |-> "nothing", retries |-> 0]

TypeOK ==
  /\ job \in [status : JobStatus, tries : Nat, next : Next_try]
  /\ messages \in [0..RetryMax -> Nat]
  /\ worker \in [Worker -> WorkerState]
  /\ saw \in JobStatus \cup {"idle"}
  /\ notified \in 0..Notifications
  /\ calls \in Nat
  /\ printed \in BOOLEAN /\ passedOver \in BOOLEAN
  /\ refused \in BOOLEAN /\ reported \in BOOLEAN
  /\ crashes \in 0..MaxCrashes

Init ==
  /\ job = [status |-> "none", tries |-> 0, next |-> "null"]
  /\ messages = [r \in 0..RetryMax |-> 0]
  /\ worker = [w \in Worker |-> Idle]
  /\ saw = "idle"
  /\ notified = 0
  /\ calls = 0
  /\ printed = FALSE /\ passedOver = FALSE /\ refused = FALSE /\ reported = FALSE
  /\ crashes = 0

-----------------------------------------------------------------------------
(* Celery                                                                  *)

\* apply_async, or the local fallback, whose run nobody retries.
Delivered(r) ==
  \E q \in {r, RetryMax} : /\ messages[q] < MaxMessages
                           /\ messages' = [messages EXCEPT ![q] = @ + 1]

\* enqueue_print_job after the commit: an error is logged and forgotten.
Enqueue(r) == Delivered(r) \/ UNCHANGED messages

\* The message is acknowledged before the task runs.
Receive(w, r) ==
  /\ worker[w].doing = "nothing"
  /\ messages[r] > 0
  /\ messages' = [messages EXCEPT ![r] = @ - 1]

-----------------------------------------------------------------------------
(* Where jobs come from                                                    *)

\* POST /admin/orders with print_job: the row is committed with its order.
CreateWithOrder ==
  /\ job.status = "none" /\ notified = 0
  /\ job' = [job EXCEPT !.status = "pending"]
  /\ Enqueue(0)
  /\ UNCHANGED <<worker, saw, notified, calls, printed, passedOver, refused, reported, crashes>>

\* handle_wechat_notification reads the order, locked, and its job, not locked.
CallbackReads ==
  /\ saw = "idle" /\ notified < Notifications
  /\ saw' = job.status
  /\ notified' = notified + 1
  /\ UNCHANGED <<job, messages, worker, calls, printed, passedOver, refused, reported, crashes>>

\* A new or failed job becomes pending; a pending one is due again.
CallbackWrites ==
  /\ saw # "idle"
  /\ saw' = "idle"
  /\ IF saw \in {"none", "failed", "pending"}
       THEN /\ job' = [job EXCEPT !.status = IF saw = "pending" THEN @ ELSE "pending",
                                  !.next = "due"]
            /\ Enqueue(0)
       ELSE UNCHANGED <<job, messages>>
  /\ UNCHANGED <<worker, notified, calls, printed, passedOver, refused, reported, crashes>>

\* The callback's transaction fails, or its process dies: WeChat will call again.
CallbackFails ==
  /\ saw # "idle"
  /\ saw' = "idle"
  /\ UNCHANGED <<job, messages, worker, notified, calls, printed, passedOver, refused, reported,
                 crashes>>

RecoverableIfFailed == job.status = "failed" /\ job.next = "due"

Recoverable ==
  \/ job.status = "pending" /\ job.next \in {"null", "due"}
  \/ job.status = "failed" /\ job.next = "due"

\* recover_print_jobs, one UPDATE, then trigger_print_job_recovery.
Reschedule ==
  /\ Recoverable
  /\ job' = [job EXCEPT !.status = "pending", !.next = "later"]
  /\ UNCHANGED <<worker, saw, notified, calls, printed, passedOver, refused, reported, crashes>>

Recover == Reschedule /\ Enqueue(0)

-----------------------------------------------------------------------------
(* execute_print_job                                                       *)

SkipDone(w, r) ==
  /\ Receive(w, r)
  /\ job.status = "done"
  /\ UNCHANGED <<job, worker, saw, notified, calls, printed, passedOver, refused, reported,
                 crashes>>

GiveUp(w, r) ==
  /\ Receive(w, r)
  /\ job.status # "done" /\ job.tries >= RetryMax
  /\ job' = [job EXCEPT !.status = "failed", !.next = "null"]
  /\ reported' = TRUE
  /\ UNCHANGED <<worker, saw, notified, calls, printed, passedOver, refused, crashes>>

ClaimOncePerMessage(w, r) ==
  /\ Receive(w, r)
  /\ job.status # "done" /\ job.tries < RetryMax
  /\ job' = [status |-> "processing", next |-> "null",
             tries |-> IF r > 0 THEN job.tries ELSE job.tries + 1]
  /\ worker' = [worker EXCEPT ![w] = [doing |-> "calling", retries |-> r]]
  /\ UNCHANGED <<saw, notified, calls, printed, passedOver, refused, reported, crashes>>

\* Any status but done may be claimed, "processing" too.
Claim(w, r) ==
  /\ Receive(w, r)
  /\ job.status # "done" /\ job.tries < RetryMax
  /\ job' = [status |-> "processing", tries |-> job.tries + 1, next |-> "null"]
  /\ worker' = [worker EXCEPT ![w] = [doing |-> "calling", retries |-> r]]
  /\ UNCHANGED <<saw, notified, calls, printed, passedOver, refused, reported, crashes>>

\* PrinterGateway.dispatch; a time-out or a 5xx may hide a printed receipt.
CallPrinter(w) ==
  /\ worker[w].doing = "calling" /\ w \in WithPrinter
  /\ calls' = calls + 1
  /\ \E answer \in {"ok", "refused", "retry"} :
       /\ worker' = [worker EXCEPT ![w].doing = answer]
       /\ printed' = (printed \/ answer = "ok")
       /\ refused' = (refused \/ answer = "refused")
  /\ UNCHANGED <<job, messages, saw, notified, passedOver, reported, crashes>>

\* Without a webhook dispatch logs a warning and returns as if it had printed.
PassOver(w) ==
  /\ worker[w].doing = "calling" /\ w \notin WithPrinter
  /\ worker' = [worker EXCEPT ![w].doing = "ok"]
  /\ passedOver' = TRUE
  /\ UNCHANGED <<job, messages, saw, notified, calls, printed, refused, reported, crashes>>

Finish(w) == worker' = [worker EXCEPT ![w] = Idle]

\* next_try_at was NULL in this session already: it is not written.
Succeed(w) ==
  /\ worker[w].doing = "ok"
  /\ job' = [job EXCEPT !.status = "done"]
  /\ Finish(w)
  /\ UNCHANGED <<messages, saw, notified, calls, printed, passedOver, refused, reported,
                 crashes>>

FailForGood(w) ==
  /\ worker[w].doing = "refused"
  /\ job' = [job EXCEPT !.status = "failed"]
  /\ reported' = TRUE
  /\ Finish(w)
  /\ UNCHANGED <<messages, saw, notified, calls, printed, passedOver, refused, crashes>>

FailUnscheduled(w) ==
  /\ worker[w].doing = "retry"
  /\ job' = [job EXCEPT !.status = "failed"]
  /\ IF worker[w].retries < RetryMax THEN Enqueue(worker[w].retries + 1)
                                     ELSE UNCHANGED messages
  /\ Finish(w)
  /\ UNCHANGED <<saw, notified, calls, printed, passedOver, refused, reported, crashes>>

FailAsDone(w) ==
  /\ worker[w].doing = "retry"
  /\ job' = [job EXCEPT !.status = "done"]
  /\ Finish(w)
  /\ UNCHANGED <<messages, saw, notified, calls, printed, passedOver, refused, reported,
                 crashes>>

FailSilently(w) ==
  /\ worker[w].doing = "retry"
  /\ Finish(w)
  /\ UNCHANGED <<job, messages, saw, notified, calls, printed, passedOver, refused, reported,
                 crashes>>

\* RetryablePrintJobError: scheduled for the recovery task and retried by Celery.
FailForNow(w) ==
  /\ worker[w].doing = "retry"
  /\ job' = [job EXCEPT !.status = "failed", !.next = "later"]
  /\ IF worker[w].retries < RetryMax THEN Enqueue(worker[w].retries + 1)
                                     ELSE UNCHANGED messages
  /\ Finish(w)
  /\ UNCHANGED <<saw, notified, calls, printed, passedOver, refused, reported, crashes>>

Crash(w) ==
  /\ worker[w].doing # "nothing" /\ crashes < MaxCrashes
  /\ crashes' = crashes + 1
  /\ Finish(w)
  /\ UNCHANGED <<job, messages, saw, notified, calls, printed, passedOver, refused, reported>>

TimePasses ==
  /\ job.next = "later"
  /\ job' = [job EXCEPT !.next = "due"]
  /\ UNCHANGED <<messages, worker, saw, notified, calls, printed, passedOver, refused, reported,
                 crashes>>

-----------------------------------------------------------------------------
Work(w) ==
  \/ \E r \in 0..RetryMax : SkipDone(w, r) \/ GiveUp(w, r) \/ Claim(w, r)
  \/ CallPrinter(w) \/ PassOver(w)
  \/ Succeed(w) \/ FailForGood(w) \/ FailForNow(w)

Next ==
  \/ CreateWithOrder
  \/ CallbackReads \/ CallbackWrites \/ CallbackFails
  \/ Recover
  \/ \E w \in Worker : Work(w) \/ Crash(w)
  \/ TimePasses

Spec == Init /\ [][Next]_vars

\* Celery beat starts the recovery task again and again, and not every message it
\* sends is lost; workers that are alive go on; time passes.
Fairness ==
  /\ SF_vars(Reschedule /\ Delivered(0))
  /\ \A w \in Worker : WF_vars(Work(w))
  /\ WF_vars(TimePasses)

FairSpec == Spec /\ Fairness

-----------------------------------------------------------------------------
Calling == {w \in Worker : worker[w].doing = "calling"}

(* The printer is called at most print_retry_max times for a job, however  *)
(* many callbacks, duplicate messages, recovery runs and workers there     *)
(* are: each call was counted in try_count before it was made.             *)
CallsBounded ==
  /\ calls + Cardinality(Calling) <= job.tries
  /\ job.tries <= RetryMax

(* A job that is marked done has been printed, although workers write      *)
(* their results without a lock over each other's, unless a worker without *)
(* a printer_webhook_url passed it over; where every worker has one, done  *)
(* means printed.                                                          *)
DoneMeansPrinted ==
  job.status = "done" => printed \/ (passedOver /\ WithPrinter # Worker)

(* A job that nothing will pick up again was given up for a reason, the    *)
(* retry limit or a refusal of the printer, and the audit log says so.     *)
AbandonedIsReported ==
  job.status = "failed" /\ job.next = "null" =>
    reported /\ (job.tries = RetryMax \/ refused)

Waiting == job.status = "pending" \/ (job.status = "failed" /\ job.next # "null")

(* A job that waits to be printed is taken up, also when the message was   *)
(* lost between the commit and the broker, or with the worker that had it. *)
WaitingIsTakenUp == Waiting ~> ~Waiting

Settled == job.status = "done" \/ (job.status = "failed" /\ job.next = "null")

(* A job ends done or reported, unless a worker died in the middle.        *)
SettlesUnlessCrashed == job.status # "none" ~> Settled \/ crashes > 0
=============================================================================
