-------------------------- MODULE PrintJobsProofs --------------------------
(***************************************************************************)
(* Theorems about PrintJobs, for any number of workers, messages and       *)
(* callbacks and any retry limit.                                          *)
(***************************************************************************)
EXTENDS PrintJobs, FiniteSetTheorems, TLAPS

(* Lemma: the initial row, broker and workers have their types.            *)
LEMMA TypeInit == Init => TypeOK
  <1> SUFFICES ASSUME Init PROVE TypeOK
    OBVIOUS
  <1>1. Idle \in WorkerState
    BY LimitsAssumption DEF Idle, WorkerState
  <1>2. worker \in [Worker -> WorkerState]
    BY <1>1 DEF Init
  <1>3. job \in [status : JobStatus, tries : Nat, next : Next_try]
    BY DEF Init, JobStatus, Next_try
  <1>4. messages \in [0..RetryMax -> Nat]
    BY DEF Init
  <1>5. /\ printed \in BOOLEAN /\ passedOver \in BOOLEAN
        /\ refused \in BOOLEAN /\ reported \in BOOLEAN
    BY DEF Init
  <1>6. saw \in JobStatus \cup {"idle"} /\ calls \in Nat
    BY DEF Init
  <1>7. notified \in 0..Notifications /\ crashes \in 0..MaxCrashes
    BY LimitsAssumption DEF Init
  <1> QED
    BY <1>2, <1>3, <1>4, <1>5, <1>6, <1>7 DEF TypeOK

(* Lemma: a message that is sent, lost or received leaves counters that    *)
(* are natural numbers.                                                    *)
LEMMA BrokerTyped ==
  ASSUME messages \in [0..RetryMax -> Nat], NEW r \in 0..RetryMax
  PROVE  /\ Enqueue(r) => messages' \in [0..RetryMax -> Nat]
         /\ \A w \in Worker : Receive(w, r) => messages' \in [0..RetryMax -> Nat]
  <1>1. ASSUME NEW q \in 0..RetryMax, NEW n \in Nat,
               messages' = [messages EXCEPT ![q] = n]
        PROVE  messages' \in [0..RetryMax -> Nat]
    BY <1>1
  <1>2. ASSUME Enqueue(r) PROVE messages' \in [0..RetryMax -> Nat]
    <2>1. CASE UNCHANGED messages
      BY <2>1
    <2>2. CASE Delivered(r)
      <3>1. PICK q \in {r, RetryMax} : messages' = [messages EXCEPT ![q] = messages[q] + 1]
        BY <2>2 DEF Delivered
      <3>2. q \in 0..RetryMax
        BY LimitsAssumption
      <3>3. messages[q] + 1 \in Nat
        BY <3>2
      <3> QED
        BY <1>1, <3>1, <3>2, <3>3
    <2> QED
      BY <1>2, <2>1, <2>2 DEF Enqueue
  <1>3. ASSUME NEW w \in Worker, Receive(w, r)
        PROVE  messages' \in [0..RetryMax -> Nat]
    <2>1. messages[r] - 1 \in Nat
      BY <1>3 DEF Receive
    <2> QED
      BY <1>1, <1>3, <2>1 DEF Receive
  <1> QED
    BY <1>2, <1>3

(* Lemma: a worker that finishes, or takes up a message, has a state.      *)
LEMMA WorkerTyped ==
  ASSUME worker \in [Worker -> WorkerState], NEW w \in Worker
  PROVE  /\ Finish(w) => worker' \in [Worker -> WorkerState]
         /\ \A r \in 0..RetryMax :
              worker' = [worker EXCEPT ![w] = [doing |-> "calling", retries |-> r]]
                => worker' \in [Worker -> WorkerState]
         /\ \A answer \in {"ok", "refused", "retry"} :
              worker' = [worker EXCEPT ![w].doing = answer]
                => worker' \in [Worker -> WorkerState]
  <1>1. ASSUME NEW state \in WorkerState, worker' = [worker EXCEPT ![w] = state]
        PROVE  worker' \in [Worker -> WorkerState]
    BY <1>1
  <1>2. Idle \in WorkerState
    BY LimitsAssumption DEF Idle, WorkerState
  <1>3. \A r \in 0..RetryMax : [doing |-> "calling", retries |-> r] \in WorkerState
    BY DEF WorkerState
  <1>4. \A answer \in {"ok", "refused", "retry"} :
          [worker[w] EXCEPT !.doing = answer] \in WorkerState
    BY DEF WorkerState
  <1> QED
    BY <1>1, <1>2, <1>3, <1>4 DEF Finish

(* Lemma: every step keeps the types.                                      *)
LEMMA TypeNext == TypeOK /\ [Next]_vars => TypeOK'
  <1> SUFFICES ASSUME TypeOK, [Next]_vars PROVE TypeOK'
    OBVIOUS
  <1> USE LimitsAssumption DEF TypeOK, JobStatus, Next_try
  <1>z. 0 \in 0..RetryMax
    OBVIOUS
  <1>1. CASE CreateWithOrder
    BY <1>1, <1>z, BrokerTyped DEF CreateWithOrder
  <1>2. CASE CallbackReads
    BY <1>2 DEF CallbackReads
  <1>3. CASE CallbackWrites
    BY <1>3, <1>z, BrokerTyped DEF CallbackWrites
  <1>4. CASE CallbackFails
    BY <1>4 DEF CallbackFails
  <1>5. CASE Recover
    BY <1>5, <1>z, BrokerTyped DEF Recover, Reschedule
  <1>6. ASSUME NEW w \in Worker, NEW r \in 0..RetryMax, SkipDone(w, r) PROVE TypeOK'
    <2>1. messages' \in [0..RetryMax -> Nat]
      BY <1>6, BrokerTyped DEF SkipDone
    <2> QED
      BY <1>6, <2>1 DEF SkipDone
  <1>7. ASSUME NEW w \in Worker, NEW r \in 0..RetryMax, GiveUp(w, r) PROVE TypeOK'
    <2>1. messages' \in [0..RetryMax -> Nat]
      BY <1>7, BrokerTyped DEF GiveUp
    <2> QED
      BY <1>7, <2>1 DEF GiveUp
  <1>8. ASSUME NEW w \in Worker, NEW r \in 0..RetryMax, Claim(w, r) PROVE TypeOK'
    <2>1. messages' \in [0..RetryMax -> Nat]
      BY <1>8, BrokerTyped DEF Claim
    <2>2. worker' \in [Worker -> WorkerState]
      BY <1>8, WorkerTyped DEF Claim
    <2>3. job' \in [status : JobStatus, tries : Nat, next : Next_try]
      <3>1. job.tries + 1 \in Nat
        OBVIOUS
      <3>2. job' = [status |-> "processing", tries |-> job.tries + 1, next |-> "null"]
        BY <1>8 DEF Claim
      <3> HIDE DEF TypeOK
      <3> QED
        BY <3>1, <3>2
    <2>4. UNCHANGED <<saw, notified, calls, printed, passedOver, refused, reported, crashes>>
      BY <1>8 DEF Claim
    <2> QED
      BY <2>1, <2>2, <2>3, <2>4
  <1>9. ASSUME NEW w \in Worker, CallPrinter(w) PROVE TypeOK'
    <2>1. worker' \in [Worker -> WorkerState]
      BY <1>9, WorkerTyped DEF CallPrinter
    <2>2. printed' \in BOOLEAN /\ refused' \in BOOLEAN
      BY <1>9, Zenon DEF CallPrinter
    <2> QED
      BY <1>9, <2>1, <2>2 DEF CallPrinter
  <1>10. ASSUME NEW w \in Worker, Succeed(w) PROVE TypeOK'
    <2>1. worker' \in [Worker -> WorkerState]
      BY <1>10, WorkerTyped DEF Succeed
    <2> QED
      BY <1>10, <2>1 DEF Succeed
  <1>11. ASSUME NEW w \in Worker, FailForGood(w) PROVE TypeOK'
    <2>1. worker' \in [Worker -> WorkerState]
      BY <1>11, WorkerTyped DEF FailForGood
    <2> QED
      BY <1>11, <2>1 DEF FailForGood
  <1>12. ASSUME NEW w \in Worker, FailForNow(w) PROVE TypeOK'
    <2>1. messages' \in [0..RetryMax -> Nat]
      <3>1. CASE worker[w].retries < RetryMax
        <4>1. worker[w].retries + 1 \in 0..RetryMax
          BY <3>1 DEF WorkerState
        <4>2. Enqueue(worker[w].retries + 1)
          BY <1>12, <3>1 DEF FailForNow
        <4> QED
          BY <4>1, <4>2, BrokerTyped
      <3> QED
        BY <1>12, <3>1 DEF FailForNow
    <2>2. worker' \in [Worker -> WorkerState]
      BY <1>12, WorkerTyped DEF FailForNow
    <2> QED
      BY <1>12, <2>1, <2>2 DEF FailForNow
  <1>13. ASSUME NEW w \in Worker, Crash(w) PROVE TypeOK'
    <2>1. worker' \in [Worker -> WorkerState]
      BY <1>13, WorkerTyped DEF Crash
    <2> QED
      BY <1>13, <2>1 DEF Crash
  <1>14. ASSUME NEW w \in Worker, PassOver(w) PROVE TypeOK'
    <2>1. worker' \in [Worker -> WorkerState]
      BY <1>14, WorkerTyped DEF PassOver
    <2> QED
      BY <1>14, <2>1 DEF PassOver
  <1>15. CASE TimePasses
    BY <1>15 DEF TimePasses
  <1>16. CASE UNCHANGED vars
    BY <1>16 DEF vars
  <1> QED
    BY <1>1, <1>2, <1>3, <1>4, <1>5, <1>6, <1>7, <1>8, <1>9, <1>10, <1>11, <1>12,
       <1>13, <1>14, <1>15, <1>16 DEF Next, Work

(* The row, the broker and the workers always have their types.            *)
THEOREM TypeCorrect == Spec => []TypeOK
  BY TypeInit, TypeNext, PTL DEF Spec

-----------------------------------------------------------------------------
(* Lemma: the workers at the printer are finitely many.                    *)
LEMMA CallingFinite == /\ IsFiniteSet(Calling)
                       /\ Cardinality(Calling) \in Nat
  BY WorkersAssumption, FS_Subset, FS_CardinalityType DEF Calling

(* Lemma: no worker at the printer at the start, and no call counted.      *)
LEMMA CallsInit == Init => CallsBounded
  <1> SUFFICES ASSUME Init PROVE CallsBounded
    OBVIOUS
  <1>1. Calling = {}
    BY DEF Init, Calling, Idle
  <1>2. Cardinality(Calling) = 0
    BY <1>1, FS_EmptySet
  <1> QED
    BY <1>2, LimitsAssumption DEF Init, CallsBounded

(* Lemma: a claim counts one more try and sends one more worker to the     *)
(* printer; a call takes the worker back; nothing else adds to either.     *)
LEMMA CallsNext == TypeOK /\ CallsBounded /\ [Next]_vars => CallsBounded'
  <1> SUFFICES ASSUME TypeOK, CallsBounded, [Next]_vars PROVE CallsBounded'
    OBVIOUS
  <1> DEFINE n == Cardinality(Calling)
  <1>n. n \in Nat
    BY CallingFinite
  <1>1. ASSUME job'.tries = job.tries, calls' = calls, Calling' \subseteq Calling
        PROVE  CallsBounded'
    <2>1. Cardinality(Calling') \in Nat /\ Cardinality(Calling') <= n
      BY <1>1, CallingFinite, FS_Subset, FS_CardinalityType
    <2> HIDE DEF n
    <2>2. calls + n <= job.tries
      BY DEF CallsBounded, n
    <2>3. calls' + Cardinality(Calling') <= job'.tries
      BY <1>1, <1>n, <2>1, <2>2 DEF TypeOK
    <2> QED
      BY <1>1, <2>3 DEF CallsBounded
  <1>2. ASSUME NEW w \in Worker, NEW r \in 0..RetryMax, Claim(w, r)
        PROVE  CallsBounded'
    <2>1. Calling' = Calling \cup {w} /\ w \notin Calling
      BY <1>2 DEF Claim, Receive, Calling, TypeOK, WorkerState
    <2>2. Cardinality(Calling') = n + 1
      BY <2>1, CallingFinite, FS_AddElement
    <2>3. job'.tries = job.tries + 1 /\ calls' = calls /\ job.tries < RetryMax
      BY <1>2 DEF Claim
    <2>4. calls + n <= job.tries
      BY DEF CallsBounded
    <2> HIDE DEF n
    <2>5. calls' + Cardinality(Calling') <= job'.tries /\ job'.tries <= RetryMax
      BY <1>n, <2>2, <2>3, <2>4, LimitsAssumption DEF TypeOK
    <2> QED
      BY <2>5 DEF CallsBounded
  <1>3. ASSUME NEW w \in Worker, CallPrinter(w) PROVE CallsBounded'
    <2>1. Calling' = Calling \ {w} /\ w \in Calling
      BY <1>3 DEF CallPrinter, Calling, TypeOK, WorkerState
    <2>2. Cardinality(Calling') = n - 1
      BY <2>1, CallingFinite, FS_RemoveElement
    <2>3. job' = job /\ calls' = calls + 1
      BY <1>3 DEF CallPrinter
    <2>4. calls + n <= job.tries /\ job.tries <= RetryMax
      BY DEF CallsBounded
    <2> HIDE DEF n
    <2>5. calls' + Cardinality(Calling') <= job'.tries
      BY <1>n, <2>2, <2>3, <2>4 DEF TypeOK
    <2> QED
      BY <2>3, <2>4, <2>5 DEF CallsBounded
  <1>4. CASE CreateWithOrder \/ CallbackReads \/ CallbackWrites \/ CallbackFails
               \/ Recover \/ TimePasses \/ UNCHANGED vars
    <2>1. job'.tries = job.tries /\ calls' = calls /\ worker' = worker
      BY <1>4 DEF CreateWithOrder, CallbackReads, CallbackWrites, CallbackFails, Recover,
                  Reschedule, TimePasses, vars, TypeOK
    <2> QED
      BY <1>1, <2>1 DEF Calling
  <1>5. ASSUME NEW w \in Worker, NEW r \in 0..RetryMax, SkipDone(w, r) \/ GiveUp(w, r)
        PROVE  CallsBounded'
    <2>1. job'.tries = job.tries /\ calls' = calls /\ worker' = worker
      BY <1>5 DEF SkipDone, GiveUp, TypeOK
    <2> QED
      BY <1>1, <2>1 DEF Calling
  <1>6. ASSUME NEW w \in Worker,
               Succeed(w) \/ FailForGood(w) \/ FailForNow(w) \/ Crash(w)
        PROVE  CallsBounded'
    <2>1. job'.tries = job.tries /\ calls' = calls /\ Finish(w)
      BY <1>6 DEF Succeed, FailForGood, FailForNow, Crash, TypeOK
    <2>2. Calling' \subseteq Calling
      BY <2>1 DEF Finish, Calling, Idle, TypeOK, WorkerState
    <2> QED
      BY <1>1, <2>1, <2>2
  <1>7. ASSUME NEW w \in Worker, PassOver(w) PROVE CallsBounded'
    <2>1. job'.tries = job.tries /\ calls' = calls
      BY <1>7 DEF PassOver
    <2>2. Calling' \subseteq Calling
      BY <1>7 DEF PassOver, Calling, TypeOK, WorkerState
    <2> QED
      BY <1>1, <2>1, <2>2
  <1> QED
    BY <1>2, <1>3, <1>4, <1>5, <1>6, <1>7 DEF Next, Work

(* The printer is never called more often than print_retry_max.            *)
THEOREM CallsBoundedAlways == Spec => []CallsBounded
  BY TypeCorrect, CallsInit, CallsNext, PTL DEF Spec

-----------------------------------------------------------------------------
\* The receipt is printed, or a worker without a printer passed it over.
TakenForPrinted == printed \/ (passedOver /\ WithPrinter # Worker)

\* A worker that holds an answer of the printer holds a true one.
AnswersTrue ==
  \A w \in Worker : /\ worker[w].doing = "ok" => TakenForPrinted
                    /\ worker[w].doing = "refused" => refused

ResultsTrue == AnswersTrue /\ DoneMeansPrinted /\ AbandonedIsReported

(* Lemma: nobody holds an answer at the start, and there is no job.        *)
LEMMA ResultsInit == Init => ResultsTrue
  BY DEF Init, Idle, ResultsTrue, AnswersTrue, DoneMeansPrinted, TakenForPrinted,
      AbandonedIsReported

(* Lemma: an answer is written down with what it means, and what has been  *)
(* written over later was true as well: printed, refused and reported stay.*)
LEMMA ResultsNext ==
  TypeOK /\ TypeOK' /\ CallsBounded /\ ResultsTrue /\ [Next]_vars => ResultsTrue'
  <1> SUFFICES ASSUME TypeOK, TypeOK', CallsBounded, ResultsTrue, [Next]_vars
               PROVE  ResultsTrue'
    OBVIOUS
  <1>1. ASSUME UNCHANGED <<worker, printed, passedOver, refused>>, reported => reported',
               \/ job' = job
               \/ job'.status \notin {"done", "failed"}
               \/ job'.status = job.status /\ job'.next # "null"
        PROVE  ResultsTrue'
    BY <1>1 DEF ResultsTrue, AnswersTrue, DoneMeansPrinted, TakenForPrinted,
      AbandonedIsReported
  <1>2. ASSUME NEW w \in Worker, Finish(w)
        PROVE  \A v \in Worker : worker'[v].doing # "nothing" => worker'[v] = worker[v]
    BY <1>2 DEF Finish, Idle, TypeOK
  <1>3. CASE CreateWithOrder \/ CallbackReads \/ CallbackWrites \/ CallbackFails
               \/ Recover \/ TimePasses \/ UNCHANGED vars
    <2>1. UNCHANGED <<worker, printed, passedOver, refused, reported>>
      BY <1>3 DEF CreateWithOrder, CallbackReads, CallbackWrites, CallbackFails, Recover,
                  Reschedule, TimePasses, vars
    <2>2. \/ job' = job
          \/ job'.status \notin {"done", "failed"}
          \/ job'.status = job.status /\ job'.next # "null"
      BY <1>3 DEF CreateWithOrder, CallbackReads, CallbackWrites, CallbackFails, Recover,
                  Reschedule, TimePasses, vars, TypeOK
    <2> QED
      BY <1>1, <2>1, <2>2
  <1>4. ASSUME NEW w \in Worker, NEW r \in 0..RetryMax, SkipDone(w, r)
        PROVE  ResultsTrue'
    BY <1>1, <1>4 DEF SkipDone
  <1>5. ASSUME NEW w \in Worker, NEW r \in 0..RetryMax, GiveUp(w, r)
        PROVE  ResultsTrue'
    <2>1. job'.status = "failed" /\ job'.tries = job.tries /\ reported' = TRUE
      BY <1>5 DEF GiveUp, TypeOK
    <2>2. job'.tries = RetryMax
      BY <1>5, <2>1, LimitsAssumption DEF GiveUp, CallsBounded, TypeOK
    <2>3. UNCHANGED <<worker, printed, passedOver, refused>>
      BY <1>5 DEF GiveUp
    <2> QED
      BY <2>1, <2>2, <2>3
      DEF ResultsTrue, AnswersTrue, DoneMeansPrinted, TakenForPrinted,
      AbandonedIsReported
  <1>6. ASSUME NEW w \in Worker, NEW r \in 0..RetryMax, Claim(w, r)
        PROVE  ResultsTrue'
    <2>1. job'.status = "processing" /\ UNCHANGED <<printed, passedOver, refused>>
      BY <1>6 DEF Claim
    <2>2. \A v \in Worker : worker'[v].doing # "calling" => worker'[v] = worker[v]
      BY <1>6 DEF Claim, TypeOK
    <2> QED
      BY <2>1, <2>2 DEF ResultsTrue, AnswersTrue, DoneMeansPrinted, TakenForPrinted,
      AbandonedIsReported
  <1>7. ASSUME NEW w \in Worker, CallPrinter(w) PROVE ResultsTrue'
    <2>1. PICK answer \in {"ok", "refused", "retry"} :
            /\ worker' = [worker EXCEPT ![w].doing = answer]
            /\ printed' = (printed \/ answer = "ok")
            /\ refused' = (refused \/ answer = "refused")
      BY <1>7 DEF CallPrinter
    <2>2. UNCHANGED <<job, passedOver, reported>>
      BY <1>7 DEF CallPrinter
    <2>3. /\ printed => printed'
          /\ answer = "ok" => printed'
          /\ refused => refused'
          /\ answer = "refused" => refused'
      BY <2>1, Zenon
    <2>4. \A v \in Worker : worker'[v].doing = IF v = w THEN answer ELSE worker[v].doing
      BY <2>1 DEF TypeOK, WorkerState
    <2>5. AnswersTrue'
      BY <2>2, <2>3, <2>4 DEF ResultsTrue, AnswersTrue, TakenForPrinted
    <2> QED
      BY <2>2, <2>3, <2>5 DEF ResultsTrue, DoneMeansPrinted, TakenForPrinted,
      AbandonedIsReported
  <1>8. ASSUME NEW w \in Worker, Succeed(w) PROVE ResultsTrue'
    <2>1. job'.status = "done" /\ TakenForPrinted
          /\ UNCHANGED <<printed, passedOver, refused, reported>>
      BY <1>8 DEF Succeed, ResultsTrue, AnswersTrue, TypeOK
    <2>2. AnswersTrue'
      BY <1>2, <1>8, <2>1 DEF Succeed, ResultsTrue, AnswersTrue, TakenForPrinted
    <2> QED
      BY <2>1, <2>2 DEF ResultsTrue, DoneMeansPrinted, TakenForPrinted,
      AbandonedIsReported
  <1>9. ASSUME NEW w \in Worker, FailForGood(w) PROVE ResultsTrue'
    <2>1. job'.status = "failed" /\ reported' = TRUE /\ refused
          /\ UNCHANGED <<printed, passedOver, refused>>
      BY <1>9 DEF FailForGood, ResultsTrue, AnswersTrue, TypeOK
    <2>2. AnswersTrue'
      BY <1>2, <1>9, <2>1 DEF FailForGood, ResultsTrue, AnswersTrue, TakenForPrinted
    <2> QED
      BY <2>1, <2>2 DEF ResultsTrue, DoneMeansPrinted, TakenForPrinted,
      AbandonedIsReported
  <1>10. ASSUME NEW w \in Worker, FailForNow(w) PROVE ResultsTrue'
    <2>1. /\ job'.status = "failed" /\ job'.next = "later"
          /\ UNCHANGED <<printed, passedOver, refused>>
      BY <1>10 DEF FailForNow, TypeOK
    <2>2. AnswersTrue'
      BY <1>2, <1>10, <2>1 DEF FailForNow, ResultsTrue, AnswersTrue, TakenForPrinted
    <2> QED
      BY <2>1, <2>2 DEF ResultsTrue, DoneMeansPrinted, TakenForPrinted,
      AbandonedIsReported
  <1>11. ASSUME NEW w \in Worker, Crash(w) PROVE ResultsTrue'
    <2>1. UNCHANGED <<job, printed, passedOver, refused, reported>>
      BY <1>11 DEF Crash
    <2>2. AnswersTrue'
      BY <1>2, <1>11, <2>1 DEF Crash, ResultsTrue, AnswersTrue, TakenForPrinted
    <2> QED
      BY <2>1, <2>2 DEF ResultsTrue, DoneMeansPrinted, TakenForPrinted,
      AbandonedIsReported
  <1>12. ASSUME NEW w \in Worker, PassOver(w) PROVE ResultsTrue'
    <2>1. UNCHANGED <<job, printed, refused, reported>> /\ passedOver' = TRUE
      BY <1>12 DEF PassOver
    <2>2. WithPrinter # Worker
      BY <1>12 DEF PassOver
    <2>3. \A v \in Worker : worker'[v].doing = IF v = w THEN "ok" ELSE worker[v].doing
      BY <1>12 DEF PassOver, TypeOK, WorkerState
    <2>4. TakenForPrinted'
      BY <2>1, <2>2 DEF TakenForPrinted
    <2>5. AnswersTrue'
      BY <2>1, <2>3, <2>4 DEF ResultsTrue, AnswersTrue
    <2> QED
      BY <2>1, <2>4, <2>5 DEF ResultsTrue, DoneMeansPrinted, TakenForPrinted, AbandonedIsReported
  <1> QED
    BY <1>3, <1>4, <1>5, <1>6, <1>7, <1>8, <1>9, <1>10, <1>11, <1>12 DEF Next, Work

(* Lemma: answers and results are true in every reachable state.           *)
LEMMA ResultsAlways == Spec => []ResultsTrue
  <1>1. Spec => [](TypeOK /\ CallsBounded)
    BY TypeCorrect, CallsBoundedAlways, PTL
  <1> QED
    BY <1>1, ResultsInit, ResultsNext, PTL DEF Spec

(* A job that is marked done has been printed, unless a worker without a   *)
(* printer passed it over; where every worker has one, done means printed. *)
THEOREM DoneMeansPrintedAlways == Spec => []DoneMeansPrinted
  <1>1. ResultsTrue => DoneMeansPrinted
    BY DEF ResultsTrue
  <1> QED
    BY <1>1, ResultsAlways, PTL

(* A job that nothing will pick up again was given up for a reason that is *)
(* in the audit log.                                                       *)
THEOREM AbandonedIsReportedAlways == Spec => []AbandonedIsReported
  <1>1. ResultsTrue => AbandonedIsReported
    BY DEF ResultsTrue
  <1> QED
    BY <1>1, ResultsAlways, PTL
=============================================================================
