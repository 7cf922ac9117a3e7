---------------------------- MODULE PaymentMatch ----------------------------
(***************************************************************************)
(* A clerk tells which order a payment with the printed code was for       *)
(* (POST /admin/payments/match).  The service takes a distributed lock on  *)
(* the payment, in Redis or, when Redis fails, as an advisory lock of      *)
(* PostgreSQL; finds or inserts the payment record; finds the order; and   *)
(* writes both.  One action for each statement that locks, each commit and *)
(* each use of the distributed lock.                                       *)
(*                                                                         *)
(* The transaction is a savepoint when the session it gets has begun one   *)
(* already, as the session of the route has by authenticating the clerk.   *)
(***************************************************************************)
EXTENDS Integers, FiniteSets

CONSTANTS
  Session,          \* requests that can be under way at once
  Order, Price, CreatedAt,
  Asks,             \* payloads a clerk may send
  Imported,         \* records of a bank statement, there before any match
  MaxPay,           \* bound: payment records
  Window,           \* settings.static_match_time_window_min
  Entries,          \* how sessions arrive: TRUE when a transaction has begun
  NoTxn, NoQr, NoOrder, NoRecord, Nobody, Gone

Pay == 1..MaxPay

Txns == {a.txn : a \in Asks} \cup {Imported[r].txn : r \in DOMAIN Imported}

Records ==
  [txn    : Txns,
   qr     : {a.qr : a \in Asks} \cup {Imported[r].qr : r \in DOMAIN Imported},
   amount : {a.amount : a \in Asks} \cup {Imported[r].amount : r \in DOMAIN Imported},
   at     : {a.at : a \in Asks} \cup {Imported[r].at : r \in DOMAIN Imported},
   match  : {"unmatched", "auto_matched", "manual_matched"},
   order  : Order \cup {NoOrder}]

\* The index of txn_id is unique.
ASSUME MatchAssumption ==
  /\ Price \in [Order -> Nat] /\ CreatedAt \in [Order -> Nat]
  /\ MaxPay \in Nat /\ Window \in Nat /\ Entries \subseteq BOOLEAN
  /\ Asks # {}
  /\ \A a \in Asks : /\ DOMAIN a = {"txn", "qr", "amount", "at", "force"}
                     /\ a.force \in Order \cup {NoOrder}
  /\ DOMAIN Imported \subseteq Pay
  /\ \A r \in DOMAIN Imported :
       /\ Imported[r] \in Records
       /\ Imported[r].match = "unmatched" /\ Imported[r].order = NoOrder
       /\ \A q \in DOMAIN Imported :
            Imported[q].txn = Imported[r].txn => q = r \/ Imported[r].txn = NoTxn
  /\ NoRecord \notin Records
  /\ NoOrder \notin Order \cup Txns \cup Pay
  /\ Txns \cap Pay \subseteq {NoTxn}
  /\ Nobody \notin Session /\ Gone \notin Session \cup {Nobody}

VARIABLES
  status, payment,  \* orders.status, orders.payment_status
  rec,              \* payment_records by pay_id
  session,          \* what each request does and has not yet committed
  recRow, orderRow, \* sessions that hold row locks
  redis,            \* for a key, whose token Redis holds; Gone: of a request that is over
  advisory          \* for a key, who holds the advisory lock

books == <<status, payment, rec>>
locks == <<redis, advisory>>
matchVars == <<books, session, recRow, orderRow, locks>>

\* The key of the lock: the transaction, the session of the code, or amount and time.
KeyOf(a) ==
  IF a.txn # NoTxn THEN <<"txn", a.txn>>
  ELSE IF a.qr # NoQr THEN <<"qr", a.qr>>
  ELSE <<"fuzzy", a.amount, a.at>>

Key == {KeyOf(a) : a \in Asks}

Exists(r) == rec[r] # NoRecord

\* paid_at plus or minus the window contains t.
InWindow(a, t) == a.at - Window <= t /\ t <= a.at + Window

Idle == [at |-> "idle", asks |-> CHOOSE a \in Asks : TRUE, inherited |-> FALSE,
         lock |-> "none", expired |-> FALSE, record |-> 0, inserts |-> FALSE,
         order |-> NoOrder]

MatchTypeOK ==
  /\ status \in [Order -> {"pending_payment", "paid", "cancelled"}]
  /\ payment \in [Order -> {"pending", "paid"}]
  /\ rec \in [Pay -> Records \cup {NoRecord}]
  /\ \A s \in Session :
       /\ session[s].at \in {"idle", "ready", "locked", "recorded", "chosen", "matched",
                             "answered"}
       /\ session[s].asks \in Asks
       /\ session[s].lock \in {"none", "redis", "advisory"}
       /\ session[s].record \in 0..MaxPay
       /\ session[s].order \in Order \cup {NoOrder}
  /\ recRow \in [Pay -> Session \cup {Nobody}]
  /\ orderRow \in [Order -> Session \cup {Nobody}]
  /\ redis \in [Key -> Session \cup {Nobody, Gone}]
  /\ advisory \in [Key -> Session \cup {Nobody}]

MatchInit ==
  /\ status = [o \in Order |-> "pending_payment"]
  /\ payment = [o \in Order |-> "pending"]
  /\ \E there \in {{}, DOMAIN Imported} :
       rec = [r \in Pay |-> IF r \in there THEN Imported[r] ELSE NoRecord]
  /\ session = [s \in Session |-> Idle]
  /\ recRow = [r \in Pay |-> Nobody]
  /\ orderRow = [o \in Order |-> Nobody]
  /\ redis = [k \in Key |-> Nobody]
  /\ advisory = [k \in Key |-> Nobody]

At(s, step) == session[s].at = step
Ask(s) == session[s].asks
Goto(s, step) == session' = [session EXCEPT ![s].at = step]

-----------------------------------------------------------------------------
(* The distributed lock                                                    *)

\* The request arrives; authentication has used the session, or nothing has.
Arrive(s, a, inherited) ==
  /\ At(s, "idle")
  /\ session' = [session EXCEPT ![s] =
                   [Idle EXCEPT !.at = "ready", !.asks = a, !.inherited = inherited]]
  /\ UNCHANGED <<books, recRow, orderRow, locks>>

Holding(s, kind) ==
  session' = [session EXCEPT ![s].at = "locked", ![s].lock = kind]

\* SET NX with a time-out of ten seconds.
LockInRedis(s) ==
  /\ At(s, "ready")
  /\ redis[KeyOf(Ask(s))] = Nobody
  /\ redis' = [redis EXCEPT ![KeyOf(Ask(s))] = s]
  /\ Holding(s, "redis")
  /\ UNCHANGED <<books, recRow, orderRow, advisory>>

\* Redis is not configured or fails: pg_try_advisory_lock on another connection.
LockInDatabase(s) ==
  /\ At(s, "ready")
  /\ advisory[KeyOf(Ask(s))] = Nobody
  /\ advisory' = [advisory EXCEPT ![KeyOf(Ask(s))] = s]
  /\ Holding(s, "advisory")
  /\ UNCHANGED <<books, recRow, orderRow, redis>>

\* The key of a request that has taken more than ten seconds, or of one that is over.
Expire(k) ==
  /\ redis[k] # Nobody
  /\ redis' = [redis EXCEPT ![k] = Nobody]
  /\ session' = IF redis[k] \in Session
                THEN [session EXCEPT ![redis[k]].expired = TRUE] ELSE session
  /\ UNCHANGED <<books, recRow, orderRow, advisory>>

\* The key deleted whoever has it now.
ReleaseLockUnchecked(s) ==
  LET k == KeyOf(Ask(s)) IN
  /\ redis' = IF session[s].lock = "redis" THEN [redis EXCEPT ![k] = Nobody] ELSE redis
  /\ advisory' = IF session[s].lock = "advisory" THEN [advisory EXCEPT ![k] = Nobody] ELSE advisory

\* Redis releases the key only to the token that took it; an error leaves the key behind.
ReleaseLock(s) ==
  LET k == KeyOf(Ask(s)) IN
  /\ IF session[s].lock = "redis" /\ redis[k] = s
     THEN \E left \in {Nobody, Gone} : redis' = [redis EXCEPT ![k] = left]
     ELSE UNCHANGED redis
  /\ IF session[s].lock = "advisory"
     THEN advisory' = [advisory EXCEPT ![k] = Nobody]
     ELSE UNCHANGED advisory

-----------------------------------------------------------------------------
(* The match                                                               *)

Free(row, s) == row \in {s, Nobody}

FreeRows(s) ==
  /\ recRow' = [r \in Pay |-> IF recRow[r] = s THEN Nobody ELSE recRow[r]]
  /\ orderRow' = [o \in Order |-> IF orderRow[o] = s THEN Nobody ELSE orderRow[o]]

LockRecords(s, R) ==
  /\ \A r \in R : Free(recRow[r], s)
  /\ recRow' = [r \in Pay |-> IF r \in R THEN s ELSE recRow[r]]

LockOrdersNot(s, O) == UNCHANGED orderRow

LockOrders(s, O) ==
  /\ \A o \in O : Free(orderRow[o], s)
  /\ orderRow' = [o \in Order |-> IF o \in O THEN s ELSE orderRow[o]]

Named(a) == {r \in Pay : Exists(r) /\ a.txn # NoTxn /\ rec[r].txn = a.txn}

\* Unmatched records of that amount, in the window, of that code or of none.
Similar(a) ==
  {r \in Pay : /\ Exists(r)
               /\ rec[r].match = "unmatched"
               /\ rec[r].amount = a.amount
               /\ InWindow(a, rec[r].at)
               /\ a.qr # NoQr => rec[r].qr \in {a.qr, NoQr}}

UseRecord(s, r) ==
  session' = [session EXCEPT ![s].at = "recorded", ![s].record = r]

FindNamed(s) ==
  \E r \in Named(Ask(s)) :
    /\ rec[r].match = "unmatched"
    /\ LockRecords(s, {r})
    /\ UseRecord(s, r)

\* FOR UPDATE locks every similar record; the earliest is used.
FindSimilar(s) ==
  /\ Ask(s).txn = NoTxn
  /\ LockRecords(s, Similar(Ask(s)))
  /\ \E r \in Similar(Ask(s)) :
       /\ \A q \in Similar(Ask(s)) : rec[r].at <= rec[q].at
       /\ UseRecord(s, r)

\* INSERT: it waits for another transaction that has inserted the same txn_id.
InsertRecord(s) ==
  LET a == Ask(s)
      taken(r) == Exists(r) \/ \E t \in Session : session[t].inserts /\ session[t].record = r
  IN /\ Named(a) = {}
     /\ a.txn = NoTxn => Similar(a) = {}
     /\ \A t \in Session : session[t].inserts => a.txn = NoTxn \/ Ask(t).txn # a.txn
     /\ \E r \in Pay :
          /\ ~ taken(r) /\ \A q \in 1..(r - 1) : taken(q)
          /\ session' = [session EXCEPT ![s].at = "recorded", ![s].record = r,
                                        ![s].inserts = TRUE]
     /\ UNCHANGED recRow

AcquireRecord(s) ==
  /\ At(s, "locked")
  /\ FindNamed(s) \/ FindSimilar(s) \/ InsertRecord(s)
  /\ UNCHANGED <<books, orderRow, locks>>

\* Pending orders of the window; FOR UPDATE locks them whatever their amount.
PendingInWindow(a) ==
  {o \in Order : /\ payment[o] = "pending" /\ status[o] = "pending_payment"
                 /\ InWindow(a, CreatedAt[o])}

Candidates(a) == {o \in PendingInWindow(a) : Price[o] = a.amount}

ForcedUnchecked(s, o) ==
  /\ Ask(s).force = o
  /\ LockOrders(s, {o})
  /\ Price[o] = Ask(s).amount

\* A forced order is locked and checked: amount and payment_status, not status.
Forced(s, o) ==
  /\ Ask(s).force = o
  /\ LockOrders(s, {o})
  /\ Price[o] = Ask(s).amount
  /\ payment[o] # "paid"

\* Otherwise there must be exactly one candidate.
OnlyCandidate(s, o) ==
  /\ Ask(s).force = NoOrder
  /\ LockOrders(s, PendingInWindow(Ask(s)))
  /\ Candidates(Ask(s)) = {o}

ChooseOrder(s) ==
  /\ At(s, "recorded")
  /\ \E o \in Order :
       /\ Forced(s, o) \/ OnlyCandidate(s, o)
       /\ session' = [session EXCEPT ![s].at = "chosen", ![s].order = o]
  /\ UNCHANGED <<books, recRow, locks>>

Outcome(a) == IF a.force = NoOrder THEN "auto_matched" ELSE "manual_matched"

\* What the transaction writes: a named record keeps its transaction, the amount is the
\* payload's, a code that was not known is filled in.
Matched(s) ==
  LET a == Ask(s)
      old == IF session[s].inserts THEN [txn |-> a.txn, qr |-> a.qr, at |-> a.at]
             ELSE rec[session[s].record]
  IN [txn |-> old.txn, qr |-> IF a.qr # NoQr THEN a.qr ELSE old.qr, amount |-> a.amount,
      at |-> old.at, match |-> Outcome(a), order |-> session[s].order]

Commit(s) ==
  /\ rec' = [rec EXCEPT ![session[s].record] = Matched(s)]
  /\ status' = [status EXCEPT ![session[s].order] = "paid"]
  /\ payment' = [payment EXCEPT ![session[s].order] = "paid"]

\* The end of the block: a savepoint is released, which keeps writes and locks pending; a
\* transaction of its own commits.
EndBlock(s) ==
  /\ At(s, "chosen")
  /\ IF session[s].inherited
     THEN UNCHANGED <<books, recRow, orderRow>> /\ Goto(s, "matched")
     ELSE /\ Commit(s) /\ FreeRows(s)
          /\ session' = [session EXCEPT ![s].at = "matched", ![s].inserts = FALSE]
  /\ UNCHANGED locks

\* The lock is refused, no record or order will do, or an error: what was written and locked
\* since the block began is undone, the lock is given back, and the clerk is told.
Fail(s) ==
  /\ session[s].at \in {"ready", "locked", "recorded", "chosen"}
  /\ FreeRows(s)
  /\ ReleaseLock(s)
  /\ session' = [session EXCEPT ![s] = Idle]
  /\ UNCHANGED books

\* The messages for the printer and the points are sent (PaymentEffects), the lock is given
\* back and the clerk gets the answer; the session is still open.
Answer(s) ==
  /\ At(s, "matched")
  /\ ReleaseLock(s)
  /\ session' = [session EXCEPT ![s].at = "answered", ![s].lock = "none",
                                ![s].expired = FALSE]
  /\ UNCHANGED <<books, recRow, orderRow>>

\* The session is closed, which rolls back what nobody has committed.
Close(s) ==
  /\ At(s, "answered")
  /\ FreeRows(s)
  /\ session' = [session EXCEPT ![s] = Idle]
  /\ UNCHANGED <<books, locks>>

\* The process dies: the database undoes its session and its advisory lock, Redis waits.
Crash(s) ==
  LET k == KeyOf(Ask(s)) IN
  /\ ~ At(s, "idle")
  /\ FreeRows(s)
  /\ redis' = IF redis[k] = s THEN [redis EXCEPT ![k] = Gone] ELSE redis
  /\ advisory' = IF advisory[k] = s THEN [advisory EXCEPT ![k] = Nobody] ELSE advisory
  /\ session' = [session EXCEPT ![s] = Idle]
  /\ UNCHANGED books

-----------------------------------------------------------------------------
(* Other transactions that write these orders                              *)

\* The WeChat callback, a cancelled order included; it locks the row of the order.
PaidElsewhere(o) ==
  /\ orderRow[o] = Nobody /\ payment[o] = "pending"
  /\ payment' = [payment EXCEPT ![o] = "paid"]
  /\ status' = [status EXCEPT ![o] = "paid"]
  /\ UNCHANGED <<rec, session, recRow, orderRow, locks>>

\* The cleanup of unpaid orders.
Cancelled(o) ==
  /\ orderRow[o] = Nobody /\ payment[o] = "pending" /\ status[o] = "pending_payment"
  /\ status' = [status EXCEPT ![o] = "cancelled"]
  /\ UNCHANGED <<payment, rec, session, recRow, orderRow, locks>>

MatchNext ==
  \/ \E s \in Session, a \in Asks, inherited \in Entries : Arrive(s, a, inherited)
  \/ \E s \in Session :
       \/ LockInRedis(s) \/ LockInDatabase(s)
       \/ AcquireRecord(s) \/ ChooseOrder(s) \/ EndBlock(s)
       \/ Fail(s) \/ Answer(s) \/ Close(s) \/ Crash(s)
  \/ \E k \in Key : Expire(k)
  \/ \E o \in Order : PaidElsewhere(o) \/ Cancelled(o)

MatchSpec == MatchInit /\ [][MatchNext]_matchVars

-----------------------------------------------------------------------------
(* Properties                                                              *)

\* A payment is its transaction number when the clerk gave one, else its record.
PaymentOf(r) == IF rec[r].txn # NoTxn THEN rec[r].txn ELSE r

MatchedBy(o) == {r \in Pay : Exists(r) /\ rec[r].order = o}

Payments == Txns \cup Pay

PaidOrders == {o \in Order : payment[o] = "paid"}

PaymentBehind ==
  [o \in Order |-> IF MatchedBy(o) = {} THEN NoOrder
                   ELSE PaymentOf(CHOOSE r \in MatchedBy(o) : TRUE)]

Ledger == INSTANCE PaymentLedger WITH
  Payment <- Payments, NoPayment <- NoOrder, paid <- PaidOrders, paidBy <- PaymentBehind

\* Whatever becomes of the distributed lock - split between Redis and the database, run out,
\* left behind by a dead process - and with callbacks and cancellations in between, matches
\* come out as bookings of the ledger: an order is paid once, and a payment that the clerk
\* names by its transaction pays one order.
ImplementsLedger == Ledger!Spec

\* A record that is matched names a paid order of its amount, an unmatched one none, and no
\* two records name the same order.
BooksAgree ==
  \A r \in Pay : Exists(r) =>
    /\ rec[r].match = "unmatched" <=> rec[r].order = NoOrder
    /\ rec[r].order # NoOrder =>
         /\ payment[rec[r].order] = "paid" /\ Price[rec[r].order] = rec[r].amount
         /\ MatchedBy(rec[r].order) = {r}

\* Two requests about one payment are in the critical section together only when the lock of
\* one has run out or when one has it from Redis and the other from the database.
LocksExclude ==
  \A s, t \in Session :
    /\ s # t /\ KeyOf(Ask(s)) = KeyOf(Ask(t))
    /\ session[s].lock # "none" /\ session[s].lock = session[t].lock
    => session[s].expired \/ session[t].expired

\* A clerk who was answered that the order is matched finds it paid when the request is over.
AnswerIsStored ==
  [][\A s \in Session :
       At(s, "answered") /\ session[s].order # NoOrder /\ session'[s].at = "idle"
       => payment'[session[s].order] = "paid"]_matchVars
=============================================================================
