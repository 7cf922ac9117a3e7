--------------------------- MODULE PaymentProofs ---------------------------
(***************************************************************************)
(* The match of a payment implements the ledger, for any orders, requests, *)
(* imported records and failures.  What carries it are the locks of rows   *)
(* and the unique index of transactions; the distributed lock only keeps   *)
(* requests from waiting.  The points and the coupon cards that payments   *)
(* earn are booked once for each message that awards them.                 *)
(***************************************************************************)
EXTENDS PaymentMatch, PaymentEffects, FiniteSetTheorems, TLAPS

Step == {"idle", "ready", "locked", "recorded", "chosen", "matched", "answered"}

Sessions ==
  [at : Step, asks : Asks, inherited : BOOLEAN, lock : {"none", "redis", "advisory"},
   expired : BOOLEAN, record : Nat, inserts : BOOLEAN, order : Order \cup {NoOrder}]

RowTypes ==
  /\ payment \in [Order -> {"pending", "paid"}]
  /\ rec \in [Pay -> Records \cup {NoRecord}]
  /\ session \in [Session -> Sessions]
  /\ DOMAIN recRow = Pay /\ DOMAIN orderRow = Order

\* The index of txn_id.
TxnsAreUnique ==
  \A r, q \in Pay :
    Exists(r) /\ Exists(q) /\ rec[r].txn = rec[q].txn /\ rec[r].txn # NoTxn => r = q

\* A request that has a record has locked it, or is about to insert it; one that has chosen an
\* order has locked a pending order of its amount.
SessionIsSafe(s) ==
  LET q == session[s] IN
  /\ q.at \in {"idle", "ready", "locked"} => ~ q.inserts
  /\ q.inserts => /\ q.record \in Pay /\ ~ Exists(q.record)
                  /\ Named(q.asks) = {}
  /\ q.at \in {"recorded", "chosen"} /\ ~ q.inserts =>
       /\ q.record \in Pay /\ Exists(q.record) /\ rec[q.record].match = "unmatched"
       /\ recRow[q.record] = s
  /\ q.at = "chosen" =>
       /\ q.order \in Order /\ orderRow[q.order] = s /\ payment[q.order] = "pending"
       /\ Price[q.order] = q.asks.amount

\* No two requests are about to insert one record or one transaction.
InsertsDiffer(s, t) ==
  session[s].inserts /\ session[t].inserts =>
    /\ session[s].record # session[t].record
    /\ Ask(s).txn # NoTxn => Ask(s).txn # Ask(t).txn

MatchInv ==
  /\ RowTypes /\ TxnsAreUnique /\ BooksAgree
  /\ \A s \in Session : SessionIsSafe(s)
  /\ \A s, t \in Session : s # t => InsertsDiffer(s, t)

(* Lemma: a request that is over holds nothing.                            *)
LEMMA IdleIsSession ==
  /\ Idle \in Sessions
  /\ Idle.at = "idle" /\ ~ Idle.inserts /\ Idle.lock = "none"
  <1>1. PICK a \in Asks : a = CHOOSE x \in Asks : TRUE
    BY MatchAssumption
  <1>2. Idle = [at |-> "idle", asks |-> a, inherited |-> FALSE, lock |-> "none",
                expired |-> FALSE, record |-> 0, inserts |-> FALSE, order |-> NoOrder]
    BY <1>1 DEF Idle
  <1> QED
    BY <1>2 DEF Sessions, Step

(* Lemma: at the start the records of a statement are there, or none.      *)
LEMMA MatchStart == MatchInit => MatchInv
  <1> SUFFICES ASSUME MatchInit PROVE MatchInv
    OBVIOUS
  <1> USE MatchAssumption
  <1>1. PICK there \in {{}, DOMAIN Imported} :
          rec = [r \in Pay |-> IF r \in there THEN Imported[r] ELSE NoRecord]
    BY DEF MatchInit
  <1>2. \A r \in Pay : Exists(r) => r \in DOMAIN Imported /\ rec[r] = Imported[r]
    BY <1>1 DEF Exists
  <1>3. RowTypes
    <2>1. rec \in [Pay -> Records \cup {NoRecord}]
      BY <1>1
    <2> QED
      BY <2>1, IdleIsSession DEF MatchInit, RowTypes
  <1>4. TxnsAreUnique
    BY <1>2 DEF TxnsAreUnique
  <1>5. BooksAgree
    BY <1>2 DEF BooksAgree
  <1>6. \A s \in Session : SessionIsSafe(s) /\ ~ session[s].inserts
    BY IdleIsSession DEF MatchInit, SessionIsSafe
  <1> QED
    BY <1>3, <1>4, <1>5, <1>6 DEF MatchInv, InsertsDiffer

(* Lemma: a request that writes no book keeps the invariant if it is safe  *)
(* itself and takes no lock from another.                                  *)
LEMMA OthersMatch ==
  ASSUME MatchInv, NEW s \in Session, UNCHANGED <<payment, rec>>,
         session' \in [Session -> Sessions],
         \A t \in Session : t # s => session'[t] = session[t],
         DOMAIN recRow' = Pay, DOMAIN orderRow' = Order,
         \A r \in Pay : recRow[r] \in Session /\ recRow[r] # s => recRow'[r] = recRow[r],
         \A o \in Order : orderRow[o] \in Session /\ orderRow[o] # s => orderRow'[o] = orderRow[o],
         SessionIsSafe(s)',
         \A t \in Session : t # s => InsertsDiffer(s, t)'
  PROVE  MatchInv'
  <1>1. RowTypes'
    BY DEF MatchInv, RowTypes
  <1>2. TxnsAreUnique' /\ BooksAgree'
    BY DEF MatchInv, TxnsAreUnique, BooksAgree, Exists, MatchedBy
  <1>3. ASSUME NEW t \in Session, t # s
        PROVE  SessionIsSafe(t)'
    <2>1. session'[t] = session[t] /\ SessionIsSafe(t)
      BY <1>3 DEF MatchInv
    <2> QED
      BY <1>3, <2>1 DEF SessionIsSafe, Exists, Named
  <1>4. ASSUME NEW t \in Session, NEW u \in Session, t # u
        PROVE  InsertsDiffer(t, u)'
    <2>1. CASE t = s
      BY <1>4, <2>1
    <2>2. CASE u = s
      <3>1. InsertsDiffer(u, t)'
        BY <1>4, <2>2
      <3> QED
        BY <3>1 DEF InsertsDiffer, Ask
    <2>3. CASE t # s /\ u # s
      <3>1. session'[t] = session[t] /\ session'[u] = session[u] /\ InsertsDiffer(t, u)
        BY <1>4, <2>3 DEF MatchInv
      <3> QED
        BY <3>1 DEF InsertsDiffer, Ask
    <2> QED
      BY <2>1, <2>2, <2>3
  <1> QED
    BY <1>1, <1>2, <1>3, <1>4 DEF MatchInv

(* Lemma: locks of rows are given back by their holder only.               *)
LEMMA FreeRowsKeeps ==
  ASSUME MatchInv, NEW s \in Session, FreeRows(s)
  PROVE  /\ DOMAIN recRow' = Pay /\ DOMAIN orderRow' = Order
         /\ \A r \in Pay : recRow[r] \in Session /\ recRow[r] # s => recRow'[r] = recRow[r]
         /\ \A o \in Order : orderRow[o] \in Session /\ orderRow[o] # s =>
                              orderRow'[o] = orderRow[o]
  BY DEF FreeRows

(* Lemma: nobody locks a row that another has locked.                      *)
LEMMA LockRowsKeeps ==
  ASSUME MatchInv, NEW s \in Session
  PROVE  /\ \A R : LockRecords(s, R) =>
              /\ DOMAIN recRow' = Pay
              /\ \A r \in Pay : recRow[r] \in Session /\ recRow[r] # s => recRow'[r] = recRow[r]
              /\ \A r \in Pay \cap R : recRow'[r] = s
         /\ \A O : LockOrders(s, O) =>
              /\ DOMAIN orderRow' = Order
              /\ \A o \in Order : orderRow[o] \in Session /\ orderRow[o] # s =>
                                    orderRow'[o] = orderRow[o]
              /\ \A o \in Order \cap O : orderRow'[o] = s
  BY MatchAssumption DEF LockRecords, LockOrders, Free

(* Lemma: a request arrives, takes or misses its lock, is answered, fails  *)
(* or dies.                                                                *)
LEMMA AtTheDoorKeeps ==
  ASSUME MatchInv, NEW s \in Session,
         \/ \E a \in Asks, inherited \in Entries : Arrive(s, a, inherited)
         \/ LockInRedis(s) \/ LockInDatabase(s) \/ Fail(s) \/ Answer(s) \/ Close(s) \/ Crash(s)
  PROVE  MatchInv'
  <1>1. RowTypes /\ session \in [Session -> Sessions] /\ SessionIsSafe(s)
    BY DEF MatchInv, RowTypes
  <1>2. CASE Fail(s) \/ Close(s) \/ Crash(s)
    <2>1. session' = [session EXCEPT ![s] = Idle] /\ FreeRows(s) /\ UNCHANGED <<payment, rec>>
      BY <1>2 DEF Fail, Close, Crash, books
    <2>2. session' \in [Session -> Sessions] /\ session'[s] = Idle
          /\ \A t \in Session : t # s => session'[t] = session[t]
      BY <1>1, <2>1, IdleIsSession
    <2>3. SessionIsSafe(s)' /\ \A t \in Session : t # s => InsertsDiffer(s, t)'
      BY <2>2, IdleIsSession DEF SessionIsSafe, InsertsDiffer
    <2> QED
      BY <2>1, <2>2, <2>3, FreeRowsKeeps, OthersMatch
  <1>3. ASSUME NEW a \in Asks, NEW inherited \in Entries, Arrive(s, a, inherited)
        PROVE  MatchInv'
    <2> DEFINE new == [Idle EXCEPT !.at = "ready", !.asks = a, !.inherited = inherited]
    <2>1. /\ session' = [session EXCEPT ![s] = new]
          /\ UNCHANGED <<payment, rec, recRow, orderRow>>
      BY <1>3 DEF Arrive, books
    <2>2. new \in Sessions /\ new.at = "ready" /\ ~ new.inserts
      BY MatchAssumption, IdleIsSession DEF Sessions, Step
    <2> HIDE DEF new
    <2>3. session' \in [Session -> Sessions] /\ session'[s] = new
          /\ \A t \in Session : t # s => session'[t] = session[t]
      BY <1>1, <2>1, <2>2
    <2>4. SessionIsSafe(s)' /\ \A t \in Session : t # s => InsertsDiffer(s, t)'
      BY <2>2, <2>3 DEF SessionIsSafe, InsertsDiffer
    <2> QED
      BY <1>1, <2>1, <2>3, <2>4, OthersMatch DEF RowTypes
  <1>4. CASE LockInRedis(s) \/ LockInDatabase(s)
    <2>1. PICK kind \in {"redis", "advisory"} :
            session' = [session EXCEPT ![s].at = "locked", ![s].lock = kind]
      BY <1>4 DEF LockInRedis, LockInDatabase, Holding
    <2>2. UNCHANGED <<payment, rec, recRow, orderRow>> /\ session[s].at = "ready"
      BY <1>4 DEF LockInRedis, LockInDatabase, books, At
    <2>3. /\ session' \in [Session -> Sessions]
          /\ session'[s].at = "locked" /\ session'[s].inserts = session[s].inserts
          /\ \A t \in Session : t # s => session'[t] = session[t]
      <3>1. session[s] \in Sessions
        BY <1>1
      <3> QED
        BY <1>1, <2>1, <3>1 DEF Sessions, Step
    <2>4. SessionIsSafe(s)' /\ \A t \in Session : t # s => InsertsDiffer(s, t)'
      BY <1>1, <2>2, <2>3 DEF SessionIsSafe, InsertsDiffer
    <2> QED
      BY <1>1, <2>2, <2>3, <2>4, OthersMatch DEF RowTypes
  <1>5. CASE Answer(s)
    <2>1. /\ session' = [session EXCEPT ![s].at = "answered", ![s].lock = "none",
                                        ![s].expired = FALSE]
          /\ UNCHANGED <<payment, rec, recRow, orderRow>>
      BY <1>5 DEF Answer, books
    <2>2. /\ session' \in [Session -> Sessions]
          /\ session'[s].at = "answered" /\ session'[s].inserts = session[s].inserts
          /\ session'[s].record = session[s].record /\ session'[s].asks = session[s].asks
          /\ \A t \in Session : t # s => session'[t] = session[t]
      <3>1. session[s] \in Sessions
        BY <1>1
      <3> QED
        BY <1>1, <2>1, <3>1 DEF Sessions, Step
    <2>3. SessionIsSafe(s)'
      BY <1>1, <2>1, <2>2 DEF SessionIsSafe, Exists, Named
    <2>4. \A t \in Session : t # s => InsertsDiffer(s, t)'
      BY <2>2 DEF MatchInv, InsertsDiffer, Ask
    <2> QED
      BY <1>1, <2>1, <2>2, <2>3, <2>4, OthersMatch DEF RowTypes
  <1> QED
    BY <1>2, <1>3, <1>4, <1>5

(* Lemma: a request finds or inserts a record, locked or new.              *)
LEMMA AcquireKeeps ==
  ASSUME MatchInv, NEW s \in Session, AcquireRecord(s)
  PROVE  MatchInv'
  <1> DEFINE a == session[s].asks
  <1>1. /\ RowTypes /\ session \in [Session -> Sessions] /\ session[s] \in Sessions
        /\ SessionIsSafe(s) /\ session[s].at = "locked" /\ ~ session[s].inserts
        /\ DOMAIN recRow = Pay /\ DOMAIN orderRow = Order
        /\ UNCHANGED <<payment, rec, orderRow>>
    BY DEF MatchInv, RowTypes, SessionIsSafe, AcquireRecord, At, books
  <1>2. Pay \subseteq Nat
    BY MatchAssumption DEF Pay
  <1>3. ASSUME NEW r \in Pay, NEW R \in SUBSET Pay, r \in R, Exists(r), rec[r].match = "unmatched",
               LockRecords(s, R), UseRecord(s, r)
        PROVE  MatchInv'
    <2>1. /\ session' \in [Session -> Sessions]
          /\ session'[s].at = "recorded" /\ session'[s].record = r /\ ~ session'[s].inserts
          /\ \A t \in Session : t # s => session'[t] = session[t]
      BY <1>1, <1>2, <1>3 DEF UseRecord, Sessions, Step
    <2>2. /\ DOMAIN recRow' = Pay /\ recRow'[r] = s
          /\ \A q \in Pay : recRow[q] \in Session /\ recRow[q] # s => recRow'[q] = recRow[q]
      BY <1>3, LockRowsKeeps
    <2>3. SessionIsSafe(s)'
      BY <1>1, <1>3, <2>1, <2>2 DEF SessionIsSafe, Exists
    <2>4. \A t \in Session : t # s => InsertsDiffer(s, t)'
      BY <2>1 DEF InsertsDiffer
    <2> QED
      BY <1>1, <2>1, <2>2, <2>3, <2>4, OthersMatch
  <1>4. CASE FindNamed(s)
    BY <1>3, <1>4 DEF FindNamed, Named
  <1>5. CASE FindSimilar(s)
    BY <1>3, <1>5 DEF FindSimilar, Similar
  <1>6. CASE InsertRecord(s)
    <2>1. /\ Named(a) = {} /\ UNCHANGED recRow
          /\ \A t \in Session : session[t].inserts => a.txn = NoTxn \/ Ask(t).txn # a.txn
      BY <1>6 DEF InsertRecord, Ask
    <2>2. PICK r \in Pay :
            /\ ~ Exists(r) /\ \A t \in Session : ~ (session[t].inserts /\ session[t].record = r)
            /\ session' = [session EXCEPT ![s].at = "recorded", ![s].record = r,
                                          ![s].inserts = TRUE]
      BY <1>6 DEF InsertRecord
    <2>3. /\ session' \in [Session -> Sessions]
          /\ session'[s].at = "recorded" /\ session'[s].record = r /\ session'[s].inserts
          /\ session'[s].asks = a
          /\ \A t \in Session : t # s => session'[t] = session[t]
      BY <1>1, <1>2, <2>2 DEF Sessions, Step
    <2>4. SessionIsSafe(s)'
      BY <1>1, <2>1, <2>2, <2>3 DEF SessionIsSafe, Exists, Named
    <2>5. \A t \in Session : t # s => InsertsDiffer(s, t)'
      BY <2>1, <2>2, <2>3 DEF InsertsDiffer, Ask
    <2> QED
      BY <1>1, <2>1, <2>3, <2>4, <2>5, OthersMatch
  <1> QED
    BY <1>4, <1>5, <1>6 DEF AcquireRecord

(* Lemma: a request chooses a pending order and locks it.                  *)
LEMMA ChooseKeeps ==
  ASSUME MatchInv, NEW s \in Session, ChooseOrder(s)
  PROVE  MatchInv'
  <1>1. /\ RowTypes /\ session \in [Session -> Sessions] /\ session[s] \in Sessions
        /\ SessionIsSafe(s) /\ session[s].at = "recorded"
        /\ DOMAIN recRow = Pay /\ DOMAIN orderRow = Order
        /\ payment \in [Order -> {"pending", "paid"}]
        /\ UNCHANGED <<payment, rec, recRow>>
    BY DEF MatchInv, RowTypes, ChooseOrder, At, books
  <1>2. PICK o \in Order :
          /\ Forced(s, o) \/ OnlyCandidate(s, o)
          /\ session' = [session EXCEPT ![s].at = "chosen", ![s].order = o]
    BY DEF ChooseOrder
  <1>3. PICK O \in SUBSET Order : o \in O /\ LockOrders(s, O)
    <2>1. CASE Forced(s, o)
      BY <2>1 DEF Forced
    <2>2. CASE OnlyCandidate(s, o)
      BY <2>2 DEF OnlyCandidate, Candidates, PendingInWindow
    <2> QED
      BY <1>2, <2>1, <2>2
  <1>4. payment[o] = "pending" /\ Price[o] = session[s].asks.amount
    BY <1>1, <1>2 DEF Forced, OnlyCandidate, Candidates, PendingInWindow, Ask
  <1>5. /\ session' \in [Session -> Sessions]
        /\ session'[s].at = "chosen" /\ session'[s].order = o
        /\ session'[s].record = session[s].record /\ session'[s].inserts = session[s].inserts
        /\ session'[s].asks = session[s].asks
        /\ \A t \in Session : t # s => session'[t] = session[t]
    BY <1>1, <1>2 DEF Sessions, Step
  <1>6. /\ DOMAIN orderRow' = Order /\ orderRow'[o] = s
        /\ \A q \in Order : orderRow[q] \in Session /\ orderRow[q] # s =>
                             orderRow'[q] = orderRow[q]
    BY <1>3, LockRowsKeeps
  <1>7. SessionIsSafe(s)'
    BY <1>1, <1>4, <1>5, <1>6 DEF SessionIsSafe, Exists, Named
  <1>8. \A t \in Session : t # s => InsertsDiffer(s, t)'
    BY <1>5 DEF MatchInv, InsertsDiffer, Ask
  <1> QED
    BY <1>1, <1>5, <1>6, <1>7, <1>8, OthersMatch

(* Lemma: what a request writes when it commits.                           *)
LEMMA Written ==
  ASSUME MatchInv, NEW s \in Session, session[s].at = "chosen"
  PROVE  LET r == session[s].record
             o == session[s].order IN
         /\ r \in Pay /\ o \in Order /\ payment[o] = "pending" /\ MatchedBy(o) = {}
         /\ \A b \in Order : r \notin MatchedBy(b)
         /\ Matched(s) \in Records /\ Matched(s).order = o
         /\ Matched(s).match # "unmatched" /\ Matched(s).amount = Price[o]
         /\ session[s].inserts => ~ Exists(r) /\ Matched(s).txn = session[s].asks.txn
         /\ ~ session[s].inserts => Exists(r) /\ recRow[r] = s /\ Matched(s).txn = rec[r].txn
  <1> DEFINE r == session[s].record
             o == session[s].order
             a == session[s].asks
  <1>1. /\ SessionIsSafe(s) /\ session[s] \in Sessions /\ a \in Asks
        /\ rec \in [Pay -> Records \cup {NoRecord}]
    BY DEF MatchInv, RowTypes, Sessions
  <1>2. r \in Pay /\ o \in Order /\ payment[o] = "pending" /\ Price[o] = a.amount
    BY <1>1 DEF SessionIsSafe
  <1>3. NoOrder \notin Order
    BY MatchAssumption
  <1>4. MatchedBy(o) = {}
    BY <1>2, <1>3 DEF MatchInv, BooksAgree, MatchedBy
  <1>5. \A b \in Order : r \notin MatchedBy(b)
    BY <1>1, <1>2, <1>3 DEF SessionIsSafe, MatchInv, BooksAgree, MatchedBy
  <1>6. ~ session[s].inserts => Exists(r) /\ rec[r] \in Records /\ recRow[r] = s
    BY <1>1, <1>2 DEF SessionIsSafe, Exists
  <1>7. session[s].inserts => ~ Exists(r)
    BY <1>1 DEF SessionIsSafe
  <1> DEFINE old == IF session[s].inserts THEN [txn |-> a.txn, qr |-> a.qr, at |-> a.at]
                    ELSE rec[r]
  <1>8. /\ old.txn \in Txns
        /\ old.qr \in {x.qr : x \in Asks} \cup {Imported[q].qr : q \in DOMAIN Imported}
        /\ old.at \in {x.at : x \in Asks} \cup {Imported[q].at : q \in DOMAIN Imported}
    BY <1>1, <1>6 DEF Records, Txns
  <1>9. /\ a.qr \in {x.qr : x \in Asks} \cup {Imported[q].qr : q \in DOMAIN Imported}
        /\ a.amount \in {x.amount : x \in Asks} \cup {Imported[q].amount : q \in DOMAIN Imported}
        /\ Outcome(a) \in {"auto_matched", "manual_matched"}
    BY <1>1 DEF Outcome
  <1>10. Matched(s) = [txn |-> old.txn, qr |-> IF a.qr # NoQr THEN a.qr ELSE old.qr,
                       amount |-> a.amount, at |-> old.at, match |-> Outcome(a), order |-> o]
    BY DEF Matched, Ask
  <1>11. session[s].inserts => old.txn = a.txn
    OBVIOUS
  <1>12. ~ session[s].inserts => old.txn = rec[r].txn
    OBVIOUS
  <1> HIDE DEF old
  <1>13. Matched(s) \in Records
    BY <1>2, <1>8, <1>9, <1>10 DEF Records
  <1> QED
    BY <1>2, <1>4, <1>5, <1>6, <1>7, <1>9, <1>10, <1>11, <1>12, <1>13

(* Lemma: how the books change when a request commits.                     *)
LEMMA BooksAfter ==
  ASSUME MatchInv, NEW s \in Session, session[s].at = "chosen", Commit(s),
         NEW r, NEW o, r = session[s].record, o = session[s].order
  PROVE  /\ rec' \in [Pay -> Records \cup {NoRecord}] /\ rec'[r] = Matched(s) /\ Exists(r)'
         /\ \A q \in Pay : q # r => rec'[q] = rec[q]
         /\ payment' \in [Order -> {"pending", "paid"}] /\ payment'[o] = "paid"
         /\ \A b \in Order : b # o => payment'[b] = payment[b]
         /\ MatchedBy(o)' = {r}
         /\ \A b \in Order : b # o => MatchedBy(b)' = MatchedBy(b)
  <1> DEFINE m == Matched(s)
  <1>1. /\ r \in Pay /\ o \in Order /\ MatchedBy(o) = {} /\ m \in Records /\ m.order = o
        /\ \A b \in Order : r \notin MatchedBy(b)
    BY Written
  <1>2. /\ rec' = [rec EXCEPT ![r] = m] /\ payment' = [payment EXCEPT ![o] = "paid"]
        /\ rec \in [Pay -> Records \cup {NoRecord}]
        /\ payment \in [Order -> {"pending", "paid"}]
    BY DEF Commit, MatchInv, RowTypes
  <1> HIDE DEF m
  <1>3. /\ rec' \in [Pay -> Records \cup {NoRecord}] /\ rec'[r] = m
        /\ \A q \in Pay : q # r => rec'[q] = rec[q]
    BY <1>1, <1>2
  <1>4. /\ payment' \in [Order -> {"pending", "paid"}] /\ payment'[o] = "paid"
        /\ \A b \in Order : b # o => payment'[b] = payment[b]
    BY <1>1, <1>2
  <1>5. Exists(r)'
    BY <1>1, <1>3, MatchAssumption DEF Exists
  <1>6. MatchedBy(o)' = {r}
    BY <1>1, <1>3, <1>5 DEF MatchedBy, Exists
  <1>7. \A b \in Order : b # o => MatchedBy(b)' = MatchedBy(b)
    BY <1>1, <1>3 DEF MatchedBy, Exists
  <1> QED
    BY <1>3, <1>4, <1>5, <1>6, <1>7 DEF m

(* Lemma: a commit keeps the invariant: no other request has the record or *)
(* the order, no other record the transaction.                             *)
LEMMA CommitKeeps ==
  ASSUME MatchInv, NEW s \in Session, session[s].at = "chosen", Commit(s), FreeRows(s),
         session' = [session EXCEPT ![s].at = "matched", ![s].inserts = FALSE]
  PROVE  MatchInv'
  <1> DEFINE a == session[s].asks
             m == Matched(s)
  <1>0. PICK r, o : r = session[s].record /\ o = session[s].order
    OBVIOUS
  <1>1. /\ r \in Pay /\ o \in Order /\ payment[o] = "pending" /\ MatchedBy(o) = {}
        /\ m \in Records /\ m.order = o /\ m.match # "unmatched" /\ m.amount = Price[o]
        /\ \A b \in Order : r \notin MatchedBy(b)
    BY <1>0, Written
  <1>2. session[s].inserts => ~ Exists(r) /\ m.txn = a.txn /\ Named(a) = {}
    BY <1>0, Written DEF MatchInv, SessionIsSafe
  <1>3. ~ session[s].inserts => Exists(r) /\ recRow[r] = s /\ m.txn = rec[r].txn
    BY <1>0, Written
  <1>4. /\ rec' \in [Pay -> Records \cup {NoRecord}] /\ rec'[r] = m /\ Exists(r)'
        /\ \A q \in Pay : q # r => rec'[q] = rec[q]
        /\ payment' \in [Order -> {"pending", "paid"}] /\ payment'[o] = "paid"
        /\ \A b \in Order : b # o => payment'[b] = payment[b]
        /\ MatchedBy(o)' = {r}
        /\ \A b \in Order : b # o => MatchedBy(b)' = MatchedBy(b)
    BY <1>0, BooksAfter
  <1>5. /\ session \in [Session -> Sessions] /\ session[s] \in Sessions
        /\ payment \in [Order -> {"pending", "paid"}]
    BY DEF MatchInv, RowTypes
  <1>6. /\ session' \in [Session -> Sessions]
        /\ session'[s].at = "matched" /\ ~ session'[s].inserts
        /\ \A t \in Session : t # s => session'[t] = session[t]
    BY <1>5 DEF Sessions, Step
  <1> HIDE DEF m
  <1>7. RowTypes'
    BY <1>4, <1>6, FreeRowsKeeps DEF RowTypes
  <1>8. TxnsAreUnique'
    <2>1. ASSUME NEW q \in Pay, q # r, Exists(q)', rec'[q].txn = rec'[r].txn, rec'[r].txn # NoTxn
          PROVE  FALSE
      <3>1. Exists(q) /\ rec[q].txn = m.txn /\ m.txn # NoTxn
        BY <1>4, <2>1 DEF Exists
      <3>2. CASE session[s].inserts
        BY <1>2, <3>1, <3>2 DEF Named
      <3>3. CASE ~ session[s].inserts
        BY <1>1, <1>3, <2>1, <3>1, <3>3 DEF MatchInv, TxnsAreUnique
      <3> QED
        BY <3>2, <3>3
    <2>2. ASSUME NEW q \in Pay, NEW p \in Pay, q # r, p # r, Exists(q)', Exists(p)',
                 rec'[q].txn = rec'[p].txn, rec'[q].txn # NoTxn
          PROVE  p = q
      BY <1>4, <2>2 DEF MatchInv, TxnsAreUnique, Exists
    <2> QED
      BY <2>1, <2>2 DEF TxnsAreUnique
  <1>9. BooksAgree'
    <2> SUFFICES ASSUME NEW q \in Pay, Exists(q)'
                 PROVE  /\ rec'[q].match = "unmatched" <=> rec'[q].order = NoOrder
                        /\ rec'[q].order # NoOrder =>
                             /\ payment'[rec'[q].order] = "paid"
                             /\ Price[rec'[q].order] = rec'[q].amount
                             /\ MatchedBy(rec[q].order)' = {q}
      BY DEF BooksAgree
    <2>1. CASE q = r
      BY <1>1, <1>4, <2>1, MatchAssumption
    <2>2. CASE q # r
      <3>1. Exists(q) /\ rec'[q] = rec[q]
        BY <1>4, <2>2 DEF Exists
      <3>2. /\ rec[q].match = "unmatched" <=> rec[q].order = NoOrder
            /\ rec[q].order # NoOrder =>
                 /\ payment[rec[q].order] = "paid" /\ Price[rec[q].order] = rec[q].amount
                 /\ MatchedBy(rec[q].order) = {q}
        BY <3>1 DEF MatchInv, BooksAgree
      <3>3. rec[q].order # NoOrder => rec[q].order \in Order /\ rec[q].order # o
        <4>1. rec[q] \in Records
          BY <3>1 DEF Exists, MatchInv, RowTypes
        <4> QED
          BY <1>1, <3>2, <4>1 DEF Records
      <3> QED
        BY <1>4, <3>1, <3>2, <3>3
    <2> QED
      BY <2>1, <2>2
  <1>10. ASSUME NEW t \in Session
         PROVE  SessionIsSafe(t)'
    <2>1. CASE t = s
      BY <1>6, <2>1 DEF SessionIsSafe
    <2>2. CASE t # s
      <3>0. PICK x : x = session[t]
        OBVIOUS
      <3>1. x = session[t] /\ session'[t] = x /\ SessionIsSafe(t) /\ x \in Sessions
        BY <1>5, <1>6, <2>2, <3>0 DEF MatchInv
      <3>2. x.inserts => x.record # r
        <4>1. CASE session[s].inserts
          BY <1>0, <2>2, <3>1, <4>1 DEF MatchInv, InsertsDiffer
        <4>2. CASE ~ session[s].inserts
          BY <1>3, <3>1, <4>2 DEF SessionIsSafe
        <4> QED
          BY <4>1, <4>2
      <3>3. x.inserts => ~ Exists(x.record)'
        BY <1>4, <3>1, <3>2 DEF SessionIsSafe, Exists
      <3>4. x.inserts => Named(x.asks)' = {}
        <4> SUFFICES ASSUME x.inserts, NEW q \in Pay, Exists(q)', x.asks.txn # NoTxn,
                            rec'[q].txn = x.asks.txn
                     PROVE  FALSE
          BY DEF Named
        <4>1. Named(x.asks) = {}
          BY <3>1 DEF SessionIsSafe
        <4>2. CASE q # r
          BY <1>4, <4>1, <4>2 DEF Named, Exists
        <4>3. CASE q = r /\ session[s].inserts
          BY <1>2, <1>4, <2>2, <3>1, <4>3 DEF MatchInv, InsertsDiffer, Ask
        <4>4. CASE q = r /\ ~ session[s].inserts
          BY <1>1, <1>3, <1>4, <4>1, <4>4 DEF Named
        <4> QED
          BY <4>2, <4>3, <4>4
      <3>5. x.at \in {"recorded", "chosen"} /\ ~ x.inserts =>
              /\ x.record \in Pay /\ Exists(x.record)' /\ rec'[x.record].match = "unmatched"
              /\ recRow'[x.record] = t
        <4> SUFFICES ASSUME x.at \in {"recorded", "chosen"}, ~ x.inserts
                     PROVE  /\ x.record \in Pay /\ Exists(x.record)'
                            /\ rec'[x.record].match = "unmatched" /\ recRow'[x.record] = t
          OBVIOUS
        <4>1. /\ x.record \in Pay /\ Exists(x.record) /\ rec[x.record].match = "unmatched"
              /\ recRow[x.record] = t
          BY <3>1 DEF SessionIsSafe
        <4>2. x.record # r
          BY <1>2, <1>3, <2>2, <4>1
        <4>3. recRow'[x.record] = t
          BY <2>2, <4>1, FreeRowsKeeps
        <4> QED
          BY <1>4, <4>1, <4>2, <4>3 DEF Exists
      <3>6. x.at = "chosen" =>
              /\ x.order \in Order /\ orderRow'[x.order] = t /\ payment'[x.order] = "pending"
              /\ Price[x.order] = x.asks.amount
        <4> SUFFICES ASSUME x.at = "chosen"
                     PROVE  /\ x.order \in Order /\ orderRow'[x.order] = t
                            /\ payment'[x.order] = "pending" /\ Price[x.order] = x.asks.amount
          OBVIOUS
        <4>1. /\ x.order \in Order /\ orderRow[x.order] = t /\ payment[x.order] = "pending"
              /\ Price[x.order] = x.asks.amount
          BY <3>1 DEF SessionIsSafe
        <4>2. orderRow[o] = s
          BY <1>0 DEF MatchInv, SessionIsSafe
        <4>3. orderRow'[x.order] = t
          BY <2>2, <4>1, FreeRowsKeeps
        <4> QED
          BY <1>4, <2>2, <4>1, <4>2, <4>3
      <3> QED
        BY <3>1, <3>3, <3>4, <3>5, <3>6 DEF SessionIsSafe
    <2> QED
      BY <2>1, <2>2
  <1>11. ASSUME NEW t \in Session, NEW u \in Session, t # u
         PROVE  InsertsDiffer(t, u)'
    BY <1>6, <1>11 DEF MatchInv, InsertsDiffer, Ask
  <1> QED
    BY <1>7, <1>8, <1>9, <1>10, <1>11 DEF MatchInv

(* Lemma: the end of the block commits or leaves the books to the session.  *)
LEMMA EndBlockKeeps ==
  ASSUME MatchInv, NEW s \in Session, EndBlock(s)
  PROVE  MatchInv'
  <1>1. CASE ~ session[s].inherited
    BY <1>1, CommitKeeps DEF EndBlock, At
  <1>2. CASE session[s].inherited
    <2>1. /\ RowTypes /\ session \in [Session -> Sessions] /\ session[s] \in Sessions
          /\ SessionIsSafe(s) /\ DOMAIN recRow = Pay /\ DOMAIN orderRow = Order
      BY DEF MatchInv, RowTypes
    <2>2. session' = [session EXCEPT ![s].at = "matched"]
          /\ UNCHANGED <<payment, rec, recRow, orderRow>>
      BY <1>2 DEF EndBlock, Goto, books
    <2>3. /\ session' \in [Session -> Sessions]
          /\ session'[s].at = "matched" /\ session'[s].inserts = session[s].inserts
          /\ session'[s].record = session[s].record /\ session'[s].asks = session[s].asks
          /\ \A t \in Session : t # s => session'[t] = session[t]
      BY <2>1, <2>2 DEF Sessions, Step
    <2>4. SessionIsSafe(s)'
      BY <2>1, <2>2, <2>3 DEF SessionIsSafe, Exists, Named
    <2>5. \A t \in Session : t # s => InsertsDiffer(s, t)'
      BY <2>3 DEF MatchInv, InsertsDiffer, Ask
    <2> QED
      BY <2>1, <2>2, <2>3, <2>4, <2>5, OthersMatch
  <1> QED
    BY <1>1, <1>2

(* Lemma: a key that expires changes no row.                               *)
LEMMA ExpireKeeps ==
  ASSUME MatchInv, NEW k \in Key, Expire(k)
  PROVE  MatchInv'
  <1>1. UNCHANGED <<payment, rec, recRow, orderRow>>
    BY DEF Expire, books
  <1>2. session' \in [Session -> Sessions]
        /\ \A t \in Session : /\ session'[t].at = session[t].at
                              /\ session'[t].asks = session[t].asks
                              /\ session'[t].inserts = session[t].inserts
                              /\ session'[t].record = session[t].record
                              /\ session'[t].order = session[t].order
    <2>1. session \in [Session -> Sessions]
      BY DEF MatchInv, RowTypes
    <2>2. CASE redis[k] \in Session
      <3>1. /\ session' = [session EXCEPT ![redis[k]].expired = TRUE]
            /\ session[redis[k]] \in Sessions
        BY <2>1, <2>2 DEF Expire
      <3> QED
        BY <2>1, <2>2, <3>1 DEF Sessions
    <2>3. CASE redis[k] \notin Session
      BY <2>1, <2>3 DEF Expire
    <2> QED
      BY <2>2, <2>3
  <1>3. RowTypes' /\ TxnsAreUnique' /\ BooksAgree'
    BY <1>1, <1>2 DEF MatchInv, RowTypes, TxnsAreUnique, BooksAgree, Exists, MatchedBy
  <1>4. ASSUME NEW t \in Session
        PROVE  SessionIsSafe(t)'
    <2>1. SessionIsSafe(t)
      BY DEF MatchInv
    <2> QED
      BY <1>1, <1>2, <2>1 DEF SessionIsSafe, Exists, Named
  <1>5. ASSUME NEW t \in Session, NEW u \in Session, t # u
        PROVE  InsertsDiffer(t, u)'
    BY <1>2, <1>5 DEF MatchInv, InsertsDiffer, Ask
  <1> QED
    BY <1>3, <1>4, <1>5 DEF MatchInv

(* Lemma: callbacks and cancellations leave locked orders alone.           *)
LEMMA ElsewhereKeeps ==
  ASSUME MatchInv, NEW o \in Order, PaidElsewhere(o) \/ Cancelled(o)
  PROVE  MatchInv'
  <1>1. /\ orderRow[o] = Nobody /\ UNCHANGED <<rec, session, recRow, orderRow>>
        /\ payment' \in {payment, [payment EXCEPT ![o] = "paid"]}
    BY DEF PaidElsewhere, Cancelled
  <1>2. payment \in [Order -> {"pending", "paid"}] /\ Nobody \notin Session
    BY MatchAssumption DEF MatchInv, RowTypes
  <1>3. /\ payment' \in [Order -> {"pending", "paid"}]
        /\ \A b \in Order : payment[b] = "paid" => payment'[b] = "paid"
        /\ \A b \in Order : orderRow[b] \in Session => payment'[b] = payment[b]
    BY <1>1, <1>2
  <1>4. RowTypes' /\ TxnsAreUnique'
    BY <1>1, <1>3 DEF MatchInv, RowTypes, TxnsAreUnique, Exists
  <1>5. BooksAgree'
    <2> SUFFICES ASSUME NEW q \in Pay, Exists(q)
                 PROVE  /\ rec[q].match = "unmatched" <=> rec[q].order = NoOrder
                        /\ rec[q].order # NoOrder =>
                             /\ payment'[rec[q].order] = "paid"
                             /\ Price[rec[q].order] = rec[q].amount
                             /\ MatchedBy(rec[q].order) = {q}
      BY <1>1 DEF BooksAgree, Exists, MatchedBy
    <2>1. rec[q] \in Records
      BY DEF Exists, MatchInv, RowTypes
    <2>2. rec[q].order \in Order \cup {NoOrder}
      BY <2>1 DEF Records
    <2> QED
      BY <1>3, <2>2 DEF MatchInv, BooksAgree
  <1>6. ASSUME NEW t \in Session
        PROVE  SessionIsSafe(t)'
    <2>1. SessionIsSafe(t)
      BY DEF MatchInv
    <2> QED
      BY <1>1, <1>3, <2>1 DEF SessionIsSafe, Exists, Named
  <1>7. \A t, u \in Session : t # u => InsertsDiffer(t, u)'
    BY <1>1 DEF MatchInv, InsertsDiffer, Ask
  <1> QED
    BY <1>4, <1>5, <1>6, <1>7 DEF MatchInv

(* Lemma: every step keeps the invariant.                                  *)
LEMMA MatchKeeps == MatchInv /\ [MatchNext]_matchVars => MatchInv'
  <1>1. CASE UNCHANGED matchVars
    BY <1>1 DEF matchVars, books, MatchInv, RowTypes, TxnsAreUnique, BooksAgree, SessionIsSafe,
                InsertsDiffer, Exists, MatchedBy, Named, Ask
  <1> QED
    BY <1>1, AtTheDoorKeeps, AcquireKeeps, ChooseKeeps, EndBlockKeeps, ExpireKeeps, ElsewhereKeeps
    DEF MatchNext

(* Lemma: the invariant always holds.                                      *)
LEMMA MatchAlways == MatchSpec => []MatchInv
  BY MatchStart, MatchKeeps, PTL DEF MatchSpec

(* Theorem: a matched record names a paid order of its amount and no two   *)
(* records name the same order, whatever fails in between.                 *)
THEOREM BooksAgreeAlways == MatchSpec => []BooksAgree
  <1>1. MatchInv => BooksAgree
    BY DEF MatchInv
  <1> QED
    BY <1>1, MatchAlways, PTL

-----------------------------------------------------------------------------
(* The ledger                                                              *)

(* Lemma: a commit books its payment on its order.                         *)
LEMMA CommitBooks ==
  ASSUME MatchInv, NEW s \in Session, session[s].at = "chosen", Commit(s), TxnsAreUnique'
  PROVE  \E p \in Payments, o \in Order : Ledger!Pay(o) /\ Ledger!Book(p, o)
  <1>0. PICK r, o : r = session[s].record /\ o = session[s].order
    OBVIOUS
  <1>1. /\ r \in Pay /\ o \in Order /\ payment[o] = "pending" /\ MatchedBy(o) = {}
        /\ Matched(s) \in Records /\ \A b \in Order : r \notin MatchedBy(b)
    BY <1>0, Written
  <1>2. /\ rec'[r] = Matched(s) /\ Exists(r)'
        /\ \A q \in Pay : q # r => rec'[q] = rec[q]
        /\ payment'[o] = "paid" /\ \A b \in Order : b # o => payment'[b] = payment[b]
        /\ MatchedBy(o)' = {r}
        /\ \A b \in Order : b # o => MatchedBy(b)' = MatchedBy(b)
    BY <1>0, BooksAfter
  <1>3. PICK p : p = IF Matched(s).txn # NoTxn THEN Matched(s).txn ELSE r
    OBVIOUS
  <1>4. p \in Payments /\ Matched(s).txn \in Txns
    BY <1>1, <1>3 DEF Payments, Records
  <1>5. PaymentOf(r)' = p
    BY <1>2, <1>3 DEF PaymentOf
  <1>6. o \notin PaidOrders /\ PaidOrders' = PaidOrders \cup {o}
    BY <1>1, <1>2 DEF PaidOrders
  <1>7. ASSUME NEW b \in Order, MatchedBy(b) # {}
        PROVE  /\ (CHOOSE q \in MatchedBy(b) : TRUE) \in MatchedBy(b)
               /\ (CHOOSE q \in MatchedBy(b) : TRUE) # r
    BY <1>1, <1>7
  <1>8. ASSUME NEW b \in Order
        PROVE  PaymentBehind[b] # p
    <2>1. CASE MatchedBy(b) = {}
      BY <1>4, <2>1, MatchAssumption DEF PaymentBehind, Payments
    <2>2. ASSUME MatchedBy(b) # {}
          PROVE  PaymentBehind[b] # p
      <3>1. PICK q : q = CHOOSE x \in MatchedBy(b) : TRUE
        OBVIOUS
      <3>2. q \in Pay /\ Exists(q) /\ q # r /\ PaymentBehind[b] = PaymentOf(q)
        BY <1>7, <2>2, <3>1 DEF PaymentBehind, MatchedBy
      <3>3. rec'[q] = rec[q] /\ Exists(q)' /\ rec[q] \in Records
        BY <1>2, <3>2 DEF Exists, MatchInv, RowTypes
      <3>4. rec[q].txn \in Txns
        BY <3>3 DEF Records
      <3>5. rec[q].txn # NoTxn => rec[q].txn # Matched(s).txn
        BY <1>1, <1>2, <3>2, <3>3 DEF TxnsAreUnique
      <3>6. Txns \cap Pay \subseteq {NoTxn}
        BY MatchAssumption
      <3> QED
        BY <1>1, <1>3, <1>4, <3>2, <3>4, <3>5, <3>6 DEF PaymentOf
    <2> QED
      BY <2>1, <2>2
  <1>9. PaymentBehind' = [PaymentBehind EXCEPT ![o] = p]
    <2>1. PaymentBehind'[o] = p
      BY <1>1, <1>2, <1>5 DEF PaymentBehind
    <2>2. ASSUME NEW b \in Order, b # o
          PROVE  PaymentBehind'[b] = PaymentBehind[b]
      <3>1. CASE MatchedBy(b) = {}
        BY <1>2, <2>2, <3>1 DEF PaymentBehind
      <3>2. ASSUME MatchedBy(b) # {}
            PROVE  PaymentBehind'[b] = PaymentBehind[b]
        <4>1. PICK q : q = CHOOSE x \in MatchedBy(b) : TRUE
          OBVIOUS
        <4>2. q \in Pay /\ q # r /\ PaymentBehind[b] = PaymentOf(q)
          BY <1>7, <3>2, <4>1 DEF PaymentBehind, MatchedBy
        <4>3. PaymentBehind'[b] = PaymentOf(q)'
          BY <1>2, <2>2, <3>2, <4>1 DEF PaymentBehind
        <4>4. PaymentOf(q)' = PaymentOf(q)
          BY <1>2, <4>2 DEF PaymentOf
        <4> QED
          BY <4>2, <4>3, <4>4
      <3> QED
        BY <3>1, <3>2
    <2>3. /\ PaymentBehind = [b \in Order |-> PaymentBehind[b]]
          /\ PaymentBehind' = [b \in Order |-> PaymentBehind'[b]]
      BY DEF PaymentBehind
    <2> QED
      BY <1>1, <2>1, <2>2, <2>3
  <1> QED
    BY <1>1, <1>4, <1>6, <1>8, <1>9 DEF Ledger!Pay, Ledger!Book

(* Lemma: every step is a booking, a payment elsewhere, or none to the     *)
(* ledger.                                                                 *)
LEMMA StepsAreBookings ==
  ASSUME MatchInv, MatchInv', [MatchNext]_matchVars
  PROVE  [Ledger!Next]_(Ledger!ledger)
  <1>1. ASSUME UNCHANGED <<payment, rec>>
        PROVE  UNCHANGED Ledger!ledger
    BY <1>1 DEF Ledger!ledger, PaidOrders, PaymentBehind, MatchedBy, Exists, PaymentOf
  <1>2. ASSUME NEW s \in Session, EndBlock(s), ~ session[s].inherited
        PROVE  Ledger!Next
    <2>1. session[s].at = "chosen" /\ Commit(s)
      BY <1>2 DEF EndBlock, At
    <2>2. \E p \in Payments, o \in Order : Ledger!Pay(o) /\ Ledger!Book(p, o)
      BY <2>1, CommitBooks DEF MatchInv
    <2> QED
      BY <2>2 DEF Ledger!Next
  <1>3. ASSUME NEW o \in Order, PaidElsewhere(o)
        PROVE  Ledger!Next
    <2>1. UNCHANGED rec /\ payment[o] = "pending" /\ payment' = [payment EXCEPT ![o] = "paid"]
          /\ payment \in [Order -> {"pending", "paid"}]
      BY <1>3 DEF PaidElsewhere, MatchInv, RowTypes
    <2>2. o \notin PaidOrders /\ PaidOrders' = PaidOrders \cup {o}
      BY <2>1 DEF PaidOrders
    <2>3. UNCHANGED PaymentBehind
      BY <2>1 DEF PaymentBehind, MatchedBy, Exists, PaymentOf
    <2> QED
      BY <2>2, <2>3 DEF Ledger!Next, Ledger!Pay
  <1>4. ASSUME NEW s \in Session,
               \/ \E a \in Asks, inherited \in Entries : Arrive(s, a, inherited)
               \/ LockInRedis(s) \/ LockInDatabase(s) \/ AcquireRecord(s) \/ ChooseOrder(s)
               \/ EndBlock(s) /\ session[s].inherited
               \/ Fail(s) \/ Answer(s) \/ Close(s) \/ Crash(s)
        PROVE  UNCHANGED <<payment, rec>>
    BY <1>4 DEF Arrive, LockInRedis, LockInDatabase, AcquireRecord, ChooseOrder, EndBlock, Fail,
                Answer, Close, Crash, books
  <1>5. ASSUME (\E k \in Key : Expire(k)) \/ (\E o \in Order : Cancelled(o)) \/ UNCHANGED matchVars
        PROVE  UNCHANGED <<payment, rec>>
    BY <1>5 DEF Expire, Cancelled, matchVars, books
  <1> QED
    BY <1>1, <1>2, <1>3, <1>4, <1>5 DEF MatchNext

(* Theorem: whatever becomes of the distributed lock, matches come out as  *)
(* bookings of the ledger: an order is paid once, and a payment pays one   *)
(* order.                                                                  *)
THEOREM ImplementsLedgerAlways == MatchSpec => ImplementsLedger
  <1>1. MatchInit => Ledger!Init
    <2>1. ASSUME MatchInit
          PROVE  \A o \in Order : MatchedBy(o) = {}
      <3>1. \A r \in Pay : Exists(r) => r \in DOMAIN Imported /\ rec[r] = Imported[r]
        BY <2>1 DEF MatchInit, Exists
      <3> QED
        BY <3>1, MatchAssumption DEF MatchedBy
    <2> QED
      BY <2>1 DEF Ledger!Init, PaidOrders, PaymentBehind
  <1>2. MatchInv /\ MatchInv' /\ [MatchNext]_matchVars => [Ledger!Next]_(Ledger!ledger)
    BY StepsAreBookings
  <1> QED
    BY <1>1, <1>2, MatchAlways, PTL DEF MatchSpec, ImplementsLedger, Ledger!Spec

-----------------------------------------------------------------------------
(* The distributed lock                                                    *)

LockTypes ==
  /\ session \in [Session -> Sessions]
  /\ DOMAIN redis = Key /\ DOMAIN advisory = Key

\* A request that has a lock which has not run out is who the lock names.
LockIsMine(s) ==
  /\ session[s].at = "idle" => session[s].lock = "none"
  /\ session[s].lock = "redis" /\ ~ session[s].expired => redis[KeyOf(Ask(s))] = s
  /\ session[s].lock = "advisory" => advisory[KeyOf(Ask(s))] = s

LockInv == LockTypes /\ \A s \in Session : LockIsMine(s)

(* Lemma: only the holder of a key gives it back.                          *)
LEMMA OthersHold ==
  ASSUME LockInv, NEW s \in Session,
         session' \in [Session -> Sessions],
         \A t \in Session : t # s => session'[t] = session[t],
         DOMAIN redis' = Key, DOMAIN advisory' = Key,
         \A k \in Key : redis[k] \in Session /\ redis[k] # s => redis'[k] = redis[k],
         \A k \in Key : advisory[k] \in Session /\ advisory[k] # s => advisory'[k] = advisory[k],
         LockIsMine(s)'
  PROVE  LockInv'
  <1>1. LockTypes'
    BY DEF LockTypes
  <1>2. ASSUME NEW t \in Session, t # s
        PROVE  LockIsMine(t)'
    <2>1. session'[t] = session[t] /\ LockIsMine(t) /\ session[t] \in Sessions
      BY <1>2 DEF LockInv, LockTypes
    <2>2. KeyOf(Ask(t)) \in Key
      BY <2>1 DEF Key, Ask, Sessions
    <2> QED
      BY <1>2, <2>1, <2>2 DEF LockIsMine, Ask
  <1> QED
    BY <1>1, <1>2 DEF LockInv

(* Lemma: every step keeps what a request that has a lock knows.           *)
LEMMA LocksKeep ==
  ASSUME LockInv, MatchInv, MatchInv', [MatchNext]_matchVars
  PROVE  LockInv'
  <1>1. /\ session \in [Session -> Sessions] /\ session' \in [Session -> Sessions]
        /\ DOMAIN redis = Key /\ DOMAIN advisory = Key
        /\ \A s \in Session : LockIsMine(s) /\ session[s] \in Sessions /\ KeyOf(Ask(s)) \in Key
    BY DEF LockInv, LockTypes, MatchInv, RowTypes, Key, Ask, Sessions
  <1>2. ASSUME NEW s \in Session, Fail(s) \/ Answer(s) \/ Close(s) \/ Crash(s)
        PROVE  LockInv'
    <2>1. /\ session'[s].lock = "none"
          /\ \A t \in Session : t # s => session'[t] = session[t]
      <3>1. CASE session' = [session EXCEPT ![s] = Idle]
        BY <1>1, <3>1, IdleIsSession
      <3>2. CASE session' = [session EXCEPT ![s].at = "answered", ![s].lock = "none",
                                            ![s].expired = FALSE]
        <4>1. session[s] \in Sessions
          BY <1>1
        <4> QED
          BY <1>1, <3>2, <4>1 DEF Sessions
      <3> QED
        BY <1>2, <3>1, <3>2 DEF Fail, Answer, Close, Crash
    <2>2. LockIsMine(s)'
      BY <2>1 DEF LockIsMine
    <2>3. LockIsMine(s) /\ KeyOf(Ask(s)) \in Key
      BY <1>1
    <2>4. CASE ReleaseLock(s)
      <3>1. /\ DOMAIN redis' = Key /\ DOMAIN advisory' = Key
            /\ \A k \in Key : redis[k] # s => redis'[k] = redis[k]
            /\ \A k \in Key : advisory[k] # s => advisory'[k] = advisory[k]
        BY <1>1, <2>3, <2>4 DEF ReleaseLock, LockIsMine
      <3> QED
        BY <1>1, <2>1, <2>2, <3>1, OthersHold
    <2>5. CASE Close(s)
      BY <1>1, <2>1, <2>2, <2>5, OthersHold DEF Close, locks
    <2>6. CASE Crash(s)
      <3>1. /\ DOMAIN redis' = Key /\ DOMAIN advisory' = Key
            /\ \A k \in Key : redis[k] # s => redis'[k] = redis[k]
            /\ \A k \in Key : advisory[k] # s => advisory'[k] = advisory[k]
        BY <1>1, <2>3, <2>6 DEF Crash
      <3> QED
        BY <1>1, <2>1, <2>2, <3>1, OthersHold
    <2> QED
      BY <1>2, <2>4, <2>5, <2>6 DEF Fail, Answer
  <1>3. ASSUME NEW s \in Session, LockInRedis(s)
        PROVE  LockInv'
    <2>1. /\ session' = [session EXCEPT ![s].at = "locked", ![s].lock = "redis"]
          /\ redis[KeyOf(Ask(s))] = Nobody /\ redis' = [redis EXCEPT ![KeyOf(Ask(s))] = s]
          /\ UNCHANGED advisory /\ session[s] \in Sessions /\ KeyOf(Ask(s)) \in Key
      BY <1>1, <1>3 DEF LockInRedis, Holding
    <2>2. /\ session'[s].at = "locked" /\ session'[s].lock = "redis"
          /\ session'[s].asks = session[s].asks
          /\ \A t \in Session : t # s => session'[t] = session[t]
      BY <1>1, <2>1 DEF Sessions
    <2>3. LockIsMine(s)'
      BY <1>1, <2>1, <2>2 DEF LockIsMine, Ask
    <2>4. /\ DOMAIN redis' = Key /\ DOMAIN advisory' = Key
          /\ \A k \in Key : redis[k] \in Session => redis'[k] = redis[k]
      BY <1>1, <2>1, MatchAssumption
    <2> QED
      BY <1>1, <2>1, <2>2, <2>3, <2>4, OthersHold
  <1>4. ASSUME NEW s \in Session, LockInDatabase(s)
        PROVE  LockInv'
    <2>1. /\ session' = [session EXCEPT ![s].at = "locked", ![s].lock = "advisory"]
          /\ advisory[KeyOf(Ask(s))] = Nobody
          /\ advisory' = [advisory EXCEPT ![KeyOf(Ask(s))] = s]
          /\ UNCHANGED redis /\ session[s] \in Sessions /\ KeyOf(Ask(s)) \in Key
      BY <1>1, <1>4 DEF LockInDatabase, Holding
    <2>2. /\ session'[s].at = "locked" /\ session'[s].lock = "advisory"
          /\ session'[s].asks = session[s].asks
          /\ \A t \in Session : t # s => session'[t] = session[t]
      BY <1>1, <2>1 DEF Sessions
    <2>3. LockIsMine(s)'
      BY <1>1, <2>1, <2>2 DEF LockIsMine, Ask
    <2>4. /\ DOMAIN redis' = Key /\ DOMAIN advisory' = Key
          /\ \A k \in Key : advisory[k] \in Session => advisory'[k] = advisory[k]
      BY <1>1, <2>1, MatchAssumption
    <2> QED
      BY <1>1, <2>1, <2>2, <2>3, <2>4, OthersHold
  <1>5. ASSUME NEW s \in Session, NEW a \in Asks, NEW inherited \in Entries,
               Arrive(s, a, inherited)
        PROVE  LockInv'
    <2>1. /\ session' = [session EXCEPT ![s] = [Idle EXCEPT !.at = "ready", !.asks = a,
                                                            !.inherited = inherited]]
          /\ UNCHANGED <<redis, advisory>>
      BY <1>5 DEF Arrive, locks
    <2>2. /\ session'[s].lock = "none"
          /\ \A t \in Session : t # s => session'[t] = session[t]
      BY <1>1, <2>1, IdleIsSession DEF Sessions
    <2>3. LockIsMine(s)'
      BY <2>2 DEF LockIsMine
    <2> QED
      BY <1>1, <2>1, <2>2, <2>3, OthersHold
  <1>6. ASSUME NEW s \in Session, AcquireRecord(s) \/ ChooseOrder(s) \/ EndBlock(s)
        PROVE  LockInv'
    <2>1. UNCHANGED <<redis, advisory>> /\ session[s].at # "idle" /\ session[s] \in Sessions
      BY <1>1, <1>6 DEF AcquireRecord, ChooseOrder, EndBlock, locks, At
    <2>2. /\ session'[s].at # "idle" /\ session'[s].lock = session[s].lock
          /\ session'[s].expired = session[s].expired /\ session'[s].asks = session[s].asks
          /\ \A t \in Session : t # s => session'[t] = session[t]
      <3>1. CASE AcquireRecord(s)
        <4>1. \E r : \/ session' = [session EXCEPT ![s].at = "recorded", ![s].record = r]
                     \/ session' = [session EXCEPT ![s].at = "recorded", ![s].record = r,
                                                   ![s].inserts = TRUE]
          BY <3>1 DEF AcquireRecord, FindNamed, FindSimilar, InsertRecord, UseRecord
        <4> QED
          BY <1>1, <2>1, <4>1 DEF Sessions
      <3>2. CASE ChooseOrder(s)
        BY <1>1, <2>1, <3>2 DEF ChooseOrder, Sessions
      <3>3. CASE EndBlock(s)
        BY <1>1, <2>1, <3>3 DEF EndBlock, Goto, Sessions
      <3> QED
        BY <1>6, <3>1, <3>2, <3>3
    <2>3. LockIsMine(s)'
      BY <1>1, <2>1, <2>2 DEF LockIsMine, Ask
    <2> QED
      BY <1>1, <2>1, <2>2, <2>3, OthersHold
  <1>7. ASSUME NEW k \in Key, Expire(k)
        PROVE  LockInv'
    <2>1. redis' = [redis EXCEPT ![k] = Nobody] /\ UNCHANGED advisory
      BY <1>7 DEF Expire
    <2>2. \A t \in Session : /\ session'[t].at = session[t].at
                             /\ session'[t].asks = session[t].asks
                             /\ session'[t].lock = session[t].lock
                             /\ session[t].expired => session'[t].expired
                             /\ redis[k] = t => session'[t].expired
      <3>1. CASE redis[k] \in Session
        <4>1. /\ session' = [session EXCEPT ![redis[k]].expired = TRUE]
              /\ session[redis[k]] \in Sessions
          BY <1>1, <1>7, <3>1 DEF Expire
        <4> QED
          BY <1>1, <3>1, <4>1 DEF Sessions
      <3>2. CASE redis[k] \notin Session
        BY <1>7, <3>2 DEF Expire
      <3> QED
        BY <3>1, <3>2
    <2>3. ASSUME NEW t \in Session
          PROVE  LockIsMine(t)'
      BY <1>1, <2>1, <2>2 DEF LockIsMine, Ask
    <2> QED
      BY <1>1, <2>1, <2>3 DEF LockInv, LockTypes
  <1>8. ASSUME (\E o \in Order : PaidElsewhere(o) \/ Cancelled(o)) \/ UNCHANGED matchVars
        PROVE  LockInv'
    BY <1>8 DEF PaidElsewhere, Cancelled, matchVars, locks, LockInv, LockTypes, LockIsMine, Ask
  <1> QED
    BY <1>2, <1>3, <1>4, <1>5, <1>6, <1>7, <1>8 DEF MatchNext

(* Theorem: requests about one payment exclude each other unless a lock    *)
(* has run out or is in two places.                                        *)
THEOREM LocksExcludeAlways == MatchSpec => []LocksExclude
  <1>1. MatchInit => LockInv
    BY IdleIsSession DEF MatchInit, LockInv, LockTypes, LockIsMine
  <1>2. LockInv => LocksExclude
    <2> SUFFICES ASSUME LockInv, NEW s \in Session, NEW t \in Session, s # t,
                        KeyOf(Ask(s)) = KeyOf(Ask(t)), session[s].lock # "none",
                        session[s].lock = session[t].lock
                 PROVE  session[s].expired \/ session[t].expired
      BY DEF LocksExclude
    <2>1. session[s].lock \in {"redis", "advisory"} /\ LockIsMine(s) /\ LockIsMine(t)
      <3>1. session[s] \in Sessions
        BY DEF LockInv, LockTypes
      <3> QED
        BY <3>1 DEF LockInv, Sessions
    <2> QED
      BY <2>1 DEF LockIsMine
  <1> QED
    BY <1>1, <1>2, LocksKeep, MatchAlways, PTL DEF MatchSpec

-----------------------------------------------------------------------------
(* Type correctness                                                        *)

\* What the types add to the invariant: the states of orders, and who can have a lock.
LockHolders ==
  /\ status \in [Order -> {"pending_payment", "paid", "cancelled"}]
  /\ recRow \in [Pay -> Session \cup {Nobody}]
  /\ orderRow \in [Order -> Session \cup {Nobody}]
  /\ redis \in [Key -> Session \cup {Nobody, Gone}]
  /\ advisory \in [Key -> Session \cup {Nobody}]

RecordsInBounds == \A s \in Session : session[s].record \in Pay \cup {0}

(* Lemma: locks of rows go to requests and back.                           *)
LEMMA RowsAreHeld ==
  ASSUME LockHolders, NEW s \in Session
  PROVE  /\ FreeRows(s) => /\ recRow' \in [Pay -> Session \cup {Nobody}]
                           /\ orderRow' \in [Order -> Session \cup {Nobody}]
         /\ \A R : LockRecords(s, R) => recRow' \in [Pay -> Session \cup {Nobody}]
         /\ \A O : LockOrders(s, O) => orderRow' \in [Order -> Session \cup {Nobody}]
  <1>1. FreeRows(s) => /\ recRow' \in [Pay -> Session \cup {Nobody}]
                       /\ orderRow' \in [Order -> Session \cup {Nobody}]
    BY DEF LockHolders, FreeRows
  <1>2. \A R : LockRecords(s, R) => recRow' \in [Pay -> Session \cup {Nobody}]
    BY DEF LockHolders, LockRecords
  <1>3. \A O : LockOrders(s, O) => orderRow' \in [Order -> Session \cup {Nobody}]
    BY DEF LockHolders, LockOrders
  <1> QED
    BY <1>1, <1>2, <1>3

(* Lemma: so do the distributed locks.                                     *)
LEMMA KeysAreHeld ==
  ASSUME LockHolders, NEW s \in Session, ReleaseLock(s)
  PROVE  /\ redis' \in [Key -> Session \cup {Nobody, Gone}]
         /\ advisory' \in [Key -> Session \cup {Nobody}]
  BY DEF LockHolders, ReleaseLock

(* Lemma: every step of a request keeps the types of the locks.            *)
LEMMA LocksStayTyped ==
  ASSUME LockHolders, [MatchNext]_matchVars
  PROVE  LockHolders'
  <1>1. ASSUME NEW s \in Session,
               \/ \E a \in Asks, inherited \in Entries : Arrive(s, a, inherited)
               \/ LockInRedis(s) \/ LockInDatabase(s)
        PROVE  LockHolders'
    <2>1. UNCHANGED <<status, recRow, orderRow>>
      BY <1>1 DEF Arrive, LockInRedis, LockInDatabase, books
    <2>2. /\ redis' \in [Key -> Session \cup {Nobody, Gone}]
          /\ advisory' \in [Key -> Session \cup {Nobody}]
      BY <1>1 DEF Arrive, LockInRedis, LockInDatabase, locks, LockHolders
    <2> QED
      BY <2>1, <2>2 DEF LockHolders
  <1>2. ASSUME NEW s \in Session, AcquireRecord(s)
        PROVE  LockHolders'
    <2>1. UNCHANGED <<status, orderRow, redis, advisory>>
      BY <1>2 DEF AcquireRecord, books, locks
    <2>2. recRow' \in [Pay -> Session \cup {Nobody}]
      <3>1. (\E R : LockRecords(s, R)) \/ UNCHANGED recRow
        BY <1>2 DEF AcquireRecord, FindNamed, FindSimilar, InsertRecord
      <3> QED
        BY <3>1, RowsAreHeld DEF LockHolders
    <2> QED
      BY <2>1, <2>2 DEF LockHolders
  <1>3. ASSUME NEW s \in Session, ChooseOrder(s)
        PROVE  LockHolders'
    <2>1. UNCHANGED <<status, recRow, redis, advisory>>
      BY <1>3 DEF ChooseOrder, books, locks
    <2>2. \E O : LockOrders(s, O)
      BY <1>3 DEF ChooseOrder, Forced, OnlyCandidate
    <2> QED
      BY <2>1, <2>2, RowsAreHeld DEF LockHolders
  <1>4. ASSUME NEW s \in Session, EndBlock(s)
        PROVE  LockHolders'
    <2>1. UNCHANGED <<redis, advisory>>
      BY <1>4 DEF EndBlock, locks
    <2>2. status' \in [Order -> {"pending_payment", "paid", "cancelled"}]
      BY <1>4 DEF EndBlock, Commit, books, LockHolders
    <2>3. FreeRows(s) \/ UNCHANGED <<recRow, orderRow>>
      BY <1>4 DEF EndBlock
    <2> QED
      BY <2>1, <2>2, <2>3, RowsAreHeld DEF LockHolders
  <1>5. ASSUME NEW s \in Session, Fail(s)
        PROVE  LockHolders'
    <2>1. UNCHANGED status /\ FreeRows(s) /\ ReleaseLock(s)
      BY <1>5 DEF Fail, books
    <2> QED
      BY <2>1, RowsAreHeld, KeysAreHeld DEF LockHolders
  <1>6. ASSUME NEW s \in Session, Answer(s)
        PROVE  LockHolders'
    <2>1. UNCHANGED <<status, recRow, orderRow>> /\ ReleaseLock(s)
      BY <1>6 DEF Answer, books
    <2> QED
      BY <2>1, KeysAreHeld DEF LockHolders
  <1>7. ASSUME NEW s \in Session, Close(s)
        PROVE  LockHolders'
    <2>1. UNCHANGED <<status, redis, advisory>> /\ FreeRows(s)
      BY <1>7 DEF Close, books, locks
    <2> QED
      BY <2>1, RowsAreHeld DEF LockHolders
  <1>8. ASSUME NEW s \in Session, Crash(s)
        PROVE  LockHolders'
    <2>1. UNCHANGED status /\ FreeRows(s)
      BY <1>8 DEF Crash, books
    <2>2. /\ redis' \in [Key -> Session \cup {Nobody, Gone}]
          /\ advisory' \in [Key -> Session \cup {Nobody}]
      BY <1>8 DEF Crash, LockHolders
    <2> QED
      BY <2>1, <2>2, RowsAreHeld DEF LockHolders
  <1>9. ASSUME NEW k \in Key, Expire(k)
        PROVE  LockHolders'
    BY <1>9 DEF Expire, books, LockHolders
  <1>10. ASSUME NEW o \in Order, PaidElsewhere(o) \/ Cancelled(o)
         PROVE  LockHolders'
    BY <1>10 DEF PaidElsewhere, Cancelled, locks, LockHolders
  <1>11. CASE UNCHANGED matchVars
    BY <1>11 DEF matchVars, books, locks, LockHolders
  <1> QED
    BY <1>1, <1>2, <1>3, <1>4, <1>5, <1>6, <1>7, <1>8, <1>9, <1>10, <1>11 DEF MatchNext

(* Lemma: a request uses a record that there is room for.                  *)
LEMMA RecordsStayInBounds ==
  ASSUME RowTypes, RecordsInBounds, [MatchNext]_matchVars
  PROVE  RecordsInBounds'
  <1>1. session \in [Session -> Sessions]
    BY DEF RowTypes
  <1>2. Idle.record = 0
    BY DEF Idle
  <1>3. ASSUME NEW s \in Session,
               \/ \E a \in Asks, inherited \in Entries : Arrive(s, a, inherited)
               \/ Fail(s) \/ Close(s) \/ Crash(s)
        PROVE  RecordsInBounds'
    <2>1. \A a, h : [Idle EXCEPT !.at = "ready", !.asks = a, !.inherited = h].record = 0
      BY DEF Idle
    <2>2. \E x : session' = [session EXCEPT ![s] = x] /\ x.record = 0
      BY <1>2, <1>3, <2>1 DEF Arrive, Fail, Close, Crash
    <2> QED
      BY <1>1, <2>2 DEF RecordsInBounds
  <1>4. ASSUME NEW s \in Session, LockInRedis(s) \/ LockInDatabase(s)
        PROVE  RecordsInBounds'
    <2>1. session' \in {[session EXCEPT ![s].at = "locked", ![s].lock = kind] :
                          kind \in {"redis", "advisory"}}
      BY <1>4 DEF LockInRedis, LockInDatabase, Holding
    <2> QED
      BY <1>1, <2>1 DEF RecordsInBounds, Sessions
  <1>5. ASSUME NEW s \in Session, AcquireRecord(s)
        PROVE  RecordsInBounds'
    <2>1. ASSUME NEW r \in Pay, UseRecord(s, r)
          PROVE  RecordsInBounds'
      BY <1>1, <2>1 DEF UseRecord, RecordsInBounds, Sessions
    <2>2. ASSUME InsertRecord(s)
          PROVE  RecordsInBounds'
      <3>1. PICK r \in Pay : session' = [session EXCEPT ![s].at = "recorded", ![s].record = r,
                                                        ![s].inserts = TRUE]
        BY <2>2 DEF InsertRecord
      <3> QED
        BY <1>1, <3>1 DEF RecordsInBounds, Sessions
    <2> QED
      BY <1>5, <2>1, <2>2 DEF AcquireRecord, FindNamed, FindSimilar, Named, Similar
  <1>6. ASSUME NEW s \in Session, ChooseOrder(s)
        PROVE  RecordsInBounds'
    <2>1. PICK o \in Order : session' = [session EXCEPT ![s].at = "chosen", ![s].order = o]
      BY <1>6 DEF ChooseOrder
    <2> QED
      BY <1>1, <2>1 DEF RecordsInBounds, Sessions
  <1>7. ASSUME NEW s \in Session, EndBlock(s)
        PROVE  RecordsInBounds'
    <2>1. \/ session' = [session EXCEPT ![s].at = "matched"]
          \/ session' = [session EXCEPT ![s].at = "matched", ![s].inserts = FALSE]
      BY <1>7 DEF EndBlock, Goto
    <2> QED
      BY <1>1, <2>1 DEF RecordsInBounds, Sessions
  <1>8. ASSUME NEW s \in Session, Answer(s)
        PROVE  RecordsInBounds'
    BY <1>1, <1>8 DEF Answer, RecordsInBounds, Sessions
  <1>9. ASSUME NEW k \in Key, Expire(k)
        PROVE  RecordsInBounds'
    <2>1. session' = session \/ session' = [session EXCEPT ![redis[k]].expired = TRUE]
      BY <1>9 DEF Expire
    <2> QED
      BY <1>1, <2>1 DEF RecordsInBounds, Sessions
  <1>10. ASSUME (\E o \in Order : PaidElsewhere(o) \/ Cancelled(o)) \/ UNCHANGED matchVars
         PROVE  RecordsInBounds'
    BY <1>10 DEF PaidElsewhere, Cancelled, matchVars, RecordsInBounds
  <1> QED
    BY <1>3, <1>4, <1>5, <1>6, <1>7, <1>8, <1>9, <1>10 DEF MatchNext

(* Theorem: type correctness of matches, their rows and their locks.       *)
THEOREM MatchTypeCorrect == MatchSpec => []MatchTypeOK
  <1>1. MatchInit => LockHolders /\ RecordsInBounds
    <2>1. Idle.record = 0
      BY DEF Idle
    <2> QED
      BY <2>1 DEF MatchInit, LockHolders, RecordsInBounds
  <1>2. MatchInv => RowTypes
    BY DEF MatchInv
  <1>3. MatchInv /\ LockHolders /\ RecordsInBounds => MatchTypeOK
    <2> SUFFICES ASSUME MatchInv, LockHolders, RecordsInBounds PROVE MatchTypeOK
      OBVIOUS
    <2>1. Pay \cup {0} \subseteq 0..MaxPay
      BY MatchAssumption DEF Pay
    <2>2. RowTypes
      BY DEF MatchInv
    <2>3. ASSUME NEW s \in Session
          PROVE  /\ session[s].at \in Step /\ session[s].asks \in Asks
                 /\ session[s].lock \in {"none", "redis", "advisory"}
                 /\ session[s].record \in 0..MaxPay
                 /\ session[s].order \in Order \cup {NoOrder}
      BY <2>1, <2>2 DEF RowTypes, Sessions, RecordsInBounds
    <2> QED
      BY <2>2, <2>3 DEF RowTypes, LockHolders, Step, MatchTypeOK
  <1>4. RowTypes /\ RecordsInBounds /\ [MatchNext]_matchVars => RecordsInBounds'
    BY RecordsStayInBounds
  <1>5. LockHolders /\ [MatchNext]_matchVars => LockHolders'
    BY LocksStayTyped
  <1> QED
    BY <1>1, <1>2, <1>3, <1>4, <1>5, MatchAlways, PTL DEF MatchSpec

-----------------------------------------------------------------------------
(* The effects of a payment: any orders, points and workers and any number *)
(* of messages.                                                            *)

(* A busy worker has an order, and one that has read the balance holds the *)
(* lock: nobody else has changed the balance since.                        *)
AwardersAgree ==
  \A w \in Awarder :
    /\ awarder[w].doing = "nothing" <=> awarder[w].order = NoPurchase
    /\ awarder[w].doing = "locked" => rowOwner = w /\ awarder[w].read = points

(* Lemma: the initial state has its types and idle workers.                *)
LEMMA InitAgrees == EffectsInit => EffectsTypeOK /\ AwardersAgree
  <1> SUFFICES ASSUME EffectsInit PROVE EffectsTypeOK /\ AwardersAgree
    OBVIOUS
  <1>1. IdleAwarder \in AwarderState
    BY DEF IdleAwarder, AwarderState
  <1>2. EffectsTypeOK
    BY <1>1, EffectsAssumption DEF EffectsInit, EffectsTypeOK
  <1>3. AwardersAgree
    BY DEF EffectsInit, AwardersAgree, IdleAwarder
  <1> QED
    BY <1>2, <1>3

(* Lemma: every step keeps the types.                                      *)
LEMMA TypeNext == EffectsTypeOK /\ AwardersAgree /\ [EffectsNext]_effectsVars => EffectsTypeOK'
  <1> SUFFICES ASSUME EffectsTypeOK, AwardersAgree, [EffectsNext]_effectsVars PROVE EffectsTypeOK'
    OBVIOUS
  <1> USE PurchasesAssumption, EffectsAssumption DEF EffectsTypeOK
  <1>i. IdleAwarder \in AwarderState
    BY DEF IdleAwarder, AwarderState
  <1>d. ASSUME NEW o \in Purchase, Dispatch(o)
        PROVE  /\ dispatched' \in [Purchase -> 0..MaxDispatches]
               /\ messages' \in [Purchase -> Nat]
    <2>1. dispatched[o] + 1 \in 0..MaxDispatches
      BY <1>d DEF Dispatch
    <2> QED
      BY <1>d, <2>1 DEF Dispatch
  <1>1. ASSUME NEW o \in Purchase, NotifyPaid(o) PROVE EffectsTypeOK'
    BY <1>1, <1>d DEF NotifyPaid
  <1>2. ASSUME NEW o \in Purchase, MatchPayment(o) PROVE EffectsTypeOK'
    BY <1>2, <1>d DEF MatchPayment
  <1>3. ASSUME NEW o \in Purchase, Activate(o) PROVE EffectsTypeOK'
    BY <1>3 DEF Activate
  <1>4. ASSUME NEW w \in Awarder, NEW o \in Purchase, Start(w, o) PROVE EffectsTypeOK'
    <2>1. messages' \in [Purchase -> Nat]
      <3>1. messages[o] - 1 \in Nat
        BY <1>4 DEF Start
      <3> QED
        BY <1>4, <3>1 DEF Start
    <2>2. awarder' \in [Awarder -> AwarderState]
      <3>1. [doing |-> "started", order |-> o, read |-> 0] \in AwarderState
        BY DEF AwarderState
      <3> QED
        BY <1>4, <3>1 DEF Start
    <2> QED
      BY <1>4, <2>1, <2>2 DEF Start
  <1>5. ASSUME NEW w \in Awarder, NothingToAward(w) PROVE EffectsTypeOK'
    BY <1>5, <1>i DEF NothingToAward
  <1>6. ASSUME NEW w \in Awarder, LockUser(w) PROVE EffectsTypeOK'
    <2>1. [awarder[w] EXCEPT !.doing = "locked", !.read = points] \in AwarderState
      BY DEF AwarderState
    <2>2. awarder' \in [Awarder -> AwarderState]
      BY <1>6, <2>1 DEF LockUser
    <2> QED
      BY <1>6, <2>2 DEF LockUser
  <1>7. ASSUME NEW w \in Awarder, Award(w) PROVE EffectsTypeOK'
    <2> DEFINE o == awarder[w].order
    <2>1. o \in Purchase /\ awarder[w].read \in Nat
      BY <1>7 DEF AwardersAgree, AwarderState, Award
    <2>2. PointsOf[o] \in Nat
      BY <2>1
    <2>3. Augmented(w) \in Nat
      BY <2>1, <2>2 DEF Augmented
    <2>4. points' \in Nat /\ coupons' \in Nat
      BY <1>7, <2>3 DEF Award, COUPON_THRESHOLD
    <2>5. earned' \in Nat
      BY <1>7, <2>2 DEF Award
    <2>6. awards' \in [Purchase -> Nat]
      BY <1>7, <2>1 DEF Award
    <2>7. awarder' \in [Awarder -> AwarderState] /\ rowOwner' \in Awarder \cup {NoAwarder}
      BY <1>7, <1>i DEF Award
    <2> QED
      BY <1>7, <2>4, <2>5, <2>6, <2>7 DEF Award
  <1>8. ASSUME NEW w \in Awarder, FailAward(w) PROVE EffectsTypeOK'
    BY <1>8, <1>i DEF FailAward
  <1>9. CASE UNCHANGED effectsVars
    BY <1>9 DEF effectsVars
  <1> QED
    BY <1>1, <1>2, <1>3, <1>4, <1>5, <1>6, <1>7, <1>8, <1>9 DEF EffectsNext

(* Lemma: the lock of the users row is what WorkersAgree says it is.       *)
LEMMA AgreeNext == EffectsTypeOK /\ AwardersAgree /\ [EffectsNext]_effectsVars => AwardersAgree'
  <1> SUFFICES ASSUME EffectsTypeOK, AwardersAgree, [EffectsNext]_effectsVars PROVE AwardersAgree'
    OBVIOUS
  <1> USE EffectsAssumption DEF EffectsTypeOK, AwardersAgree, AwarderState, IdleAwarder
  <1>1. ASSUME NEW o \in Purchase, NotifyPaid(o) \/ MatchPayment(o) \/ Activate(o)
        PROVE  AwardersAgree'
    BY <1>1 DEF NotifyPaid, MatchPayment, Activate
  <1>2. ASSUME NEW w \in Awarder, NEW o \in Purchase, Start(w, o) PROVE AwardersAgree'
    BY <1>2 DEF Start
  <1>3. ASSUME NEW w \in Awarder, NothingToAward(w) PROVE AwardersAgree'
    BY <1>3 DEF NothingToAward
  <1>4. ASSUME NEW w \in Awarder, LockUser(w) PROVE AwardersAgree'
    BY <1>4 DEF LockUser
  <1>5. ASSUME NEW w \in Awarder, Award(w) PROVE AwardersAgree'
    BY <1>5 DEF Award
  <1>6. ASSUME NEW w \in Awarder, FailAward(w) PROVE AwardersAgree'
    BY <1>6 DEF FailAward
  <1>7. CASE UNCHANGED effectsVars
    BY <1>7 DEF effectsVars
  <1> QED
    BY <1>1, <1>2, <1>3, <1>4, <1>5, <1>6, <1>7 DEF EffectsNext

(* Lemma: both hold in every reachable state.                              *)
LEMMA Agreed == EffectsSpec => [](EffectsTypeOK /\ AwardersAgree)
  BY InitAgrees, TypeNext, AgreeNext, PTL DEF EffectsSpec

(* Type correctness.                                                       *)
THEOREM EffectsTypeCorrect == EffectsSpec => []EffectsTypeOK
  BY Agreed, PTL

-----------------------------------------------------------------------------
(* The balance                                                             *)

(* Lemma: exchanging points for coupons loses none.                        *)
LEMMA Exchange ==
  ASSUME NEW n \in Nat
  PROVE  /\ n = (n % COUPON_THRESHOLD) + COUPON_THRESHOLD * (n \div COUPON_THRESHOLD)
         /\ n % COUPON_THRESHOLD < COUPON_THRESHOLD
  BY DEF COUPON_THRESHOLD

(* Lemma: an award books into the balance what it books into the ledger.   *)
LEMMA LedgerNext ==
  EffectsTypeOK /\ AwardersAgree /\ LedgerBalances /\ [EffectsNext]_effectsVars => LedgerBalances'
  <1> SUFFICES ASSUME EffectsTypeOK, AwardersAgree, LedgerBalances, [EffectsNext]_effectsVars
               PROVE  LedgerBalances'
    OBVIOUS
  <1>1. ASSUME NEW w \in Awarder, Award(w) PROVE LedgerBalances'
    <2> DEFINE n == Augmented(w)
               earns == PointsOf[awarder[w].order]
    <2>1. awarder[w].order \in Purchase /\ awarder[w].read = points
      BY <1>1 DEF EffectsTypeOK, AwarderState, AwardersAgree, Award
    <2>2. earns \in Nat
      BY <2>1, PurchasesAssumption
    <2>3. n = points + earns /\ n \in Nat
      BY <2>1, <2>2 DEF Augmented, EffectsTypeOK
    <2>4. /\ points' = n % COUPON_THRESHOLD
          /\ coupons' = coupons + (n \div COUPON_THRESHOLD)
          /\ earned' = earned + earns
      BY <1>1 DEF Award
    <2> HIDE DEF n, earns
    <2>5. n \div COUPON_THRESHOLD \in Nat /\ n % COUPON_THRESHOLD \in Nat
      BY <2>3 DEF COUPON_THRESHOLD
    <2> QED
      BY <2>2, <2>3, <2>4, <2>5, Exchange DEF LedgerBalances, EffectsTypeOK, COUPON_THRESHOLD
  <1>2. ASSUME UNCHANGED <<points, coupons, earned>> PROVE LedgerBalances'
    BY <1>2 DEF LedgerBalances
  <1> QED
    BY <1>1, <1>2 DEF EffectsNext, effectsVars, NotifyPaid, MatchPayment, Activate, Start,
                       NothingToAward,
                      LockUser, FailAward

(* However many workers award orders of a customer at a time, balance,     *)
(* coupons and ledger agree: the lock of the users row is enough.          *)
THEOREM LedgerBalancesAlways == EffectsSpec => []LedgerBalances
  <1>1. EffectsInit => LedgerBalances
    BY DEF EffectsInit, LedgerBalances, COUPON_THRESHOLD
  <1> QED
    BY <1>1, LedgerNext, Agreed, PTL DEF EffectsSpec

-----------------------------------------------------------------------------
(* Messages                                                                *)

(* Lemma: the workers that handle an order are finitely many; one that     *)
(* takes it up adds at most one to them, one that lets go takes one away.  *)
LEMMA Workers ==
  ASSUME EffectsTypeOK, NEW w \in Awarder, NEW o \in Purchase,
         awarder' \in [Awarder -> AwarderState],
         \A v \in Awarder \ {w} : awarder'[v] = awarder[v]
  PROVE  /\ Cardinality(InProgress(o)) \in Nat
         /\ Cardinality(InProgress(o)') \in Nat
         /\ awarder'[w].order = awarder[w].order =>
              Cardinality(InProgress(o)') = Cardinality(InProgress(o))
         /\ awarder'[w].order # o =>
              Cardinality(InProgress(o)') <= Cardinality(InProgress(o))
         /\ awarder'[w].order # o /\ awarder[w].order = o =>
              Cardinality(InProgress(o)') = Cardinality(InProgress(o)) - 1
         /\ Cardinality(InProgress(o)') <= Cardinality(InProgress(o)) + 1
  <1>1. IsFiniteSet(InProgress(o)) /\ IsFiniteSet(InProgress(o)')
    BY EffectsAssumption, FS_Subset DEF InProgress
  <1>2. /\ Cardinality(InProgress(o)) \in Nat
        /\ Cardinality(InProgress(o)') \in Nat
    BY <1>1, FS_CardinalityType
  <1>3. ASSUME awarder'[w].order = awarder[w].order PROVE InProgress(o)' = InProgress(o)
    BY <1>3 DEF InProgress
  <1>4. ASSUME awarder'[w].order # o PROVE InProgress(o)' = InProgress(o) \ {w}
    BY <1>4 DEF InProgress
  <1>5. ASSUME awarder'[w].order = o PROVE InProgress(o)' = InProgress(o) \cup {w}
    BY <1>5 DEF InProgress
  <1>6. awarder[w].order = o <=> w \in InProgress(o)
    BY DEF InProgress
  <1>7. /\ Cardinality(InProgress(o) \ {w}) =
             IF w \in InProgress(o) THEN Cardinality(InProgress(o)) - 1
                                    ELSE Cardinality(InProgress(o))
        /\ Cardinality(InProgress(o) \cup {w}) =
             IF w \in InProgress(o) THEN Cardinality(InProgress(o))
                                    ELSE Cardinality(InProgress(o)) + 1
    BY <1>1, FS_RemoveElement, FS_AddElement
  <1>8. ASSUME awarder'[w].order = o
        PROVE  Cardinality(InProgress(o)') = IF awarder[w].order = o
                                               THEN Cardinality(InProgress(o))
                                               ELSE Cardinality(InProgress(o)) + 1
    BY <1>5, <1>6, <1>7, <1>8
  <1>9. ASSUME awarder'[w].order # o
        PROVE  Cardinality(InProgress(o)') = IF awarder[w].order = o
                                               THEN Cardinality(InProgress(o)) - 1
                                               ELSE Cardinality(InProgress(o))
    BY <1>4, <1>6, <1>7, <1>9
  <1>10. awarder'[w].order = awarder[w].order =>
           Cardinality(InProgress(o)') = Cardinality(InProgress(o))
    BY <1>3
  <1> DEFINE n == Cardinality(InProgress(o))
             m == Cardinality(InProgress(o)')
  <1>11. n \in Nat /\ m \in Nat
    BY <1>2
  <1> HIDE DEF n, m
  <1>12. /\ awarder'[w].order = o => m = IF awarder[w].order = o THEN n ELSE n + 1
         /\ awarder'[w].order # o => m = IF awarder[w].order = o THEN n - 1 ELSE n
    BY <1>8, <1>9 DEF n, m
  <1>13. /\ awarder'[w].order # o => m <= n
         /\ awarder'[w].order # o /\ awarder[w].order = o => m = n - 1
         /\ m <= n + 1
    BY <1>11, <1>12
  <1>14. /\ awarder'[w].order # o =>
               Cardinality(InProgress(o)') <= Cardinality(InProgress(o))
         /\ awarder'[w].order # o /\ awarder[w].order = o =>
               Cardinality(InProgress(o)') = Cardinality(InProgress(o)) - 1
         /\ Cardinality(InProgress(o)') <= Cardinality(InProgress(o)) + 1
    BY <1>13 DEF n, m
  <1> QED
    BY <1>2, <1>10, <1>14

(* Lemma: a message is in the broker, with a worker, spent or lost.        *)
LEMMA DispatchNext ==
  (/\ EffectsTypeOK /\ AwardersAgree /\ AwardPerDispatch /\ EffectsTypeOK'
   /\ [EffectsNext]_effectsVars)
    => AwardPerDispatch'
  <1> SUFFICES ASSUME EffectsTypeOK, AwardersAgree, AwardPerDispatch, EffectsTypeOK',
                      [EffectsNext]_effectsVars, NEW o \in Purchase
               PROVE  (awards[o] + messages[o] + Cardinality(InProgress(o))
                         <= dispatched[o])'
    BY DEF AwardPerDispatch
  <1> DEFINE running == Cardinality(InProgress(o))
             room    == awards[o] + messages[o] + running <= dispatched[o]
  <1>0. /\ room
        /\ awards[o] \in Nat /\ messages[o] \in Nat /\ dispatched[o] \in Nat
        /\ awards'[o] \in Nat /\ messages'[o] \in Nat /\ dispatched'[o] \in Nat
    BY EffectsAssumption DEF AwardPerDispatch, EffectsTypeOK
  <1>t. /\ awarder \in [Awarder -> AwarderState]
        /\ awarder' \in [Awarder -> AwarderState]
    BY DEF EffectsTypeOK
  <1>n. IsFiniteSet(InProgress(o)) /\ running \in Nat
    BY EffectsAssumption, FS_Subset, FS_CardinalityType DEF InProgress
  <1>1. ASSUME UNCHANGED awarder PROVE running' = running
    BY <1>1 DEF InProgress
  <1>2. ASSUME NEW q \in Purchase, NotifyPaid(q) \/ MatchPayment(q) PROVE room'
    <2>1. /\ awards'[o] = awards[o] /\ running' = running
          /\ messages'[o] = messages[o] \/ (q = o /\ messages'[o] = messages[o] + 1)
          /\ dispatched'[o] = IF q = o THEN dispatched[o] + 1 ELSE dispatched[o]
      BY <1>1, <1>2 DEF NotifyPaid, MatchPayment, Dispatch, EffectsTypeOK
    <2> QED
      BY <1>0, <1>n, <2>1
  <1>3. ASSUME NEW q \in Purchase, Activate(q) PROVE room'
    BY <1>0, <1>1, <1>3 DEF Activate
  <1>4. ASSUME NEW w \in Awarder, NEW q \in Purchase, Start(w, q) PROVE room'
    <2>1. /\ awards'[o] = awards[o] /\ dispatched'[o] = dispatched[o]
          /\ messages'[o] = IF q = o THEN messages[o] - 1 ELSE messages[o]
          /\ awarder'[w].order = q
          /\ \A v \in Awarder \ {w} : awarder'[v] = awarder[v]
      BY <1>4, <1>t DEF Start, EffectsTypeOK
    <2>2. /\ running' \in Nat
          /\ running' <= running + 1
          /\ q # o => running' <= running
      BY <1>t, <2>1, Workers
    <2> QED
      BY <1>0, <1>n, <2>1, <2>2
  <1>5. ASSUME NEW w \in Awarder, NothingToAward(w) \/ FailAward(w) PROVE room'
    <2>1. /\ awards'[o] = awards[o] /\ messages'[o] = messages[o]
          /\ dispatched'[o] = dispatched[o]
      BY <1>5 DEF NothingToAward, FailAward
    <2>2. /\ awarder'[w].order # o
          /\ \A v \in Awarder \ {w} : awarder'[v] = awarder[v]
      BY <1>5, <1>t, EffectsAssumption DEF NothingToAward, FailAward, IdleAwarder
    <2>3. running' \in Nat /\ running' <= running
      BY <1>t, <2>2, Workers
    <2> QED
      BY <1>0, <1>n, <2>1, <2>3
  <1>6. ASSUME NEW w \in Awarder, LockUser(w) PROVE room'
    <2>1. /\ awarder'[w].order = awarder[w].order
          /\ \A v \in Awarder \ {w} : awarder'[v] = awarder[v]
      BY <1>6, <1>t DEF LockUser, AwarderState
    <2>2. running' = running
      BY <1>t, <2>1, Workers
    <2> QED
      BY <1>0, <1>6, <2>2 DEF LockUser
  <1>7. ASSUME NEW w \in Awarder, Award(w) PROVE room'
    <2>1. /\ awarder'[w].order # o
          /\ \A v \in Awarder \ {w} : awarder'[v] = awarder[v]
          /\ messages' = messages /\ dispatched' = dispatched
      BY <1>7, <1>t, EffectsAssumption DEF Award, IdleAwarder
    <2>2. awards'[o] = IF awarder[w].order = o THEN awards[o] + 1 ELSE awards[o]
      BY <1>7 DEF Award, EffectsTypeOK
    <2>3. /\ running' \in Nat /\ running' <= running
          /\ awarder[w].order = o => running' = running - 1
      BY <1>t, <2>1, Workers
    <2> QED
      BY <1>0, <1>n, <2>1, <2>2, <2>3
  <1>8. CASE UNCHANGED effectsVars
    BY <1>0, <1>1, <1>8 DEF effectsVars
  <1> QED
    BY <1>2, <1>3, <1>4, <1>5, <1>6, <1>7, <1>8 DEF EffectsNext

(* Points are awarded at most once for each message that was sent.         *)
THEOREM AwardPerDispatchAlways == EffectsSpec => []AwardPerDispatch
  <1>1. EffectsInit => AwardPerDispatch
    <2> SUFFICES ASSUME EffectsInit, NEW o \in Purchase
                 PROVE  awards[o] + messages[o] + Cardinality(InProgress(o)) <= dispatched[o]
      BY DEF AwardPerDispatch
    <2>1. InProgress(o) = {}
      BY EffectsAssumption DEF EffectsInit, IdleAwarder, InProgress
    <2> QED
      BY <2>1, FS_EmptySet DEF EffectsInit
  <1>2. EffectsTypeOK /\ AwardersAgree /\ AwardPerDispatch /\ [EffectsNext]_effectsVars
          => AwardPerDispatch'
    BY DispatchNext, TypeNext
  <1> QED
    BY <1>1, <1>2, Agreed, PTL DEF EffectsSpec
=============================================================================
